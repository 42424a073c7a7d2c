--------------------------- MODULE Memory_proofs ----------------------------
(***************************************************************************)
(* Proofs about the code that writes memory for others.                     *)
(*                                                                         *)
(* Strings, for every memory and every set of proper calls: the invariant    *)
(* says of each loop how far it has got, and what a call promises follows    *)
(* when the loop ends.                                                      *)
(*                                                                         *)
(* Pointers, for every heap, every pool and every program that keeps to what *)
(* it was given: its accesses go where they are meant to.                   *)
(*                                                                         *)
(* Handoff, whose accesses do not: what becomes of the structure all the same. *)
(***************************************************************************)
EXTENDS Strings, Handoff, WellFoundedInduction, TLAPS

-----------------------------------------------------------------------------
(* The memory and string functions *)

InFill ==
  loop = "fill" =>
    /\ call.fn = "memset" /\ to = call.d /\ count = call.n /\ i <= count
    /\ mem = Filled(call.mem, call.d, i, call.c)

InUp ==
  loop = "up" =>
    /\ i <= count /\ Copyable(to, from, count)
    /\ mem = Moved(call.mem, to, from, i)
    /\ \/ /\ call.fn \in {"memcpy", "memmove"}
          /\ to = call.d /\ from = call.s /\ count = call.n
       \/ /\ call.fn = "strdup"
          /\ to = Fresh /\ from = call.d /\ count = Length(call.mem, call.d) + 1

InDown ==
  loop = "down" =>
    /\ call.fn = "memmove" /\ call.d > call.s
    /\ to = call.d /\ from = call.s /\ count = call.n /\ i <= count
    /\ mem = Moved(call.mem, to + count - i, from + count - i, i)

InStill ==
  loop = "still" =>
    call.fn = "memmove" /\ to = call.d /\ call.s = call.d /\ mem = call.mem

\* dest, where its text ends for strcat, is being written.
InCopy ==
  loop = "copy" =>
    /\ \/ call.fn = "strcpy" /\ to = call.d
       \/ call.fn = "strcat" /\ to = call.d + Length(call.mem, call.d)
    /\ from = call.s /\ i <= Length(call.mem, call.s)
    /\ mem = Moved(call.mem, to, from, i)

Looking == loop \in {"compare", "length", "end", "find", "search"}

InLook ==
  Looking =>
    /\ mem = call.mem /\ from = call.s /\ count = call.n
    /\ loop # "search" => to = call.d
    /\ loop # "compare" => \A k \in 0 .. i - 1 : mem[to + k] # 0
    /\ loop = "length" => call.fn \in {"strlen", "strdup"}
    /\ loop = "end" => call.fn = "strcat"

InCompare ==
  loop = "compare" =>
    /\ call.fn \in Compares
    /\ call.fn # "strcmp" => i <= call.n
    /\ \A k \in 0 .. i - 1 : mem[call.d + k] = mem[call.s + k]
    /\ call.fn # "memcmp" => \A k \in 0 .. i - 1 : mem[call.d + k] # 0

InFind ==
  loop = "find" =>
    /\ call.fn = "strchr"
    /\ \A k \in 0 .. i - 1 : mem[call.d + k] # call.c

InSearch ==
  loop = "search" =>
    /\ call.fn = "strstr"
    /\ to \in Places
    /\ \A p \in Places : p < to => p \notin Hits
    /\ \A k \in 0 .. i - 1 : mem[to + k] = mem[from + k]

Progress ==
  /\ InFill /\ InUp /\ InDown /\ InStill /\ InCopy
  /\ InLook /\ InCompare /\ InFind /\ InSearch

Promised == MemoryAsPromised /\ AnswerAsPromised

IInv == StringsTypeOK /\ Progress /\ Promised

-----------------------------------------------------------------------------
(* Lemmas *)

\* A string has one length.
LEMMA LengthIs ==
  ASSUME NEW m, NEW p \in Int, NEW n \in Nat, Ends(m, p, n)
  PROVE  Length(m, p) = n
  <1>1. Addr \subseteq Int
    BY StringsAssumption
  <1>2. p \in Addr /\ p + n \in Addr
    BY DEF Ends, Span
  <1>3. n \in Sizes
    <2>1. n = (p + n) - p
      OBVIOUS
    <2> QED BY <2>1, <1>2 DEF Sizes
  <1>4. \A j \in Sizes : Ends(m, p, j) => j = n
    <2> SUFFICES ASSUME NEW j \in Sizes, Ends(m, p, j), j # n PROVE FALSE
      OBVIOUS
    <2>1. j \in Nat
      BY DEF Sizes
    <2>2. CASE j < n
      <3>1. j \in 0 .. n - 1
        BY <2>1, <2>2
      <3> QED BY <3>1 DEF Ends
    <2>3. CASE n < j
      <3>1. n \in 0 .. j - 1
        BY <2>1, <2>3
      <3> QED BY <3>1 DEF Ends
    <2> QED BY <2>1, <2>2, <2>3
  <1> QED BY <1>3, <1>4 DEF Length

\* A terminated string ends at its length.
LEMMA LengthFacts ==
  ASSUME NEW m, NEW p, Terminated(m, p)
  PROVE  Length(m, p) \in Nat /\ Ends(m, p, Length(m, p))
  BY DEF Terminated, Length, Sizes

\* The parts of a call.
LEMMA CallFacts ==
  ASSUME StringsTypeOK
  PROVE  /\ call.fn \in Functions /\ call.d \in Int /\ call.s \in Int
         /\ call.n \in Nat /\ call.c \in Byte /\ call.mem \in [Addr -> Byte]
         /\ Proper(call) /\ Addr \subseteq Int
  BY StringsAssumption DEF StringsTypeOK, Request

-----------------------------------------------------------------------------
LEMMA StringsInitHolds == StringsInit => IInv
  <1> SUFFICES ASSUME StringsInit PROVE IInv
    OBVIOUS
  <1>0. /\ call \in Requests /\ loop \in Loops /\ Starts(call, loop) /\ mem = call.mem
        /\ to = call.d /\ from = call.s /\ count = call.n /\ i = 0 /\ ret = NULL
    BY DEF StringsInit
  <1>1. /\ call.fn \in Functions /\ call.d \in Int /\ call.s \in Int
        /\ call.n \in Nat /\ call.c \in Byte /\ call.mem \in [Addr -> Byte]
        /\ Proper(call) /\ Addr \subseteq Int
    BY <1>0, StringsAssumption DEF Request
  <1>2. /\ loop = "fill" <=> call.fn = "memset"
        /\ loop = "compare" <=> call.fn \in Compares
        /\ loop = "length" <=> call.fn \in {"strlen", "strdup"}
        /\ loop = "copy" <=> call.fn = "strcpy"
        /\ loop = "end" <=> call.fn = "strcat"
        /\ loop = "find" <=> call.fn = "strchr"
        /\ loop = "search" <=> call.fn = "strstr"
        /\ loop = "up" <=> call.fn = "memcpy" \/ (call.fn = "memmove" /\ call.d < call.s)
        /\ loop = "down" <=> call.fn = "memmove" /\ call.d > call.s
        /\ loop = "still" <=> call.fn = "memmove" /\ call.d = call.s
        /\ loop # "returned" /\ loop \in Loops
    BY <1>0, <1>1 DEF Starts, MoveLoop, Functions, Compares, Loops
  <1>3. StringsTypeOK
    BY <1>0, <1>1, <1>2 DEF StringsTypeOK, NULL
  <1>4. \A p, q \in Int : Moved(mem, p, q, 0) = mem /\ Filled(mem, p, 0, call.c) = mem
    <2> SUFFICES ASSUME NEW p \in Int, NEW q \in Int
                 PROVE  Moved(mem, p, q, 0) = mem /\ Filled(mem, p, 0, call.c) = mem
      OBVIOUS
    <2>1. \A a \in Addr : a \notin Span(p, 0)
      BY <1>1 DEF Span
    <2>2. mem = [a \in Addr |-> mem[a]]
      BY <1>0, <1>1
    <2> QED BY <2>1, <2>2 DEF Moved, Filled
  <1>5. InFill /\ InStill
    BY <1>0, <1>1, <1>2, <1>4 DEF InFill, InStill
  <1>6. InUp
    <2> SUFFICES ASSUME loop = "up" PROVE InUp
      BY DEF InUp
    <2>1. Copyable(call.d, call.s, call.n)
      BY <1>1, <1>2 DEF Proper, Copyable
    <2> QED BY <1>0, <1>1, <1>2, <1>4, <2>1 DEF InUp
  <1>7. InDown
    BY <1>0, <1>1, <1>2, <1>4 DEF InDown
  <1>8. InCopy
    <2> SUFFICES ASSUME loop = "copy" PROVE InCopy
      BY DEF InCopy
    <2>1. Length(call.mem, call.s) \in Nat
      BY <1>1, <1>2, LengthFacts DEF Proper
    <2> QED BY <1>0, <1>1, <1>2, <1>4, <2>1 DEF InCopy
  <1>9. InLook /\ InCompare /\ InFind
    BY <1>0, <1>1, <1>2 DEF InLook, InCompare, InFind, Looking
  <1>10. InSearch
    <2> SUFFICES ASSUME loop = "search" PROVE InSearch
      BY DEF InSearch
    <2>1. Length(call.mem, call.d) \in Nat
      BY <1>1, <1>2, LengthFacts DEF Proper
    <2> QED BY <1>0, <1>1, <1>2, <2>1 DEF InSearch, Places
  <1>11. Promised
    BY <1>2 DEF Promised, MemoryAsPromised, AnswerAsPromised
  <1> QED BY <1>3, <1>5, <1>6, <1>7, <1>8, <1>9, <1>10, <1>11 DEF IInv, Progress

-----------------------------------------------------------------------------
(* memset, memcpy, memmove *)

\* One more byte copied upwards: the byte to copy is still as it was.
LEMMA MovedUp ==
  ASSUME NEW m \in [Addr -> Byte], NEW d \in Int, NEW s \in Int, NEW n \in Nat, NEW k \in Nat,
         Copyable(d, s, n), k < n
  PROVE  /\ d + k \in Addr /\ s + k \in Addr
         /\ Moved(m, d, s, k)[s + k] = m[s + k]
         /\ [Moved(m, d, s, k) EXCEPT ![d + k] = m[s + k]] = Moved(m, d, s, k + 1)
         /\ Moved(m, d, s, k + 1) \in [Addr -> Byte]
  <1>0. Addr \subseteq Int
    BY StringsAssumption
  <1>1. d + k \in Span(d, n) /\ s + k \in Span(s, n)
    BY DEF Span
  <1>2. d + k \in Addr /\ s + k \in Addr
    BY <1>1 DEF Copyable
  <1>3. s + k \notin Span(d, k)
    BY DEF Copyable, Span
  <1>4. Moved(m, d, s, k)[s + k] = m[s + k]
    BY <1>2, <1>3 DEF Moved
  <1>5. \A a \in Addr : a \in Span(d, k + 1) <=> a = d + k \/ a \in Span(d, k)
    BY <1>0 DEF Span
  <1>6. s + ((d + k) - d) = s + k /\ d + k \notin Span(d, k)
    BY DEF Span
  <1>7. [Moved(m, d, s, k) EXCEPT ![d + k] = m[s + k]] = Moved(m, d, s, k + 1)
    BY <1>2, <1>5, <1>6 DEF Moved
  <1>8. \A a \in Addr : a \in Span(d, k + 1) => s + (a - d) \in Span(s, n)
    BY <1>0 DEF Span
  <1>9. Moved(m, d, s, k + 1) \in [Addr -> Byte]
    BY <1>8 DEF Moved, Copyable
  <1> QED BY <1>2, <1>4, <1>7, <1>9

\* One more byte copied downwards.
LEMMA MovedDown ==
  ASSUME NEW m \in [Addr -> Byte], NEW d \in Int, NEW s \in Int, NEW n \in Nat, NEW k \in Nat,
         Span(d, n) \subseteq Addr, Span(s, n) \subseteq Addr, d > s, k < n
  PROVE  /\ Moved(m, d + n - k, s + n - k, k)[s + n - 1 - k] = m[s + n - 1 - k]
         /\ [Moved(m, d + n - k, s + n - k, k) EXCEPT ![d + n - 1 - k] = m[s + n - 1 - k]]
              = Moved(m, d + n - (k + 1), s + n - (k + 1), k + 1)
         /\ Moved(m, d + n - (k + 1), s + n - (k + 1), k + 1) \in [Addr -> Byte]
  <1> DEFINE x == Moved(m, d + n - k, s + n - k, k)
             y == Moved(m, d + n - (k + 1), s + n - (k + 1), k + 1)
             p == d + n - 1 - k
             q == s + n - 1 - k
  <1>0. Addr \subseteq Int /\ p \in Int /\ q \in Int
    BY StringsAssumption
  <1>1. p \in Addr /\ q \in Addr
    BY DEF Span
  <1>2. q \notin Span(d + n - k, k) /\ p \notin Span(d + n - k, k)
    BY DEF Span
  <1>3. x[q] = m[q]
    BY <1>1, <1>2 DEF Moved
  <1>4. \A a \in Addr :
          /\ a \in Span(d + n - (k + 1), k + 1) <=> a = p \/ a \in Span(d + n - k, k)
          /\ (s + n - (k + 1)) + (a - (d + n - (k + 1))) = (s + n - k) + (a - (d + n - k))
    BY <1>0 DEF Span
  <1>5. (s + n - (k + 1)) + (p - (d + n - (k + 1))) = q
    BY <1>0
  <1> HIDE DEF p, q
  <1>6. [x EXCEPT ![p] = m[q]] = y
    BY <1>1, <1>2, <1>4, <1>5 DEF Moved
  <1>7. \A a \in Addr : a \in Span(d + n - (k + 1), k + 1) =>
          (s + n - (k + 1)) + (a - (d + n - (k + 1))) \in Span(s, n)
    BY <1>0 DEF Span
  <1>8. y \in [Addr -> Byte]
    BY <1>7 DEF Moved
  <1> QED BY <1>3, <1>6, <1>8 DEF p, q

LEMMA FillKeeps == ASSUME IInv, Fill PROVE IInv'
  <1>0. StringsTypeOK /\ InFill /\ loop = "fill" /\ i < count
    BY DEF IInv, Progress, Fill
  <1>1. /\ call.d \in Int /\ call.n \in Nat /\ call.c \in Byte /\ call.mem \in [Addr -> Byte]
        /\ Proper(call) /\ Addr \subseteq Int
    BY <1>0, CallFacts
  <1>2. /\ call.fn = "memset" /\ to = call.d /\ count = call.n /\ i \in Nat
        /\ mem = Filled(call.mem, call.d, i, call.c)
    BY <1>0 DEF InFill, StringsTypeOK
  <1>3. /\ i' = i + 1 /\ mem' = [mem EXCEPT ![to + i] = call.c]
        /\ UNCHANGED <<call, loop, to, from, count, ret>>
    BY DEF Fill, Turn, Store
  <1>4. \A a \in Addr : a \in Span(call.d, i + 1) <=> a = to + i \/ a \in Span(call.d, i)
    BY <1>1, <1>2 DEF Span
  <1>5. mem' = Filled(call.mem, call.d, i + 1, call.c)
    BY <1>1, <1>2, <1>3, <1>4 DEF Filled
  <1>6. mem' \in [Addr -> Byte]
    BY <1>1, <1>5 DEF Filled
  <1>7. StringsTypeOK'
    BY <1>0, <1>3, <1>6 DEF StringsTypeOK
  <1>8. InFill'
    BY <1>0, <1>2, <1>3, <1>5 DEF InFill, StringsTypeOK
  <1>9. loop' = "fill"
    BY <1>0, <1>3
  <1>10. Progress'
    BY <1>8, <1>9 DEF Progress, InUp, InDown, InStill, InCopy, InLook, Looking, InCompare,
                     InFind, InSearch
  <1>11. Promised'
    BY <1>9 DEF Promised, MemoryAsPromised, AnswerAsPromised
  <1> QED BY <1>7, <1>10, <1>11 DEF IInv

LEMMA CopyUpKeeps == ASSUME IInv, CopyUp PROVE IInv'
  <1>0. StringsTypeOK /\ InUp /\ loop = "up" /\ i < count /\ i \in Nat /\ count \in Nat
    BY DEF IInv, Progress, CopyUp, StringsTypeOK
  <1>1. call.mem \in [Addr -> Byte]
    BY <1>0, CallFacts
  <1>2. Copyable(to, from, count) /\ mem = Moved(call.mem, to, from, i) /\ to \in Int /\ from \in Int
    BY <1>0 DEF InUp, StringsTypeOK
  <1>3. /\ i' = i + 1 /\ mem' = [mem EXCEPT ![to + i] = mem[from + i]]
        /\ UNCHANGED <<call, loop, to, from, count, ret>>
    BY DEF CopyUp, Turn, Store, B
  <1>4. mem' = Moved(call.mem, to, from, i + 1) /\ mem' \in [Addr -> Byte]
    <2>1. /\ Moved(call.mem, to, from, i)[from + i] = call.mem[from + i]
          /\ [Moved(call.mem, to, from, i) EXCEPT ![to + i] = call.mem[from + i]]
               = Moved(call.mem, to, from, i + 1)
          /\ Moved(call.mem, to, from, i + 1) \in [Addr -> Byte]
      BY <1>0, <1>1, <1>2, MovedUp
    <2> QED BY <1>2, <1>3, <2>1
  <1>5. StringsTypeOK'
    BY <1>0, <1>3, <1>4 DEF StringsTypeOK
  <1>6. InUp'
    <2>1. i' <= count'
      BY <1>0, <1>3
    <2> QED BY <1>0, <1>3, <1>4, <2>1 DEF InUp
  <1>7. loop' = "up"
    BY <1>0, <1>3
  <1>8. Progress'
    BY <1>6, <1>7 DEF Progress, InFill, InDown, InStill, InCopy, InLook, Looking, InCompare,
                     InFind, InSearch
  <1>9. Promised'
    BY <1>7 DEF Promised, MemoryAsPromised, AnswerAsPromised
  <1> QED BY <1>5, <1>8, <1>9 DEF IInv

LEMMA CopyDownKeeps == ASSUME IInv, CopyDown PROVE IInv'
  <1>0. StringsTypeOK /\ InDown /\ loop = "down" /\ i < count /\ i \in Nat /\ count \in Nat
    BY DEF IInv, Progress, CopyDown, StringsTypeOK
  <1>1. call.mem \in [Addr -> Byte] /\ Proper(call)
    BY <1>0, CallFacts
  <1>2. /\ call.fn = "memmove" /\ call.d > call.s /\ to = call.d /\ from = call.s
        /\ count = call.n /\ to \in Int /\ from \in Int
        /\ mem = Moved(call.mem, to + count - i, from + count - i, i)
    BY <1>0 DEF InDown, StringsTypeOK
  <1>3. /\ i' = i + 1
        /\ mem' = [mem EXCEPT ![to + count - 1 - i] = mem[from + count - 1 - i]]
        /\ UNCHANGED <<call, loop, to, from, count, ret>>
    BY DEF CopyDown, Turn, Store
  <1>4. Span(to, count) \subseteq Addr /\ Span(from, count) \subseteq Addr
    BY <1>1, <1>2 DEF Proper
  <1>5. /\ mem' = Moved(call.mem, to + count - (i + 1), from + count - (i + 1), i + 1)
        /\ mem' \in [Addr -> Byte]
    <2> DEFINE x == Moved(call.mem, to + count - i, from + count - i, i)
               y == Moved(call.mem, to + count - (i + 1), from + count - (i + 1), i + 1)
    <2>1. /\ x[from + count - 1 - i] = call.mem[from + count - 1 - i]
          /\ [x EXCEPT ![to + count - 1 - i] = call.mem[from + count - 1 - i]] = y
          /\ y \in [Addr -> Byte]
      <3>1. to > from /\ to \in Int /\ from \in Int
        BY <1>2
      <3> QED BY <1>0, <1>1, <1>4, <3>1, MovedDown
    <2>2. mem = x
      BY <1>2
    <2> HIDE DEF x, y
    <2>3. mem' = y /\ mem' \in [Addr -> Byte]
      BY <1>3, <2>1, <2>2
    <2> QED BY <2>3 DEF y
  <1>6. StringsTypeOK'
    BY <1>0, <1>3, <1>5 DEF StringsTypeOK
  <1>7. InDown'
    BY <1>0, <1>2, <1>3, <1>5 DEF InDown
  <1>8. loop' = "down"
    BY <1>0, <1>3
  <1>9. Progress'
    BY <1>7, <1>8 DEF Progress, InFill, InUp, InStill, InCopy, InLook, Looking, InCompare,
                     InFind, InSearch
  <1>10. Promised'
    BY <1>8 DEF Promised, MemoryAsPromised, AnswerAsPromised
  <1> QED BY <1>6, <1>9, <1>10 DEF IInv

\* Nothing is claimed of the loops once the call has returned.
LEMMA ReturnKeeps ==
  ASSUME IInv, NEW v \in Int, Answer(v), mem' \in [Addr -> Byte] PROVE StringsTypeOK' /\ Progress'
  <1>1. loop' = "returned" /\ ret' = v /\ UNCHANGED <<call, to, from, count, i>>
    BY DEF Answer
  <1>2. StringsTypeOK'
    BY <1>1 DEF IInv, StringsTypeOK, Loops
  <1>3. Progress'
    BY <1>1 DEF Progress, InFill, InUp, InDown, InStill, InCopy, InLook, Looking, InCompare,
                InFind, InSearch
  <1> QED BY <1>2, <1>3

LEMMA BytesDoneKeeps == ASSUME IInv, BytesDone PROVE IInv'
  <1>0. StringsTypeOK /\ Progress /\ to \in Int /\ from \in Int /\ i \in Nat /\ count \in Nat
    BY DEF IInv, StringsTypeOK
  <1>1. /\ call.mem \in [Addr -> Byte] /\ call.d \in Int /\ call.n \in Nat /\ Addr \subseteq Int
        /\ Fresh # NULL
    BY <1>0, CallFacts, StringsAssumption DEF NULL
  <1>2. /\ loop' = "returned" /\ ret' = to /\ mem' = mem /\ call' = call
        /\ Answer(to) /\ mem' \in [Addr -> Byte]
    BY DEF BytesDone, Answer, IInv, StringsTypeOK
  <1> SUFFICES Promised'
    BY <1>0, <1>2, ReturnKeeps DEF IInv
  <1>3. CASE loop = "fill"
    <2>1. /\ call.fn = "memset" /\ to = call.d
          /\ mem = Filled(call.mem, call.d, call.n, call.c)
      BY <1>0, <1>3 DEF Progress, InFill, BytesDone
    <2> QED BY <1>2, <2>1 DEF Promised, MemoryAsPromised, AnswerAsPromised, Compares
  <1>4. CASE loop = "up"
    <2>1. i = count
      BY <1>0, <1>4 DEF Progress, InUp, BytesDone
    <2>2. CASE /\ call.fn \in {"memcpy", "memmove"} /\ to = call.d
               /\ mem = Moved(call.mem, call.d, call.s, call.n)
      BY <1>2, <2>2 DEF Promised, MemoryAsPromised, AnswerAsPromised, Compares
    <2>3. CASE /\ call.fn = "strdup" /\ to = Fresh
               /\ mem = Moved(call.mem, Fresh, call.d, Length(call.mem, call.d) + 1)
      BY <1>1, <1>2, <2>3 DEF Promised, MemoryAsPromised, AnswerAsPromised, Compares
    <2> QED BY <1>0, <1>4, <2>1, <2>2, <2>3 DEF Progress, InUp
  <1>5. CASE loop = "down"
    <2>1. call.fn = "memmove" /\ to = call.d /\ from = call.s /\ count = call.n /\ i = count
      BY <1>0, <1>5 DEF Progress, InDown, BytesDone
    <2>2. to + count - i = call.d /\ from + count - i = call.s
      BY <1>0, <2>1
    <2>3. mem = Moved(call.mem, call.d, call.s, call.n)
      BY <1>0, <1>5, <2>1, <2>2 DEF Progress, InDown
    <2> QED BY <1>2, <2>1, <2>3 DEF Promised, MemoryAsPromised, AnswerAsPromised, Compares
  <1>6. CASE loop = "still"
    <2>1. call.fn = "memmove" /\ to = call.d /\ call.s = call.d /\ mem = call.mem
      BY <1>0, <1>6 DEF Progress, InStill
    <2>2. \A a \in Addr : call.d + (a - call.d) = a
      <3>1. \A a \in Int : call.d + (a - call.d) = a
        BY <1>1
      <3> QED BY <1>1, <3>1
    <2>3. mem = Moved(call.mem, call.d, call.s, call.n)
      <3>1. call.mem = [a \in Addr |-> call.mem[a]]
        BY <1>1
      <3> QED BY <2>1, <2>2, <3>1 DEF Moved
    <2> QED BY <1>2, <2>1, <2>3 DEF Promised, MemoryAsPromised, AnswerAsPromised, Compares
  <1> QED BY <1>3, <1>4, <1>5, <1>6 DEF BytesDone

-----------------------------------------------------------------------------
(* strcpy, strcat, strlen, strdup *)

\* The strings strcpy and strcat copy, and the room they have for it.
LEMMA CopyFacts ==
  ASSUME IInv, loop = "copy"
  PROVE  /\ to \in Int /\ from = call.s /\ from \in Int /\ i \in Nat
         /\ call.mem \in [Addr -> Byte]
         /\ Length(call.mem, call.s) \in Nat /\ i <= Length(call.mem, call.s)
         /\ Ends(call.mem, call.s, Length(call.mem, call.s))
         /\ Copyable(to, from, Length(call.mem, call.s) + 1)
         /\ mem = Moved(call.mem, to, from, i)
  <1>1. /\ StringsTypeOK /\ InCopy /\ call.fn \in {"strcpy", "strcat"}
    BY DEF IInv, Progress, InCopy
  <1>2. Proper(call) /\ call.mem \in [Addr -> Byte]
    BY <1>1, CallFacts
  <1>3. Terminated(call.mem, call.s) /\ Copyable(to, call.s, Length(call.mem, call.s) + 1)
    BY <1>1, <1>2 DEF Proper, InCopy
  <1>4. Length(call.mem, call.s) \in Nat /\ Ends(call.mem, call.s, Length(call.mem, call.s))
    BY <1>3, LengthFacts
  <1> QED BY <1>1, <1>2, <1>3, <1>4 DEF InCopy, StringsTypeOK

\* The character to copy next is still as it was, and is stored as such.
LEMMA NextChar ==
  ASSUME IInv, loop = "copy"
  PROVE  /\ B = call.mem[call.s + i]
         /\ [mem EXCEPT ![to + i] = B] = Moved(call.mem, to, from, i + 1)
         /\ Moved(call.mem, to, from, i + 1) \in [Addr -> Byte]
  <1>1. to \in Int /\ from \in Int /\ i \in Nat /\ call.mem \in [Addr -> Byte]
    BY CopyFacts
  <1>2. PICK size \in Nat : Copyable(to, from, size) /\ i < size
    <2>1. Length(call.mem, call.s) + 1 \in Nat /\ i < Length(call.mem, call.s) + 1
      BY CopyFacts
    <2> QED BY <2>1, CopyFacts
  <1>3. Moved(call.mem, to, from, i)[from + i] = call.mem[from + i]
    <2>1. from + i \in Addr
      BY <1>1, <1>2, MovedUp
    <2>2. from + i \notin Span(to, i)
      BY <1>1, <1>2 DEF Copyable, Span
    <2> QED BY <2>1, <2>2 DEF Moved
  <1>4. Moved(call.mem, to, from, i + 1) \in [Addr -> Byte]
    BY <1>1, <1>2, MovedUp
  <1>5. [Moved(call.mem, to, from, i) EXCEPT ![to + i] = call.mem[from + i]]
          = Moved(call.mem, to, from, i + 1)
    BY <1>1, <1>2, MovedUp
  <1> QED BY <1>3, <1>4, <1>5, CopyFacts DEF B

LEMMA CopyCharKeeps == ASSUME IInv, CopyChar PROVE IInv'
  <1>1. /\ loop = "copy" /\ B # 0 /\ mem' = [mem EXCEPT ![to + i] = B] /\ i' = i + 1
        /\ UNCHANGED <<call, loop, to, from, count, ret>>
    BY DEF CopyChar, Store, Turn
  <1>2. mem' = Moved(call.mem, to, from, i + 1) /\ mem' \in [Addr -> Byte]
    BY <1>1, NextChar
  <1>3. i + 1 <= Length(call.mem, call.s)
    <2>1. i # Length(call.mem, call.s)
      BY <1>1, NextChar, CopyFacts DEF Ends
    <2> QED BY <1>1, <2>1, CopyFacts
  <1>4. StringsTypeOK'
    BY <1>1, <1>2 DEF IInv, StringsTypeOK
  <1>5. InCopy'
    BY <1>1, <1>2, <1>3 DEF IInv, Progress, InCopy
  <1>6. Progress'
    BY <1>1, <1>5 DEF Progress, InFill, InUp, InDown, InStill, InLook, Looking, InCompare,
                      InFind, InSearch
  <1>7. Promised'
    BY <1>1 DEF Promised, MemoryAsPromised, AnswerAsPromised
  <1> QED BY <1>4, <1>6, <1>7 DEF IInv

LEMMA CopyTerminatorKeeps == ASSUME IInv, CopyTerminator PROVE IInv'
  <1>1. /\ loop = "copy" /\ B = 0 /\ mem' = [mem EXCEPT ![to + i] = B] /\ Answer(call.d)
        /\ loop' = "returned" /\ ret' = call.d /\ call' = call /\ call.d \in Int
    BY CallFacts DEF CopyTerminator, Store, Answer, IInv
  <1>2. mem' = Moved(call.mem, to, from, i + 1) /\ mem' \in [Addr -> Byte]
    BY <1>1, NextChar
  <1>3. i = Length(call.mem, call.s)
    <2>1. ~(i < Length(call.mem, call.s))
      <3> SUFFICES ASSUME i < Length(call.mem, call.s) PROVE FALSE
        OBVIOUS
      <3>1. i \in 0 .. Length(call.mem, call.s) - 1
        BY <1>1, CopyFacts
      <3> QED BY <1>1, <3>1, NextChar, CopyFacts DEF Ends
    <2> QED BY <1>1, <2>1, CopyFacts
  <1>4. Promised'
    BY <1>1, <1>2, <1>3 DEF IInv, Progress, InCopy, Promised, MemoryAsPromised, AnswerAsPromised,
                            Compares
  <1> QED BY <1>1, <1>2, <1>4, ReturnKeeps DEF IInv

\* What the loops that only look have seen.
LEMMA LookFacts ==
  ASSUME IInv, Looking
  PROVE  /\ StringsTypeOK /\ mem = call.mem /\ from = call.s /\ count = call.n
         /\ loop # "search" => to = call.d
         /\ call.d \in Int /\ call.s \in Int /\ call.n \in Nat /\ i \in Nat /\ to \in Int
         /\ mem \in [Addr -> Byte] /\ Proper(call) /\ ret \in Int
  BY CallFacts DEF IInv, Progress, InLook, StringsTypeOK

\* A step that goes on looking keeps what was promised of memory and answers.
LEMMA StillLooking ==
  ASSUME IInv, Looking, Looking', UNCHANGED mem
  PROVE  Promised' /\ InFill' /\ InUp' /\ InDown' /\ InStill' /\ InCopy'
  BY DEF Looking, Promised, MemoryAsPromised, AnswerAsPromised, InFill, InUp, InDown, InStill,
         InCopy

\* At the first character that is 0 the length is known.
LEMMA LengthFound ==
  ASSUME IInv, loop \in {"length", "end"}, A = 0
  PROVE  /\ i = Length(call.mem, call.d) /\ Ends(call.mem, call.d, i) /\ to = call.d
         /\ call.fn \in {"strlen", "strdup", "strcat"}
  <1>1. /\ mem = call.mem /\ to = call.d /\ i \in Nat /\ call.d \in Int /\ Proper(call)
    BY LookFacts DEF Looking
  <1>2. call.fn \in {"strlen", "strdup", "strcat"} /\ \A k \in 0 .. i - 1 : mem[to + k] # 0
    BY DEF IInv, Progress, InLook, Looking
  <1>3. Terminated(call.mem, call.d)
    BY <1>1, <1>2 DEF Proper
  <1>4. PICK n \in Nat : Ends(call.mem, call.d, n)
    BY <1>3 DEF Terminated, Sizes
  <1>5. n = i
    <2>1. ~(n < i)
      <3> SUFFICES ASSUME n < i PROVE FALSE
        OBVIOUS
      <3>1. n \in 0 .. i - 1
        BY <1>1
      <3> QED BY <1>1, <1>2, <1>4, <3>1 DEF Ends
    <2>2. ~(i < n)
      <3> SUFFICES ASSUME i < n PROVE FALSE
        OBVIOUS
      <3>1. i \in 0 .. n - 1
        BY <1>1
      <3> QED BY <1>1, <1>4, <3>1 DEF Ends, A
    <2> QED BY <1>1, <2>1, <2>2
  <1> QED BY <1>1, <1>2, <1>4, <1>5, LengthIs

LEMMA MeasureKeeps == ASSUME IInv, Measure PROVE IInv'
  <1>1. /\ loop \in {"length", "end"} /\ A # 0 /\ i' = i + 1
        /\ UNCHANGED <<call, loop, to, from, count, ret, mem>>
    BY DEF Measure, Turn
  <1>2. Looking /\ Looking'
    BY <1>1 DEF Looking
  <1>3. StringsTypeOK'
    BY <1>1 DEF IInv, StringsTypeOK
  <1>4. \A k \in 0 .. i' - 1 : mem[to + k] # 0
    <2>1. i \in Nat /\ \A k \in 0 .. i - 1 : mem[to + k] # 0
      BY <1>1, <1>2 DEF IInv, Progress, InLook, StringsTypeOK
    <2>2. \A k \in 0 .. i' - 1 : k = i \/ k \in 0 .. i - 1
      BY <1>1, <2>1
    <2> QED BY <1>1, <2>1, <2>2 DEF A
  <1>5. InLook'
    BY <1>1, <1>2, <1>4 DEF IInv, Progress, InLook
  <1>6. InCompare' /\ InFind' /\ InSearch'
    BY <1>1 DEF InCompare, InFind, InSearch
  <1> QED BY <1>1, <1>2, <1>3, <1>5, <1>6, StillLooking DEF IInv, Progress

LEMMA LengthKnownKeeps == ASSUME IInv, LengthKnown PROVE IInv'
  <1>1. /\ loop = "length" /\ A = 0 /\ call.fn = "strlen" /\ Answer(i)
        /\ loop' = "returned" /\ ret' = i /\ call' = call /\ mem' = mem /\ i \in Int
    BY LookFacts DEF LengthKnown, Answer, Looking
  <1>2. i = Length(call.mem, call.d) /\ mem = call.mem /\ mem' \in [Addr -> Byte]
    BY <1>1, LengthFound, LookFacts DEF Looking
  <1>3. Promised'
    BY <1>1, <1>2 DEF Promised, MemoryAsPromised, AnswerAsPromised, Compares
  <1> QED BY <1>1, <1>2, <1>3, ReturnKeeps DEF IInv

LEMMA NoRoomKeeps == ASSUME IInv, NoRoom PROVE IInv'
  <1>1. /\ loop = "length" /\ call.fn = "strdup" /\ Answer(NULL) /\ NULL \in Int
        /\ loop' = "returned" /\ ret' = NULL /\ call' = call /\ mem' = mem
    BY DEF NoRoom, Answer, NULL
  <1>2. mem = call.mem /\ mem' \in [Addr -> Byte]
    BY <1>1, LookFacts DEF Looking
  <1>3. Promised'
    BY <1>1, <1>2 DEF Promised, MemoryAsPromised, AnswerAsPromised, Compares
  <1> QED BY <1>1, <1>2, <1>3, ReturnKeeps DEF IInv

\* Nothing has been moved yet.
LEMMA MovedNone ==
  ASSUME NEW m \in [Addr -> Byte], NEW p \in Int, NEW q PROVE Moved(m, p, q, 0) = m
  <1>1. Addr \subseteq Int
    BY StringsAssumption
  <1>2. \A a \in Addr : a \notin Span(p, 0)
    BY <1>1 DEF Span
  <1>3. m = [a \in Addr |-> m[a]]
    OBVIOUS
  <1> QED BY <1>2, <1>3 DEF Moved

LEMMA DuplicateKeeps == ASSUME IInv, Duplicate PROVE IInv'
  <1>1. /\ loop = "length" /\ A = 0 /\ call.fn = "strdup" /\ loop' = "up"
        /\ to' = Fresh /\ from' = call.d /\ count' = i + 1 /\ i' = 0
        /\ call' = call /\ mem' = mem /\ ret' = ret
    BY DEF Duplicate
  <1>2. /\ StringsTypeOK /\ mem = call.mem /\ mem \in [Addr -> Byte] /\ Proper(call)
        /\ i \in Nat /\ call.d \in Int /\ Fresh \in Int
    BY <1>1, LookFacts, StringsAssumption DEF Looking
  <1>3. i = Length(call.mem, call.d)
    BY <1>1, LengthFound
  <1>4. Copyable(Fresh, call.d, i + 1)
    BY <1>1, <1>2, <1>3 DEF Proper
  <1>5. StringsTypeOK'
    BY <1>1, <1>2 DEF StringsTypeOK, Loops
  <1>6. InUp'
    BY <1>1, <1>2, <1>3, <1>4, MovedNone DEF InUp
  <1>7. Progress'
    BY <1>1, <1>6 DEF Progress, InFill, InDown, InStill, InCopy, InLook, Looking, InCompare,
                      InFind, InSearch
  <1>8. Promised'
    BY <1>1 DEF Promised, MemoryAsPromised, AnswerAsPromised
  <1> QED BY <1>5, <1>7, <1>8 DEF IInv

LEMMA EndFoundKeeps == ASSUME IInv, EndFound PROVE IInv'
  <1>1. /\ loop = "end" /\ A = 0 /\ loop' = "copy" /\ to' = to + i /\ i' = 0
        /\ call' = call /\ from' = from /\ count' = count /\ mem' = mem /\ ret' = ret
    BY DEF EndFound
  <1>2. /\ StringsTypeOK /\ mem = call.mem /\ mem \in [Addr -> Byte] /\ Proper(call)
        /\ i \in Nat /\ call.d \in Int /\ to \in Int /\ from = call.s
    BY <1>1, LookFacts DEF Looking
  <1>3. i = Length(call.mem, call.d) /\ to = call.d
    BY <1>1, LengthFound
  <1>4. call.fn = "strcat"
    BY <1>1 DEF IInv, Progress, InLook, Looking
  <1>5. Length(call.mem, call.s) \in Nat
    BY <1>2, <1>4, LengthFacts DEF Proper
  <1>6. StringsTypeOK'
    BY <1>1, <1>2 DEF StringsTypeOK, Loops
  <1>7. InCopy'
    <2>1. Moved(call.mem, to', from, 0) = call.mem
      BY <1>1, <1>2, MovedNone
    <2> QED BY <1>1, <1>2, <1>3, <1>4, <1>5, <2>1 DEF InCopy
  <1>8. Progress'
    BY <1>1, <1>7 DEF Progress, InFill, InUp, InDown, InStill, InLook, Looking, InCompare,
                      InFind, InSearch
  <1>9. Promised'
    BY <1>1 DEF Promised, MemoryAsPromised, AnswerAsPromised
  <1> QED BY <1>6, <1>8, <1>9 DEF IInv

-----------------------------------------------------------------------------
(* memcmp, strcmp, strncmp *)

\* Before its terminator, a string has no other.
LEMMA NotPastEnd ==
  ASSUME NEW m, NEW p \in Int, NEW j \in Nat, Terminated(m, p),
         \A k \in 0 .. j - 1 : m[p + k] # 0
  PROVE  j <= Length(m, p) /\ p + j \in Addr
  <1>1. PICK n \in Nat : n = Length(m, p) /\ Ends(m, p, n)
    BY LengthFacts
  <1>2. ~(n < j)
    <2> SUFFICES ASSUME n < j PROVE FALSE
      OBVIOUS
    <2>1. n \in 0 .. j - 1
      OBVIOUS
    <2> QED BY <1>1, <2>1 DEF Ends
  <1>3. p + j \in Span(p, n + 1)
    BY <1>2 DEF Span
  <1> QED BY <1>1, <1>2, <1>3 DEF Ends

\* Every character a comparison may have to compare is there.
LEMMA CharIsByte ==
  ASSUME StringsTypeOK, call.fn \in Compares, NEW p \in {call.d, call.s},
         NEW k \in 0 .. Compared - 1
  PROVE  Char(p, k) \in Int
  <1>1. /\ call.mem \in [Addr -> Byte] /\ p \in Int /\ call.n \in Nat /\ Proper(call) /\ k \in Nat
        /\ 0 \in Byte /\ Byte \subseteq Int
    BY CallFacts DEF Byte
  <1>2. CASE call.fn = "memcmp"
    <2>1. p + k \in Span(p, call.n) /\ Span(p, call.n) \subseteq Addr
      BY <1>1, <1>2 DEF Span, Proper, Compared
    <2> QED BY <1>1, <1>2, <2>1 DEF Char
  <1>3. CASE call.fn # "memcmp" /\ \E j \in 0 .. k - 1 : call.mem[p + j] = 0
    BY <1>1, <1>3 DEF Char
  <1>4. CASE call.fn # "memcmp" /\ \A j \in 0 .. k - 1 : call.mem[p + j] # 0
    <2>1. Terminated(call.mem, p)
      BY <1>1, <1>4 DEF Proper, Compares
    <2>2. p + k \in Addr
      BY <1>1, <1>4, <2>1, NotPastEnd
    <2> QED BY <1>1, <1>4, <2>2 DEF Char
  <1> QED BY <1>2, <1>3, <1>4

\* Where all characters are alike, neither string is before the other.
LEMMA AllAlike ==
  ASSUME StringsTypeOK, call.fn \in Compares,
         \A k \in 0 .. Compared - 1 : Char(call.d, k) = Char(call.s, k)
  PROVE  ~Before(call.d, call.s) /\ ~Before(call.s, call.d)
  <1>1. \A k \in 0 .. Compared - 1 : Char(call.d, k) \in Int /\ Char(call.s, k) \in Int
    BY CharIsByte
  <1> QED BY <1>1 DEF Before

\* Where the first difference is decides, and only there.
LEMMA FirstDifference ==
  ASSUME NEW p, NEW q, NEW k \in 0 .. Compared - 1,
         \A j \in 0 .. k - 1 : Char(p, j) = Char(q, j),
         \A j \in 0 .. Compared - 1 : Char(p, j) \in Int /\ Char(q, j) \in Int,
         Char(p, k) < Char(q, k)
  PROVE  Before(p, q) /\ ~Before(q, p)
  <1>1. Before(p, q)
    BY DEF Before
  <1>2. ASSUME NEW l \in 0 .. Compared - 1, Char(q, l) < Char(p, l),
               \A j \in 0 .. l - 1 : Char(q, j) = Char(p, j)
        PROVE  FALSE
    <2>1. Char(p, k) # Char(q, k) /\ Char(q, l) # Char(p, l) /\ k # l
      BY <1>2
    <2>2. k \in 0 .. l - 1 \/ l \in 0 .. k - 1
      BY <2>1
    <2> QED BY <1>2, <2>1, <2>2
  <1> QED BY <1>1, <1>2 DEF Before

\* Where a comparison stands.
LEMMA CompareFacts ==
  ASSUME IInv, loop = "compare"
  PROVE  /\ mem = call.mem /\ to = call.d /\ from = call.s /\ count = call.n
         /\ call.d \in Int /\ call.s \in Int /\ call.n \in Nat /\ i \in Nat
         /\ call.fn \in Compares /\ mem \in [Addr -> Byte]
         /\ call.fn # "strcmp" => i <= call.n
         /\ \A k \in 0 .. i - 1 : mem[call.d + k] = mem[call.s + k]
         /\ call.fn # "memcmp" => \A k \in 0 .. i - 1 : mem[call.d + k] # 0
         /\ ~(call.fn # "strcmp" /\ i >= call.n) =>
              i \in 0 .. Compared - 1 /\ A \in Byte /\ B \in Byte
  <1>1. /\ mem = call.mem /\ to = call.d /\ from = call.s /\ count = call.n
        /\ call.d \in Int /\ call.s \in Int /\ call.n \in Nat /\ i \in Nat
        /\ mem \in [Addr -> Byte] /\ Proper(call)
    BY LookFacts DEF Looking
  <1>2. /\ call.fn \in Compares
        /\ call.fn # "strcmp" => i <= call.n
        /\ \A k \in 0 .. i - 1 : mem[call.d + k] = mem[call.s + k]
        /\ call.fn # "memcmp" => \A k \in 0 .. i - 1 : mem[call.d + k] # 0
    BY DEF IInv, Progress, InCompare
  <1>3. ASSUME ~(call.fn # "strcmp" /\ i >= call.n)
        PROVE  i \in 0 .. Compared - 1 /\ call.d + i \in Addr /\ call.s + i \in Addr
    <2>1. CASE call.fn = "memcmp"
      <3>1. i < call.n
        BY <1>1, <1>3, <2>1
      <3>2. call.d + i \in Span(call.d, call.n) /\ call.s + i \in Span(call.s, call.n)
        BY <1>1, <3>1 DEF Span
      <3> QED BY <1>1, <2>1, <3>1, <3>2 DEF Proper, Compared
    <2>2. CASE call.fn # "memcmp"
      <3>1. Terminated(call.mem, call.d) /\ Terminated(call.mem, call.s)
        BY <1>1, <1>2, <2>2 DEF Proper, Compares
      <3>2. \A k \in 0 .. i - 1 : call.mem[call.d + k] # 0 /\ call.mem[call.s + k] # 0
        BY <1>1, <1>2, <2>2
      <3>3. i <= Length(call.mem, call.d) /\ call.d + i \in Addr /\ call.s + i \in Addr
        BY <1>1, <3>1, <3>2, NotPastEnd
      <3>4. Length(call.mem, call.d) \in Nat
        BY <3>1, LengthFacts
      <3>5. i \in 0 .. Compared - 1
        BY <1>1, <1>3, <3>3, <3>4 DEF Compared
      <3> QED BY <3>3, <3>5
    <2> QED BY <2>1, <2>2
  <1> QED BY <1>1, <1>2, <1>3 DEF A, B

LEMMA CompareOnKeeps == ASSUME IInv, CompareOn PROVE IInv'
  <1>1. /\ loop = "compare" /\ Alike /\ i' = i + 1
        /\ UNCHANGED <<call, loop, to, from, count, ret, mem>>
    BY DEF CompareOn, Turn
  <1>2. Looking /\ Looking'
    BY <1>1 DEF Looking
  <1>3. StringsTypeOK'
    BY <1>1 DEF IInv, StringsTypeOK
  <1>4. InLook'
    BY <1>1, <1>2 DEF IInv, Progress, InLook
  <1>5. \A k \in 0 .. i : k = i \/ k \in 0 .. i - 1
    BY <1>1, CompareFacts
  <1>6. \A k \in 0 .. i : mem[call.d + k] = mem[call.s + k]
    BY <1>1, <1>5, CompareFacts DEF Alike, A, B
  <1>7. call.fn # "memcmp" => \A k \in 0 .. i : mem[call.d + k] # 0
    BY <1>1, <1>5, CompareFacts DEF Alike, A
  <1>8. (call.fn # "strcmp" => i + 1 <= call.n) /\ (i + 1) - 1 = i
    BY <1>1, CompareFacts DEF Alike
  <1>9. InCompare'
    <2>1. call.fn \in Compares
      BY <1>1, CompareFacts
    <2> QED BY <1>1, <1>6, <1>7, <1>8, <2>1 DEF InCompare
  <1>10. InFind' /\ InSearch'
    BY <1>1 DEF InFind, InSearch
  <1> QED BY <1>1, <1>2, <1>3, <1>4, <1>9, <1>10, StillLooking DEF IInv, Progress

LEMMA CompareDoneKeeps == ASSUME IInv, CompareDone PROVE IInv'
  <1> DEFINE v == IF call.fn # "strcmp" /\ i >= count THEN 0 ELSE A - B
             d == call.d
             s == call.s
  <1>1. /\ loop = "compare" /\ ~Alike /\ Answer(v) /\ loop' = "returned" /\ ret' = v
        /\ call' = call /\ mem' = mem
    BY DEF CompareDone, Answer
  <1>2. /\ mem = call.mem /\ mem' \in [Addr -> Byte] /\ call.fn \in Compares
        /\ to = d /\ from = s /\ count = call.n
        /\ d \in Int /\ s \in Int /\ i \in Nat /\ call.n \in Nat
    BY <1>1, CompareFacts
  <1>3. \A k \in 0 .. i - 1 : mem[d + k] = mem[s + k]
    BY <1>1, CompareFacts
  <1>4. \A k \in 0 .. i : Char(d, k) = mem[d + k] /\ Char(s, k) = mem[s + k]
    <2> SUFFICES ASSUME NEW k \in 0 .. i
                 PROVE  Char(d, k) = mem[d + k] /\ Char(s, k) = mem[s + k]
      OBVIOUS
    <2>1. \A j \in 0 .. k - 1 : j \in 0 .. i - 1
      BY <1>2
    <2>2. call.fn # "memcmp" => \A j \in 0 .. k - 1 : mem[d + j] # 0 /\ mem[s + j] # 0
      BY <1>1, <1>3, <2>1, CompareFacts
    <2> QED BY <1>2, <2>2 DEF Char
  <1>5. \A k \in 0 .. i - 1 : Char(d, k) = Char(s, k)
    <2>1. \A k \in 0 .. i - 1 : k \in 0 .. i
      BY <1>2
    <2> QED BY <1>3, <1>4, <2>1
  <1>6. v \in Int /\ (v < 0 <=> Before(d, s)) /\ (v > 0 <=> Before(s, d))
    <2>1. CASE call.fn # "strcmp" /\ i >= count
      <3>1. Compared = i /\ v = 0
        BY <1>1, <1>2, <2>1, CompareFacts DEF Compared
      <3>2. ~Before(d, s) /\ ~Before(s, d)
        BY <1>2, <1>5, <3>1, AllAlike DEF IInv
      <3> QED BY <3>1, <3>2
    <2>2. CASE ~(call.fn # "strcmp" /\ i >= count)
      <3>1. i \in 0 .. Compared - 1 /\ A \in Int /\ B \in Int /\ v = A - B
        BY <1>1, <1>2, <2>2, CompareFacts DEF Byte
      <3>2. Char(d, i) = A /\ Char(s, i) = B
        BY <1>2, <1>4 DEF A, B
      <3>3. \A j \in 0 .. Compared - 1 : Char(d, j) \in Int /\ Char(s, j) \in Int
        BY <1>2, CharIsByte DEF IInv
      <3>4. CASE A < B
        <4>1. Before(d, s) /\ ~Before(s, d)
          BY <1>5, <3>1, <3>2, <3>3, <3>4, FirstDifference
        <4> QED BY <3>1, <3>4, <4>1
      <3>5. CASE B < A
        <4>1. Before(s, d) /\ ~Before(d, s)
          BY <1>5, <3>1, <3>2, <3>3, <3>5, FirstDifference
        <4> QED BY <3>1, <3>5, <4>1
      <3>6. CASE A = B
        <4>1. call.fn # "memcmp" /\ mem[d + i] = 0 /\ mem[s + i] = 0
          BY <1>1, <1>2, <2>2, <3>6, CompareFacts DEF Alike, A, B
        <4>2. \A k \in 0 .. Compared - 1 : Char(d, k) = Char(s, k)
          <5> SUFFICES ASSUME NEW k \in 0 .. Compared - 1 PROVE Char(d, k) = Char(s, k)
            OBVIOUS
          <5>1. CASE k < i
            <6>1. k \in 0 .. i - 1
              BY <1>2, <5>1
            <6> QED BY <1>5, <6>1
          <5>2. CASE k = i
            BY <3>2, <3>6, <5>2
          <5>3. CASE i < k
            <6>1. i \in 0 .. k - 1
              BY <1>2, <5>3
            <6> QED BY <1>2, <4>1, <6>1 DEF Char
          <5> QED BY <1>2, <5>1, <5>2, <5>3
        <4>3. ~Before(d, s) /\ ~Before(s, d)
          BY <1>2, <4>2, AllAlike DEF IInv
        <4> QED BY <3>1, <3>6, <4>3
      <3> QED BY <3>1, <3>4, <3>5, <3>6
    <2> QED BY <2>1, <2>2
  <1>7. Promised'
    <2>1. Before(d, s)' = Before(d, s) /\ Before(s, d)' = Before(s, d)
      BY <1>1 DEF Before, Char, Compared
    <2> QED BY <1>1, <1>2, <1>6, <2>1 DEF Promised, MemoryAsPromised, AnswerAsPromised, Compares
  <1> QED BY <1>1, <1>2, <1>6, <1>7, ReturnKeeps DEF IInv

-----------------------------------------------------------------------------
(* strchr, strstr *)

LEMMA LookKeeps == ASSUME IInv, Look PROVE IInv'
  <1>1. /\ loop = "find" /\ A # 0 /\ A # call.c /\ i' = i + 1
        /\ UNCHANGED <<call, loop, to, from, count, ret, mem>>
    BY DEF Look, Turn
  <1>2. Looking /\ Looking' /\ to = call.d /\ i \in Nat
    BY <1>1, LookFacts DEF Looking
  <1>3. StringsTypeOK'
    BY <1>1 DEF IInv, StringsTypeOK
  <1>4. \A k \in 0 .. i - 1 : mem[to + k] # 0 /\ mem[to + k] # call.c
    BY <1>1, <1>2 DEF IInv, Progress, InLook, InFind
  <1>5. \A k \in 0 .. (i + 1) - 1 : k = i \/ k \in 0 .. i - 1
    BY <1>2
  <1>6. \A k \in 0 .. (i + 1) - 1 : mem[to + k] # 0 /\ mem[to + k] # call.c
    BY <1>1, <1>4, <1>5 DEF A
  <1>7. InLook'
    BY <1>1, <1>2, <1>6 DEF IInv, Progress, InLook
  <1>8. InFind'
    <2>1. call.fn = "strchr"
      BY <1>1 DEF IInv, Progress, InFind
    <2> QED BY <1>1, <1>2, <1>6, <2>1 DEF InFind
  <1>9. InCompare' /\ InSearch'
    BY <1>1 DEF InCompare, InSearch
  <1> QED BY <1>1, <1>2, <1>3, <1>7, <1>8, <1>9, StillLooking DEF IInv, Progress

LEMMA LookDoneKeeps == ASSUME IInv, LookDone PROVE IInv'
  <1> DEFINE v == IF A = call.c THEN to + i ELSE NULL
             d == call.d
  <1>1. /\ loop = "find" /\ (A = 0 \/ A = call.c) /\ Answer(v) /\ loop' = "returned" /\ ret' = v
        /\ call' = call /\ mem' = mem
    BY DEF LookDone, Answer
  <1>2. /\ mem = call.mem /\ mem' \in [Addr -> Byte] /\ to = d /\ d \in Int /\ i \in Nat
        /\ Proper(call)
    BY <1>1, LookFacts DEF Looking
  <1>3. /\ call.fn = "strchr"
        /\ \A k \in 0 .. i - 1 : call.mem[d + k] # 0 /\ call.mem[d + k] # call.c
    BY <1>1, <1>2 DEF IInv, Progress, InLook, InFind, Looking
  <1>4. PICK n \in Nat : n = Length(call.mem, d) /\ Ends(call.mem, d, n) /\ i <= n
    <2>1. Terminated(call.mem, d)
      BY <1>2, <1>3 DEF Proper
    <2> QED BY <1>2, <1>3, <2>1, LengthFacts, NotPastEnd
  <1>5. Hits = {p \in d .. d + n : call.mem[p] = call.c}
    BY <1>3, <1>4 DEF Hits, Places
  <1>6. \A p \in Hits : d + i <= p
    <2> SUFFICES ASSUME NEW p \in d .. d + n, call.mem[p] = call.c, p < d + i PROVE FALSE
      BY <1>2, <1>4, <1>5
    <2>1. p - d \in 0 .. i - 1 /\ d + (p - d) = p
      BY <1>2
    <2> QED BY <1>3, <2>1
  <1>7. CASE A = call.c
    <2>1. d + i \in Hits
      BY <1>2, <1>4, <1>5, <1>7 DEF A
    <2>2. Promised'
      <3>1. Hits' = Hits
        BY <1>1 DEF Hits, Places
      <3> QED BY <1>1, <1>2, <1>3, <1>6, <1>7, <2>1, <3>1
            DEF Promised, MemoryAsPromised, AnswerAsPromised, Compares
    <2> QED BY <1>1, <1>2, <1>7, <2>2, ReturnKeeps DEF IInv
  <1>8. CASE A # call.c
    <2>1. i = n
      <3>1. call.mem[d + i] = 0
        BY <1>1, <1>2, <1>8 DEF A
      <3>2. i < n => i \in 0 .. n - 1
        BY <1>2, <1>4
      <3> QED BY <1>2, <1>4, <3>1, <3>2 DEF Ends
    <2>2. Hits = {}
      <3> SUFFICES ASSUME NEW p \in Hits PROVE FALSE
        OBVIOUS
      <3>1. p \in d .. d + n /\ call.mem[p] = call.c
        BY <1>5
      <3>2. p = d + i
        BY <1>2, <1>4, <1>6, <2>1, <3>1
      <3> QED BY <1>2, <1>8, <3>1, <3>2 DEF A
    <2>3. v \in Int
      BY <1>8 DEF NULL
    <2>4. Promised'
      <3>1. Hits' = Hits
        BY <1>1 DEF Hits, Places
      <3> QED BY <1>1, <1>2, <1>3, <1>8, <2>2, <3>1
            DEF Promised, MemoryAsPromised, AnswerAsPromised, Compares
    <2> QED BY <1>1, <1>2, <2>3, <2>4, ReturnKeeps DEF IInv
  <1> QED BY <1>7, <1>8

\* Where the search stands: n and l are the lengths of haystack and needle.
LEMMA SearchFacts ==
  ASSUME IInv, loop = "search"
  PROVE  \E n, l \in Nat :
           /\ n = Length(call.mem, call.d) /\ Ends(call.mem, call.d, n)
           /\ l = Length(call.mem, call.s) /\ Ends(call.mem, call.s, l)
           /\ mem = call.mem /\ mem \in [Addr -> Byte] /\ from = call.s /\ call.fn = "strstr"
           /\ call.d \in Int /\ call.s \in Int /\ i \in Nat /\ i <= l
           /\ to \in call.d .. call.d + n
           /\ Hits = {p \in call.d .. call.d + n :
                        \A k \in 0 .. l - 1 : mem[p + k] = mem[from + k]}
           /\ \A p \in call.d .. call.d + n : p < to => p \notin Hits
           /\ \A k \in 0 .. i - 1 : mem[to + k] = mem[from + k] /\ mem[to + k] # 0
  <1>1. /\ mem = call.mem /\ mem \in [Addr -> Byte] /\ from = call.s /\ Proper(call)
        /\ call.d \in Int /\ call.s \in Int /\ i \in Nat
    BY LookFacts DEF Looking
  <1>2. /\ call.fn = "strstr" /\ to \in Places
        /\ \A p \in Places : p < to => p \notin Hits
        /\ \A k \in 0 .. i - 1 : mem[to + k] = mem[from + k] /\ mem[to + k] # 0
    BY DEF IInv, Progress, InSearch, InLook, Looking
  <1>3. Terminated(call.mem, call.d) /\ Terminated(call.mem, call.s)
    BY <1>1, <1>2 DEF Proper
  <1>4. i <= Length(call.mem, call.s)
    <2>1. \A k \in 0 .. i - 1 : call.mem[call.s + k] # 0
      BY <1>1, <1>2
    <2> QED BY <1>1, <1>3, <2>1, NotPastEnd
  <1>5. /\ Length(call.mem, call.d) \in Nat /\ Length(call.mem, call.s) \in Nat
        /\ Ends(call.mem, call.d, Length(call.mem, call.d))
        /\ Ends(call.mem, call.s, Length(call.mem, call.s))
    BY <1>3, LengthFacts
  <1> QED BY <1>1, <1>2, <1>4, <1>5 DEF Hits, Places

LEMMA MatchKeeps == ASSUME IInv, Match PROVE IInv'
  <1>1. /\ loop = "search" /\ A # 0 /\ A = B /\ i' = i + 1
        /\ UNCHANGED <<call, loop, to, from, count, ret, mem>>
    BY DEF Match, Turn
  <1>2. Looking /\ Looking' /\ i \in Nat
    BY <1>1, LookFacts DEF Looking
  <1>3. StringsTypeOK'
    BY <1>1 DEF IInv, StringsTypeOK
  <1>4. \A k \in 0 .. i - 1 : mem[to + k] # 0 /\ mem[to + k] = mem[from + k]
    BY <1>1, <1>2 DEF IInv, Progress, InLook, InSearch
  <1>5. \A k \in 0 .. (i + 1) - 1 : k = i \/ k \in 0 .. i - 1
    BY <1>2
  <1>6. \A k \in 0 .. (i + 1) - 1 : mem[to + k] # 0 /\ mem[to + k] = mem[from + k]
    BY <1>1, <1>4, <1>5 DEF A, B
  <1>7. InLook'
    BY <1>1, <1>2, <1>6 DEF IInv, Progress, InLook
  <1>8. InSearch'
    <2>1. Hits' = Hits /\ Places' = Places
      BY <1>1 DEF Hits, Places
    <2>2. call.fn = "strstr" /\ to \in Places /\ \A p \in Places : p < to => p \notin Hits
      BY <1>1 DEF IInv, Progress, InSearch
    <2> QED BY <1>1, <1>6, <2>1, <2>2 DEF InSearch
  <1>9. InCompare' /\ InFind'
    BY <1>1 DEF InCompare, InFind
  <1> QED BY <1>1, <1>2, <1>3, <1>7, <1>8, <1>9, StillLooking DEF IInv, Progress

LEMMA FoundKeeps == ASSUME IInv, Found PROVE IInv'
  <1>1. /\ loop = "search" /\ B = 0 /\ Answer(to) /\ loop' = "returned" /\ ret' = to
        /\ call' = call /\ mem' = mem
    BY DEF Found, Answer
  <1>2. PICK n, l \in Nat :
          /\ Ends(call.mem, call.s, l)
          /\ mem = call.mem /\ mem \in [Addr -> Byte] /\ from = call.s /\ call.fn = "strstr"
          /\ call.d \in Int /\ call.s \in Int /\ i \in Nat /\ i <= l
          /\ to \in call.d .. call.d + n
          /\ Hits = {p \in call.d .. call.d + n :
                       \A k \in 0 .. l - 1 : mem[p + k] = mem[from + k]}
          /\ \A p \in call.d .. call.d + n : p < to => p \notin Hits
          /\ \A k \in 0 .. i - 1 : mem[to + k] = mem[from + k] /\ mem[to + k] # 0
    BY <1>1, SearchFacts
  <1>3. i = l
    <2>1. i < l => i \in 0 .. l - 1
      BY <1>2
    <2> QED BY <1>1, <1>2, <2>1 DEF Ends, B
  <1>4. to \in Hits /\ \A p \in Hits : to <= p
    BY <1>2, <1>3
  <1>5. Hits' = Hits
    BY <1>1 DEF Hits, Places
  <1>6. Promised' /\ to \in Int
    BY <1>1, <1>2, <1>4, <1>5 DEF Promised, MemoryAsPromised, AnswerAsPromised, Compares
  <1> QED BY <1>1, <1>2, <1>6, ReturnKeeps DEF IInv

LEMMA MismatchKeeps == ASSUME IInv, Mismatch PROVE IInv'
  <1>1. /\ loop = "search" /\ B # 0 /\ A # B /\ ~(i = 0 /\ A = 0)
        /\ to' = to + 1 /\ i' = 0 /\ UNCHANGED <<call, loop, from, count, mem, ret>>
    BY DEF Mismatch
  <1>2. Looking /\ Looking' /\ to \in Int
    BY <1>1, LookFacts DEF Looking
  <1>3. PICK n, l \in Nat :
          /\ n = Length(call.mem, call.d) /\ Ends(call.mem, call.d, n)
          /\ Ends(call.mem, call.s, l)
          /\ mem = call.mem /\ from = call.s /\ call.fn = "strstr"
          /\ call.d \in Int /\ call.s \in Int /\ i \in Nat /\ i <= l
          /\ to \in call.d .. call.d + n
          /\ Hits = {p \in call.d .. call.d + n :
                       \A k \in 0 .. l - 1 : mem[p + k] = mem[from + k]}
          /\ \A p \in call.d .. call.d + n : p < to => p \notin Hits
          /\ \A k \in 0 .. i - 1 : mem[to + k] = mem[from + k] /\ mem[to + k] # 0
    BY <1>1, SearchFacts
  <1>4. i \in 0 .. l - 1
    <2>1. i # l
      BY <1>1, <1>3 DEF Ends, B
    <2> QED BY <1>3, <2>1
  <1>5. to \notin Hits
    BY <1>1, <1>3, <1>4 DEF A, B
  <1>6. mem[to] # 0
    <2>1. to + 0 = to
      BY <1>2
    <2>2. i # 0 => 0 \in 0 .. i - 1
      BY <1>3
    <2> QED BY <1>1, <1>3, <2>1, <2>2 DEF A
  <1>7. to + 1 \in call.d .. call.d + n
    <2>1. to # call.d + n
      BY <1>3, <1>6 DEF Ends
    <2> QED BY <1>3, <2>1
  <1>8. \A p \in call.d .. call.d + n : p < to + 1 => p \notin Hits
    <2>1. \A p \in call.d .. call.d + n : p < to + 1 => p < to \/ p = to
      BY <1>3
    <2> QED BY <1>3, <1>5, <2>1
  <1>9. StringsTypeOK'
    BY <1>1, <1>2 DEF IInv, StringsTypeOK
  <1>10. InLook'
    BY <1>1, <1>2 DEF IInv, Progress, InLook
  <1>11. InSearch'
    <2>1. Hits' = Hits /\ Places' = Places /\ Places = call.d .. call.d + n
      BY <1>1, <1>3 DEF Hits, Places
    <2> QED BY <1>1, <1>3, <1>7, <1>8, <2>1 DEF InSearch
  <1>12. InCompare' /\ InFind'
    BY <1>1 DEF InCompare, InFind
  <1> QED BY <1>1, <1>2, <1>9, <1>10, <1>11, <1>12, StillLooking DEF IInv, Progress

LEMMA NotFoundKeeps == ASSUME IInv, NotFound PROVE IInv'
  <1>1. /\ loop = "search" /\ B # 0 /\ i = 0 /\ A = 0 /\ Answer(NULL) /\ loop' = "returned"
        /\ ret' = NULL /\ call' = call /\ mem' = mem /\ NULL \in Int
    BY DEF NotFound, Answer, NULL
  <1>2. PICK n, l \in Nat :
          /\ Ends(call.mem, call.d, n) /\ Ends(call.mem, call.s, l)
          /\ mem = call.mem /\ mem \in [Addr -> Byte] /\ from = call.s /\ call.fn = "strstr"
          /\ call.d \in Int /\ call.s \in Int
          /\ to \in call.d .. call.d + n
          /\ Hits = {p \in call.d .. call.d + n :
                       \A k \in 0 .. l - 1 : mem[p + k] = mem[from + k]}
          /\ \A p \in call.d .. call.d + n : p < to => p \notin Hits
    BY <1>1, SearchFacts
  <1>3. mem[to] = 0 /\ mem[from] # 0 /\ to + 0 = to /\ from + 0 = from
    BY <1>1, <1>2 DEF A, B
  <1>4. to = call.d + n
    <2>1. to - call.d \in 0 .. n /\ call.d + (to - call.d) = to
      BY <1>2
    <2>2. to - call.d \notin 0 .. n - 1
      BY <1>2, <1>3, <2>1 DEF Ends
    <2> QED BY <1>2, <2>1, <2>2
  <1>5. to \notin Hits
    <2>1. 0 \in 0 .. l - 1
      <3>1. l # 0
        BY <1>2, <1>3 DEF Ends
      <3> QED BY <1>2, <3>1
    <2> QED BY <1>2, <1>3, <2>1
  <1>6. Hits = {}
    <2>1. \A p \in call.d .. call.d + n : p < to \/ p = to
      BY <1>2, <1>4
    <2> QED BY <1>2, <1>5, <2>1
  <1>7. Hits' = Hits
    BY <1>1 DEF Hits, Places
  <1>8. Promised'
    BY <1>1, <1>2, <1>6, <1>7 DEF Promised, MemoryAsPromised, AnswerAsPromised, Compares
  <1> QED BY <1>1, <1>2, <1>8, ReturnKeeps DEF IInv

-----------------------------------------------------------------------------
\* Nothing changes when nothing happens.
LEMMA StringsStutter == ASSUME IInv, UNCHANGED stringsVars PROVE IInv'
  <1>1. UNCHANGED <<call, loop, to, from, count, i, mem, ret>>
    BY DEF stringsVars
  <1>2. Hits' = Hits /\ Places' = Places
    BY <1>1 DEF Hits, Places
  <1>3. StringsTypeOK'
    BY <1>1 DEF IInv, StringsTypeOK
  <1>4. Progress'
    BY <1>1, <1>2 DEF IInv, Progress, InFill, InUp, InDown, InStill, InCopy, InLook, Looking,
                      InCompare, InFind, InSearch
  <1>5. Promised'
    <2>1. MemoryAsPromised'
      BY <1>1 DEF IInv, Promised, MemoryAsPromised
    <2>2. /\ Before(call.d, call.s)' <=> Before(call.d, call.s)
          /\ Before(call.s, call.d)' <=> Before(call.s, call.d)
      BY <1>1 DEF Before, Char, Compared
    <2>3. AnswerAsPromised
      BY DEF IInv, Promised
    <2>4. AnswerAsPromised'
      BY <1>1, <1>2, <2>2, <2>3 DEF AnswerAsPromised
    <2> QED BY <2>1, <2>4 DEF Promised
  <1> QED BY <1>3, <1>4, <1>5 DEF IInv

LEMMA StringsInvariance == StringsSpec => []IInv
  <1>1. IInv /\ [StringsNext]_stringsVars => IInv'
    <2> SUFFICES ASSUME IInv, [StringsNext]_stringsVars PROVE IInv'
      OBVIOUS
    <2>1. CASE Fill \/ CopyUp \/ CopyDown \/ BytesDone
      BY <2>1, FillKeeps, CopyUpKeeps, CopyDownKeeps, BytesDoneKeeps
    <2>2. CASE CompareOn \/ CompareDone
      BY <2>2, CompareOnKeeps, CompareDoneKeeps
    <2>3. CASE Measure \/ LengthKnown \/ NoRoom \/ Duplicate \/ EndFound
      BY <2>3, MeasureKeeps, LengthKnownKeeps, NoRoomKeeps, DuplicateKeeps, EndFoundKeeps
    <2>4. CASE CopyChar \/ CopyTerminator
      BY <2>4, CopyCharKeeps, CopyTerminatorKeeps
    <2>5. CASE Look \/ LookDone
      BY <2>5, LookKeeps, LookDoneKeeps
    <2>6. CASE Match \/ Found \/ Mismatch \/ NotFound
      BY <2>6, MatchKeeps, FoundKeeps, MismatchKeeps, NotFoundKeeps
    <2>7. CASE UNCHANGED stringsVars
      BY <2>7, StringsStutter
    <2> QED BY <2>1, <2>2, <2>3, <2>4, <2>5, <2>6, <2>7 DEF StringsNext
  <1> QED BY <1>1, StringsInitHolds, PTL DEF StringsSpec

\* A call keeps to its loops and to memory, whatever memory it is made in.
THEOREM StringsTypeCorrect == StringsSpec => []StringsTypeOK
  <1>1. IInv => StringsTypeOK
    BY DEF IInv
  <1> QED BY <1>1, StringsInvariance, PTL

\* Copies are as if made at once, overlap or not, and nothing else is written.
THEOREM MemorySafe == StringsSpec => []MemoryAsPromised
  <1>1. IInv => MemoryAsPromised
    BY DEF IInv, Promised
  <1> QED BY <1>1, StringsInvariance, PTL

\* Comparisons, lengths and searches give the right answer for all strings.
THEOREM AnswersRight == StringsSpec => []AnswerAsPromised
  <1>1. IInv => AnswerAsPromised
    BY DEF IInv, Promised
  <1> QED BY <1>1, StringsInvariance, PTL

-----------------------------------------------------------------------------
(* Every call comes nearer to its end with every step *)

Less == OpToRel(<, Nat)
RankOrder == LexPairOrdering(Less, LexPairOrdering(Less, Less, Nat, Nat), Nat, Nat \X Nat)

\* What is still to do: loops, places where the needle may stand, turns of this loop.
LoopsLeft ==
  IF loop = "returned" THEN 0 ELSE IF loop \in {"length", "end"} THEN 2 ELSE 1
PlacesLeft ==
  IF loop = "search" THEN call.d + Length(call.mem, call.d) - to ELSE 0
Turns ==
  CASE loop \in {"fill", "up", "down"} -> count
    [] loop = "compare" -> Compared
    [] loop \in {"length", "end", "find"} -> Length(call.mem, call.d)
    [] loop \in {"copy", "search"} -> Length(call.mem, call.s)
    [] OTHER -> i
TurnsLeft == Turns - i

Rank == <<LoopsLeft, <<PlacesLeft, TurnsLeft>>>>
RankTyped == LoopsLeft \in Nat /\ PlacesLeft \in Nat /\ TurnsLeft \in Nat
RankLowered == <<Rank', Rank>> \in RankOrder

\* The turns a loop may take are known before it starts.
LEMMA TurnsOf ==
  /\ loop \in {"fill", "up", "down"} => Turns = count
  /\ loop = "compare" => Turns = Compared
  /\ loop \in {"length", "end", "find"} => Turns = Length(call.mem, call.d)
  /\ loop \in {"copy", "search"} => Turns = Length(call.mem, call.s)
  /\ loop \in {"still", "returned"} => Turns = i
  BY Zenon DEF Turns

\* A loop that looks for the end of a string has not passed it.
LEMMA EndAhead ==
  ASSUME IInv, loop \in {"length", "end", "find"}
  PROVE  Length(call.mem, call.d) \in Nat /\ i <= Length(call.mem, call.d)
  <1>1. /\ mem = call.mem /\ to = call.d /\ i \in Nat /\ call.d \in Int /\ Proper(call)
        /\ \A k \in 0 .. i - 1 : mem[to + k] # 0
    BY LookFacts DEF Looking, IInv, Progress, InLook
  <1>2. call.fn \in {"strlen", "strdup", "strcat", "strchr"}
    BY DEF IInv, Progress, InLook, InFind, Looking
  <1>3. Terminated(call.mem, call.d)
    BY <1>1, <1>2 DEF Proper
  <1> QED BY <1>1, <1>3, NotPastEnd, LengthFacts

\* A comparison has not passed the last character it may have to compare.
LEMMA ComparedAhead ==
  ASSUME IInv, loop = "compare"
  PROVE  Compared \in Nat /\ i <= Compared
  <1>1. /\ mem = call.mem /\ i \in Nat /\ call.n \in Nat /\ call.d \in Int
        /\ call.fn # "strcmp" => i <= call.n
        /\ call.fn # "memcmp" => \A k \in 0 .. i - 1 : mem[call.d + k] # 0
    BY CompareFacts
  <1>2. CASE call.fn = "strcmp"
    <2>1. Terminated(call.mem, call.d)
      BY <1>2, LookFacts DEF Looking, Proper
    <2>2. Length(call.mem, call.d) \in Nat /\ i <= Length(call.mem, call.d)
      BY <1>1, <1>2, <2>1, NotPastEnd, LengthFacts
    <2> QED BY <1>1, <1>2, <2>2 DEF Compared
  <1>3. CASE call.fn # "strcmp"
    BY <1>1, <1>3 DEF Compared
  <1> QED BY <1>2, <1>3

LEMMA RankType == IInv => RankTyped
  <1> SUFFICES ASSUME IInv PROVE RankTyped
    OBVIOUS
  <1>1. i \in Nat /\ count \in Nat /\ to \in Int /\ loop \in Loops
    BY DEF IInv, StringsTypeOK
  <1>2. loop \in {"fill", "up", "down"} => i <= count
    BY DEF IInv, Progress, InFill, InUp, InDown
  <1>3. loop \in {"copy", "search"} =>
          Length(call.mem, call.s) \in Nat /\ i <= Length(call.mem, call.s)
    BY CopyFacts, SearchFacts
  <1>4. TurnsLeft \in Nat
    BY <1>1, <1>2, <1>3, TurnsOf, EndAhead, ComparedAhead DEF TurnsLeft, Loops
  <1>5. PlacesLeft \in Nat
    <2>1. CASE loop = "search"
      <3>1. PICK n \in Nat : n = Length(call.mem, call.d) /\ to \in call.d .. call.d + n
                             /\ call.d \in Int
        BY <2>1, SearchFacts
      <3> QED BY <2>1, <3>1 DEF PlacesLeft
    <2> QED BY <2>1 DEF PlacesLeft
  <1> QED BY <1>4, <1>5 DEF LoopsLeft, RankTyped

\* Each step leaves fewer loops, or as many and fewer places, or those and fewer turns.
LEMMA StepLeavesLess ==
  ASSUME IInv, RankTyped', StringsNext
  PROVE  \/ LoopsLeft' < LoopsLeft
         \/ /\ LoopsLeft' = LoopsLeft
            /\ PlacesLeft' < PlacesLeft
         \/ /\ LoopsLeft' = LoopsLeft
            /\ PlacesLeft' = PlacesLeft
            /\ TurnsLeft' < TurnsLeft
  <1>0. RankTyped /\ i \in Nat /\ to \in Int /\ loop \in Loops
    BY RankType DEF IInv, StringsTypeOK
  <1>1. CASE Fill \/ CopyUp \/ CopyDown \/ CompareOn \/ Measure \/ CopyChar \/ Look \/ Match
    <2>1. i' = i + 1 /\ UNCHANGED <<call, loop, to, count>> /\ loop \notin {"still", "returned"}
      BY <1>1 DEF Fill, CopyUp, CopyDown, CompareOn, Measure, CopyChar, Look, Match, Turn
    <2>2. Turns' = Turns
      <3>1. Compared' = Compared
        BY <2>1 DEF Compared
      <3> QED BY <1>0, <2>1, <3>1, TurnsOf DEF Turns, Loops
    <2>3. Turns \in Int
      BY <1>0, <2>1, RankType, TurnsOf, EndAhead, ComparedAhead, CopyFacts, SearchFacts
         DEF Loops, IInv, StringsTypeOK
    <2>4. LoopsLeft' = LoopsLeft /\ PlacesLeft' = PlacesLeft
      BY <2>1 DEF LoopsLeft, PlacesLeft
    <2> QED BY <1>0, <2>1, <2>2, <2>3, <2>4 DEF TurnsLeft
  <1>2. CASE Mismatch
    <2>1. loop = "search" /\ to' = to + 1 /\ UNCHANGED <<call, loop>>
      BY <1>2 DEF Mismatch
    <2>2. Length(call.mem, call.d) \in Nat /\ call.d \in Int
      BY <2>1, SearchFacts
    <2> QED BY <1>0, <2>1, <2>2 DEF LoopsLeft, PlacesLeft
  <1>3. CASE Duplicate \/ EndFound
    BY <1>3 DEF Duplicate, EndFound, LoopsLeft
  <1>4. CASE BytesDone \/ CompareDone \/ LengthKnown \/ NoRoom \/ CopyTerminator
             \/ LookDone \/ Found \/ NotFound
    <2>1. loop # "returned" /\ loop' = "returned"
      BY <1>4 DEF BytesDone, CompareDone, LengthKnown, NoRoom, CopyTerminator, LookDone,
         Found, NotFound, Answer
    <2> QED BY <2>1 DEF LoopsLeft
  <1> QED BY <1>1, <1>2, <1>3, <1>4 DEF StringsNext

\* Every proper call ends, whatever memory it is made in: each step lowers a rank that
\* cannot be lowered for ever, a strcmp of strings that differ nowhere and a strstr that
\* backs up after every mismatch included.
THEOREM EveryCallEnds ==
  /\ IsWellFoundedOn(RankOrder, Nat \X (Nat \X Nat))
  /\ StringsSpec => [][RankLowered]_stringsVars
  <1>1. IsWellFoundedOn(RankOrder, Nat \X (Nat \X Nat))
    BY NatLessThanWellFounded, WFLexPairOrdering DEF Less, RankOrder
  <1>2. ASSUME IInv, RankTyped, RankTyped', [StringsNext]_stringsVars
        PROVE  [RankLowered]_stringsVars
    <2> SUFFICES ASSUME StringsNext PROVE RankLowered
      BY <1>2
    <2> DEFINE p == LoopsLeft  q == PlacesLeft  n == TurnsLeft
    <2>1. p' < p \/ (p' = p /\ q' < q) \/ (p' = p /\ q' = q /\ n' < n)
      BY <1>2, StepLeavesLess
    <2> QED BY <1>2, <2>1
            DEF Rank, RankTyped, RankLowered, RankOrder, Less, LexPairOrdering, OpToRel
  <1> QED BY <1>1, <1>2, RankType, StringsInvariance, PTL DEF StringsSpec

-----------------------------------------------------------------------------
(* Raw pointers *)

GivenType ==
  /\ brk \in Heap
  /\ DOMAIN given \subseteq Heap
  /\ given \in [DOMAIN given -> [block : Heap, size : Nat]]

StoredType ==
  /\ stored \in [DOMAIN stored -> Contents]
  /\ DOMAIN stored \subseteq (Raw \union DOMAIN given) \X Nat

\* Structures and blocks lie in the part of the heap that was handed out.
Inside ==
  \A v \in DOMAIN given :
    /\ v + Tracking <= brk
    /\ given[v].block + given[v].size <= brk

\* No block holds a word of a structure, or of another block.
Apart ==
  \A v, w \in DOMAIN given :
    /\ given[w].block + given[w].size <= v \/ v + Tracking <= given[w].block
    /\ v # w => \/ given[v].block + given[v].size <= given[w].block
                \/ given[w].block + given[w].size <= given[v].block

\* Every structure points to its block.
Tracked == \A v \in DOMAIN given : memory[v] = given[v].block

\* What was written is where it was named, and was named properly.
Kept ==
  \A a \in DOMAIN stored :
    /\ Allowed(a[1], a[2])
    /\ memory[Named(a[1], a[2])] = stored[a]

PInv ==
  /\ memory \in [Address -> Nat]
  /\ raw_pointers \in [0 .. Slots - 1 -> Nat] /\ next_ptr \in 0 .. Slots - 1
  /\ GivenType /\ StoredType /\ Inside /\ Apart /\ Tracked /\ Kept

LEMMA BlockRoom ==
  ASSUME NEW n \in Nat
  PROVE  Block(n) \in Nat /\ n + 1 <= Block(n) /\ Block(Tracking) = 5
BY DEF Block, Tracking

LEMMA HeapFacts ==
  /\ Top \in Nat /\ HeapStart \in Nat /\ HeapStart > 0 /\ HeapMax \in Nat /\ HeapMax <= Top
  /\ \A a \in Heap : a \in Nat /\ a \in Address /\ HeapStart <= a /\ a < HeapMax /\ InHeap(a)
  /\ \A a \in Raw : a \in Nat /\ a \in Address /\ a \notin Heap /\ ~InHeap(a)
BY PointersAssumption DEF Heap, Address, InHeap

\* What a proper access reaches: a word of memory, outside the heap or in a block.
LEMMA Reached ==
  ASSUME PInv, NEW v \in Raw \union DOMAIN given, NEW off \in Nat, Allowed(v, off)
  PROVE  /\ Target(v) + off = Named(v, off)
         /\ Named(v, off) \in Address
         /\ v \in DOMAIN given => /\ Named(v, off) = given[v].block + off
                                  /\ given[v].block \in Heap /\ given[v].size \in Nat
                                  /\ off < given[v].size
                                  /\ Named(v, off) \in Heap
         /\ v \notin DOMAIN given => v \in Raw /\ off = 0 /\ Named(v, off) = v
<1>1. CASE v \in DOMAIN given
  <2>1. v \in Heap /\ v \notin Raw
    BY <1>1, HeapFacts DEF PInv, GivenType
  <2>2. off < given[v].size
    BY <2>1 DEF Allowed
  <2>3. given[v].block \in Heap /\ given[v].size \in Nat
    BY <1>1 DEF PInv, GivenType
  <2>4. Target(v) = given[v].block
    BY <1>1, <2>1, HeapFacts DEF PInv, Tracked, Target
  <2>5. given[v].block + given[v].size <= brk /\ brk \in Heap
    BY <1>1 DEF PInv, Inside, GivenType
  <2>6. given[v].block + off \in Heap
    BY <2>2, <2>3, <2>5, PointersAssumption DEF Heap
  <2> QED
    BY <1>1, <2>2, <2>3, <2>4, <2>6, HeapFacts DEF Named
<1>2. CASE v \notin DOMAIN given
  <2>1. v \in Raw /\ off = 0
    BY <1>2 DEF Allowed
  <2> QED
    BY <1>2, <2>1, HeapFacts DEF Named, Target
<1> QED
  BY <1>1, <1>2

\* Two proper accesses that are named differently reach different words.
LEMMA NamedApart ==
  ASSUME PInv,
         NEW v \in Raw \union DOMAIN given, NEW off \in Nat, Allowed(v, off),
         NEW w \in Raw \union DOMAIN given, NEW gap \in Nat, Allowed(w, gap),
         Named(v, off) = Named(w, gap)
  PROVE  v = w /\ off = gap
<1>1. CASE v \in DOMAIN given /\ w \in DOMAIN given
  <2>1. /\ given[v].block + off = given[w].block + gap
        /\ given[v].block \in Nat /\ given[w].block \in Nat
        /\ given[v].size \in Nat /\ given[w].size \in Nat
        /\ off < given[v].size /\ gap < given[w].size
    BY <1>1, Reached, HeapFacts
  <2>2. v # w => \/ given[v].block + given[v].size <= given[w].block
                 \/ given[w].block + given[w].size <= given[v].block
    BY <1>1 DEF PInv, Apart
  <2> QED
    BY <2>1, <2>2
<1>2. CASE v \in DOMAIN given /\ w \notin DOMAIN given
  BY <1>2, Reached, HeapFacts
<1>3. CASE v \notin DOMAIN given /\ w \in DOMAIN given
  BY <1>3, Reached, HeapFacts
<1>4. CASE v \notin DOMAIN given /\ w \notin DOMAIN given
  BY <1>4, Reached
<1> QED
  BY <1>1, <1>2, <1>3, <1>4

\* No proper access reaches a structure.
LEMMA StructuresSpared ==
  ASSUME PInv, NEW v \in Raw \union DOMAIN given, NEW off \in Nat, Allowed(v, off),
         NEW w \in DOMAIN given
  PROVE  Named(v, off) # w
<1>1. w \in Heap /\ w \in Nat
  BY HeapFacts DEF PInv, GivenType
<1>2. CASE v \in DOMAIN given
  <2>1. given[v].block + given[v].size <= w \/ w + Tracking <= given[v].block
    BY <1>2 DEF PInv, Apart
  <2>2. given[v].block \in Nat /\ given[v].size \in Nat /\ off < given[v].size
        /\ Named(v, off) = given[v].block + off
    BY <1>2, Reached, HeapFacts
  <2> QED
    BY <1>1, <2>1, <2>2 DEF Tracking
<1>3. CASE v \notin DOMAIN given
  BY <1>1, <1>3, Reached, HeapFacts
<1> QED
  BY <1>2, <1>3

LEMMA PoolStep ==
  ASSUME PInv, NEW v \in Raw \union DOMAIN given, UsePointer(v)
  PROVE  raw_pointers' \in [0 .. Slots - 1 -> Nat] /\ next_ptr' \in 0 .. Slots - 1
<1>1. v \in Nat
  BY HeapFacts DEF PInv, GivenType
<1>2. (next_ptr + 1) % Slots \in 0 .. Slots - 1
  BY PointersAssumption DEF PInv
<1> QED
  BY <1>1, <1>2 DEF UsePointer, PInv

LEMMA InitPInv == PointersInit => PInv
BY PointersAssumption
DEF PointersInit, PInv, GivenType, StoredType, Inside, Apart, Tracked, Kept, Heap, Address

LEMMA ReadStep ==
  ASSUME PInv, NEW v \in Raw \union DOMAIN given, NEW off, MemRead(v, off)
  PROVE  PInv'
<1>1. UNCHANGED <<memory, brk, given, stored>>
  BY DEF MemRead
<1>2. raw_pointers' \in [0 .. Slots - 1 -> Nat] /\ next_ptr' \in 0 .. Slots - 1
  BY PoolStep DEF MemRead
<1> QED
  BY <1>1, <1>2
  DEF PInv, GivenType, StoredType, Inside, Apart, Tracked, Kept, Allowed, Named

LEMMA WriteStep ==
  ASSUME PInv, NEW v \in Raw \union DOMAIN given, NEW off \in Nat,
         NEW x \in Contents, MemWrite(v, off, x)
  PROVE  PInv'
<1> DEFINE at == Named(v, off)
<1>1. Allowed(v, off) /\ UNCHANGED <<brk, given>>
  BY DEF MemWrite
<1>2. at \in Address /\ Target(v) + off = at
  BY <1>1, Reached
<1>3. memory' = [memory EXCEPT ![at] = x]
  BY <1>2 DEF MemWrite
<1>4. DOMAIN stored' = DOMAIN stored \union {<<v, off>>}
      /\ \A a \in DOMAIN stored' : stored'[a] = IF a = <<v, off>> THEN x ELSE stored[a]
  BY DEF MemWrite
<1>5. x \in Nat
  BY PointersAssumption
<1>6. memory' \in [Address -> Nat]
  BY <1>2, <1>3, <1>5 DEF PInv
<1>7. GivenType' /\ Inside' /\ Apart'
  BY <1>1 DEF PInv, GivenType, Inside, Apart
<1>8. StoredType'
  <2>1. DOMAIN stored' \subseteq (Raw \union DOMAIN given') \X Nat
    BY <1>1, <1>4 DEF PInv, StoredType
  <2>2. \A a \in DOMAIN stored' : stored'[a] \in Contents
    BY <1>4 DEF PInv, StoredType
  <2>3. stored' = [a \in DOMAIN stored' |-> stored'[a]]
    BY DEF MemWrite
  <2> QED
    BY <2>1, <2>2, <2>3 DEF StoredType
<1>9. Tracked'
  <2> SUFFICES ASSUME NEW w \in DOMAIN given PROVE memory'[w] = given[w].block
    BY <1>1 DEF Tracked
  <2>1. at # w
    BY <1>1, StructuresSpared
  <2>2. memory[w] = given[w].block /\ w \in Address
    BY HeapFacts DEF PInv, Tracked, GivenType
  <2> QED
    BY <1>3, <2>1, <2>2 DEF PInv
<1>10. Kept'
  <2> SUFFICES ASSUME NEW a \in DOMAIN stored'
               PROVE  Allowed(a[1], a[2]) /\ memory'[Named(a[1], a[2])] = stored'[a]
    BY <1>1 DEF Kept, Allowed, Named
  <2>1. CASE a = <<v, off>>
    BY <1>1, <1>2, <1>3, <1>4, <2>1 DEF PInv
  <2>2. CASE a # <<v, off>>
    <3>1. a \in DOMAIN stored
      BY <1>4, <2>2
    <3>2. a[1] \in Raw \union DOMAIN given /\ a[2] \in Nat /\ a = <<a[1], a[2]>>
      BY <3>1 DEF PInv, StoredType
    <3>3. Allowed(a[1], a[2]) /\ memory[Named(a[1], a[2])] = stored[a]
      BY <3>1 DEF PInv, Kept
    <3>4. Named(a[1], a[2]) # at
      BY <1>1, <2>2, <3>2, <3>3, NamedApart
    <3>5. Named(a[1], a[2]) \in Address
      BY <3>2, <3>3, Reached
    <3> QED
      BY <1>3, <1>4, <2>2, <3>1, <3>3, <3>4, <3>5 DEF PInv
  <2> QED
    BY <2>1, <2>2
<1>11. raw_pointers' \in [0 .. Slots - 1 -> Nat] /\ next_ptr' \in 0 .. Slots - 1
  BY PoolStep DEF MemWrite
<1> QED
  BY <1>6, <1>7, <1>8, <1>9, <1>10, <1>11 DEF PInv

\* A new structure and a new block lie above everything that was handed out.
LEMMA AllocStep ==
  ASSUME PInv, NEW n \in AllocSizes, MemAlloc(n)
  PROVE  PInv'
<1>1. n \in Nat /\ n > 0
  BY PointersAssumption
<1>2. PICK struct \in Heap, block \in Heap :
        /\ Made(struct, block, n)
        /\ memory' = Written(struct, block, n)
        /\ given' = [v \in DOMAIN given \union {struct} |->
                       IF v = struct THEN [block |-> block, size |-> n] ELSE given[v]]
        /\ UNCHANGED <<raw_pointers, next_ptr, stored>>
  BY DEF MemAlloc
<1>3. /\ brk < struct /\ brk < block /\ brk' \in Heap /\ brk < brk'
      /\ struct + Tracking <= brk' /\ block + n <= brk'
      /\ block + n <= struct \/ struct + Tracking <= block
      /\ struct - 1 \in Nat /\ block - 1 \in Nat
  <2> DEFINE b == Block(n)
             t == Block(Tracking)
  <2>1. b \in Nat /\ n + 1 <= b /\ t = 5
    BY <1>1, BlockRoom
  <2>2. brk \in Nat /\ HeapStart <= brk /\ HeapStart > 0 /\ HeapStart \in Nat
        /\ HeapMax \in Nat
    BY HeapFacts DEF PInv, GivenType
  <2>3. /\ brk + t + b < HeapMax /\ brk' = brk + t + b
        /\ \/ struct = brk + 1 /\ block = brk + t + 1
           \/ block = brk + 1 /\ struct = brk + b + 1
    BY <1>2 DEF Made
  <2> HIDE DEF b, t
  <2>4. brk < struct /\ brk < block /\ brk < brk' /\ brk' \in Nat
        /\ struct - 1 \in Nat /\ block - 1 \in Nat
    BY <2>1, <2>2, <2>3
  <2>5. struct + 3 <= brk' /\ block + n <= brk'
        /\ (block + n <= struct \/ struct + 3 <= block)
    BY <1>1, <2>1, <2>2, <2>3
  <2>6. brk' \in Heap
    BY <2>2, <2>3, <2>4 DEF Heap
  <2> QED
    BY <2>4, <2>5, <2>6 DEF Tracking
<1>4. /\ brk \in Nat /\ struct \in Nat /\ block \in Nat /\ struct \in Address
      /\ \A v \in DOMAIN given : v \in Nat /\ v \in Heap
      /\ \A v \in DOMAIN given : given[v].block \in Heap /\ given[v].size \in Nat
      /\ \A v \in DOMAIN given : given[v].block \in Nat
  BY <1>2, HeapFacts DEF PInv, GivenType
<1>5. \A v \in DOMAIN given : v + Tracking <= brk /\ given[v].block + given[v].size <= brk
  BY DEF PInv, Inside
<1>6. struct \notin DOMAIN given
  BY <1>3, <1>4, <1>5 DEF Tracking
<1>7. DOMAIN given' = DOMAIN given \union {struct}
      /\ given'[struct] = [block |-> block, size |-> n]
      /\ \A v \in DOMAIN given : given'[v] = given[v]
  BY <1>2, <1>6
<1>8. GivenType'
  <2>1. \A v \in DOMAIN given' : given'[v] \in [block : Heap, size : Nat]
    BY <1>1, <1>2, <1>7 DEF PInv, GivenType
  <2>2. given' = [v \in DOMAIN given' |-> given'[v]]
    BY <1>2
  <2>3. DOMAIN given' \subseteq Heap
    BY <1>2, <1>7 DEF PInv, GivenType
  <2> QED
    BY <1>3, <2>1, <2>2, <2>3 DEF GivenType
<1>9. StoredType'
  BY <1>2, <1>7 DEF PInv, StoredType
<1>10. Inside'
  <2> SUFFICES ASSUME NEW v \in DOMAIN given'
               PROVE  v + Tracking <= brk' /\ given'[v].block + given'[v].size <= brk'
    BY DEF Inside
  <2>1. CASE v = struct
    BY <1>3, <1>7, <2>1
  <2>2. CASE v # struct
    <3>1. v \in DOMAIN given /\ given'[v] = given[v]
      BY <1>7, <2>2
    <3>2. brk' \in Nat
      BY <1>3, HeapFacts
    <3> QED
      BY <1>3, <1>4, <1>5, <3>1, <3>2 DEF Tracking
  <2> QED
    BY <2>1, <2>2
<1>11. Apart'
  <2> SUFFICES ASSUME NEW v \in DOMAIN given', NEW w \in DOMAIN given'
      PROVE
        /\ given'[w].block + given'[w].size <= v \/ v + Tracking <= given'[w].block
        /\ v # w => \/ given'[v].block + given'[v].size <= given'[w].block
                    \/ given'[w].block + given'[w].size <= given'[v].block
    BY DEF Apart
  <2>1. CASE v \in DOMAIN given /\ w \in DOMAIN given
    BY <1>7, <2>1 DEF PInv, Apart
  <2>2. CASE v = struct /\ w \in DOMAIN given
    <3>1. given'[w] = given[w] /\ given'[v].block = block /\ given'[v].size = n
      BY <1>7, <2>2
    <3> QED
      BY <1>3, <1>4, <1>5, <2>2, <3>1
  <2>3. CASE v \in DOMAIN given /\ w = struct
    <3>1. given'[v] = given[v] /\ given'[w].block = block /\ given'[w].size = n
      BY <1>7, <2>3
    <3> QED
      BY <1>1, <1>3, <1>4, <1>5, <2>3, <3>1 DEF Tracking
  <2>4. CASE v = struct /\ w = struct
    BY <1>3, <1>7, <2>4
  <2> QED
    BY <1>7, <2>1, <2>2, <2>3, <2>4
<1>12. /\ memory' \in [Address -> Nat]
       /\ memory'[struct] = block
       /\ \A a \in Address : a < brk \/ a \notin Heap => memory'[a] = memory[a]
  <2>1. \A a : memory'[a] = Written(struct, block, n)[a]
    BY <1>2
  <2>2. Block(n) - 1 \in Nat /\ Block(Tracking) - 1 \in Nat
    BY <1>1, BlockRoom
  <2>3. Written(struct, block, n) \in [Address -> Nat]
    BY <1>1, <1>4, <2>2 DEF Written, PInv
  <2>4. brk < HeapMax /\ brk' < HeapMax /\ HeapStart <= brk
        /\ brk' \in Nat /\ struct + 2 < brk' /\ block < brk'
        /\ brk <= struct - 1 /\ brk <= block - 1
    <3>1. brk \in Heap /\ brk' \in Heap
      BY <1>3 DEF PInv, GivenType
    <3>2. /\ brk < HeapMax /\ brk' < HeapMax /\ HeapStart <= brk
          /\ brk \in Nat /\ brk' \in Nat
      BY <3>1, HeapFacts
    <3> QED
      BY <1>1, <1>3, <1>4, <3>2 DEF Tracking
  <2>5. \A a \in Address : a < brk \/ a \notin Heap =>
          a \notin {struct - 1, block - 1, struct, struct + 1, struct + 2}
    BY <1>3, <1>4, <2>4, HeapFacts DEF Heap, Address
  <2>6. \A a \in Address : a < brk \/ a \notin Heap =>
          Written(struct, block, n)[a] = memory[a]
    BY <2>5 DEF Written, PInv
  <2>7. Written(struct, block, n)[struct] = block
    BY <1>4 DEF Written, PInv
  <2> QED
    BY <1>2, <2>3, <2>6, <2>7
<1>13. Tracked'
  <2> SUFFICES ASSUME NEW v \in DOMAIN given' PROVE memory'[v] = given'[v].block
    BY DEF Tracked
  <2>1. CASE v = struct
    BY <1>7, <1>12, <2>1
  <2>2. CASE v \in DOMAIN given
    <3>1. v < brk /\ v \in Address
      BY <1>4, <1>5, <2>2, HeapFacts DEF Tracking
    <3> QED
      BY <1>7, <1>12, <2>2, <3>1 DEF PInv, Tracked
  <2> QED
    BY <1>7, <2>1, <2>2
<1>14. Kept'
  <2> SUFFICES ASSUME NEW a \in DOMAIN stored
               PROVE  Allowed(a[1], a[2])' /\ memory'[Named(a[1], a[2])'] = stored[a]
    BY <1>2 DEF Kept
  <2>1. a[1] \in Raw \union DOMAIN given /\ a[2] \in Nat
    BY DEF PInv, StoredType
  <2>2. Allowed(a[1], a[2]) /\ memory[Named(a[1], a[2])] = stored[a]
    BY DEF PInv, Kept
  <2>3. Allowed(a[1], a[2])' /\ Named(a[1], a[2])' = Named(a[1], a[2])
    <3>1. CASE a[1] \in DOMAIN given
      BY <1>7, <2>2, <3>1 DEF Allowed, Named
    <3>2. CASE a[1] \notin DOMAIN given
      <4>1. a[1] \in Raw /\ a[1] # struct
        BY <1>2, <2>1, <3>2, HeapFacts
      <4> QED
        BY <1>7, <2>2, <3>2, <4>1 DEF Allowed, Named
    <3> QED
      BY <3>1, <3>2
  <2>4. Named(a[1], a[2]) \in Address
        /\ (Named(a[1], a[2]) < brk \/ Named(a[1], a[2]) \notin Heap)
    <3>1. CASE a[1] \in DOMAIN given
      <4>1. Named(a[1], a[2]) = given[a[1]].block + a[2] /\ a[2] < given[a[1]].size
            /\ Named(a[1], a[2]) \in Address
        BY <2>1, <2>2, <3>1, Reached
      <4> QED
        BY <1>4, <1>5, <2>1, <3>1, <4>1
    <3>2. CASE a[1] \notin DOMAIN given
      BY <2>1, <2>2, <3>2, Reached, HeapFacts
    <3> QED
      BY <3>1, <3>2
  <2> QED
    BY <1>12, <2>2, <2>3, <2>4
<1> QED
  BY <1>2, <1>8, <1>9, <1>10, <1>11, <1>12, <1>13, <1>14 DEF PInv

LEMMA OffsetsNat == Offsets \subseteq Nat
<1>1. \A n \in AllocSizes : 0 .. n - 1 \subseteq Nat
  BY PointersAssumption
<1> QED
  BY <1>1 DEF Offsets

LEMMA NextPInv == PInv /\ [PointersNext]_pointersVars => PInv'
<1> SUFFICES ASSUME PInv, [PointersNext]_pointersVars PROVE PInv'
  OBVIOUS
<1>1. CASE \E n \in AllocSizes : MemAlloc(n)
  BY <1>1, AllocStep
<1>2. CASE \E v \in Raw \union DOMAIN given, off \in Offsets :
             MemRead(v, off) \/ \E x \in Contents : MemWrite(v, off, x)
  BY <1>2, ReadStep, WriteStep, OffsetsNat
<1>3. CASE UNCHANGED pointersVars
  BY <1>3
  DEF pointersVars, PInv, GivenType, StoredType, Inside, Apart, Tracked, Kept, Allowed, Named
<1> QED
  BY <1>1, <1>2, <1>3 DEF PointersNext

\* Whatever the bounds of the heap, the pool and the program's sizes, memory and
\* the pool keep their types.
THEOREM PointersTypeCorrect == PointersSpec => []PointersTypeOK
<1>1. PInv => PointersTypeOK
  BY DEF PInv, GivenType, StoredType, PointersTypeOK
<1> QED
  BY <1>1, InitPInv, NextPInv, PTL DEF PointersSpec

\* Every write of a program that keeps to what it was given, and to addresses
\* outside the heap, arrives at the word it names and stays there.
THEOREM EveryWriteArrives == PointersSpec => []WritesArrive
<1>1. ASSUME PInv PROVE WritesArrive
  <2> SUFFICES ASSUME NEW a \in DOMAIN stored
               PROVE  /\ memory[Named(a[1], a[2])] = stored[a]
                      /\ Target(a[1]) + a[2] = Named(a[1], a[2])
    BY DEF WritesArrive
  <2>1. a[1] \in Raw \union DOMAIN given /\ a[2] \in Nat
    BY <1>1 DEF PInv, StoredType
  <2> QED
    BY <1>1, <2>1, Reached DEF PInv, Kept
<1> QED
  BY <1>1, InitPInv, NextPInv, PTL DEF PointersSpec

-----------------------------------------------------------------------------
(* The handoff structure *)

\* What holds of the word at info from the first allocation to the jump: it is the
\* address of a block, and info is in no word, so that no access reaches it.
Unreached ==
  /\ memory \in [Address -> Nat]
  /\ raw_pointers \in [0 .. Slots - 1 -> Nat] /\ next_ptr \in 0 .. Slots - 1
  /\ info \in Heap /\ memory[info] \in Heap
  /\ \A a \in Address : memory[a] # info
  /\ cmdline_ptr \in Nat /\ cmdline_ptr # info

\* Until the command line has been copied, the code has used what it was given, and
\* so the pointers lead to their blocks.
InOrder == PInv /\ DOMAIN stored = {} /\ info \in DOMAIN given

HandoffInv ==
  /\ pc \in {"create", "clear", "kernel", "alloc", "copy", "cmdline", "mmap", "jump",
             "booted"}
  /\ pc = "create" => /\ PInv /\ DOMAIN given = {} /\ DOMAIN stored = {}
                      /\ memory = [a \in Address |-> 0] /\ info = 0 /\ cmdline_ptr = 0
  /\ pc # "create" /\ info # 0 =>
       /\ Unreached
       /\ pc \in {"clear", "kernel", "alloc", "copy"} => InOrder
       /\ pc \in {"clear", "kernel", "alloc"} => DOMAIN given = {info}
       /\ pc = "clear" => done \in 0 .. Words - 1 /\ given[info].size = Words
       /\ pc = "kernel" => done \in 0 .. 2
       /\ pc = "copy" =>
            /\ done \in 0 .. Len(Cmdline) - 1
            /\ cmdline_ptr # 0 => /\ cmdline_ptr \in DOMAIN given
                                  /\ given[cmdline_ptr].size = Len(Cmdline)
       /\ pc = "cmdline" => done = 0
       /\ pc = "mmap" => done \in 0 .. 1

\* The numbers the code handles are natural numbers, and none of them is in the heap.
LEMMA NumberFacts ==
  ASSUME NumbersApart
  PROVE  /\ Words \in Nat \ {0} /\ Words + 1 < HeapStart
         /\ Len(Cmdline) \in Nat \ {0} /\ Len(Cmdline) + 1 < HeapStart /\ 4 < HeapStart
         /\ \A x \in {Magic[1], Magic[2], Phys, Virt, KernelSize, MapStart, MapLength} :
               x \in Nat /\ x \notin Heap
         /\ \A n \in 1 .. Len(Cmdline) : Cmdline[n] \in Nat /\ Cmdline[n] \notin Heap
<1>1. Words \in Nat \ {0} /\ Len(Cmdline) \in Nat \ {0}
  BY PointersAssumption DEF NumbersApart
<1>2. Words + 1 < HeapStart /\ Len(Cmdline) + 1 < HeapStart /\ 3 + 1 < HeapStart
  BY DEF NumbersApart, Tracking
<1>3. /\ \A x \in {Magic[1], Magic[2], Phys, Virt, KernelSize, MapStart, MapLength} :
            x \in Nat /\ x \notin Heap
      /\ \A n \in 1 .. Len(Cmdline) : Cmdline[n] \in Nat /\ Cmdline[n] \notin Heap
  BY DEF NumbersApart
<1> QED
  BY <1>1, <1>2, <1>3

\* An access changes at most the word it reaches.
LEMMA PokeFacts ==
  ASSUME memory \in [Address -> Nat],
         raw_pointers \in [0 .. Slots - 1 -> Nat], next_ptr \in 0 .. Slots - 1,
         NEW v \in Nat, NEW off \in Nat, NEW x \in Nat, Poke(v, off, x)
  PROVE  /\ memory' \in [Address -> Nat]
         /\ raw_pointers' \in [0 .. Slots - 1 -> Nat] /\ next_ptr' \in 0 .. Slots - 1
         /\ \A a \in Address : memory'[a] = memory[a] \/ (a = Target(v) + off /\ memory'[a] = x)
         /\ UNCHANGED <<brk, given, stored>>
<1>1. (next_ptr + 1) % Slots \in 0 .. Slots - 1
  BY PointersAssumption
<1>2. raw_pointers' \in [0 .. Slots - 1 -> Nat] /\ next_ptr' \in 0 .. Slots - 1
  BY <1>1 DEF Poke, UsePointer
<1>3. \/ memory' = [memory EXCEPT ![Target(v) + off] = x]
      \/ UNCHANGED memory
  BY DEF Poke
<1>4. UNCHANGED <<brk, given, stored>>
  BY DEF Poke
<1> QED
  BY <1>2, <1>3, <1>4

\* An access that neither reaches info nor writes it leaves the word at info alone.
LEMMA PokeUnreached ==
  ASSUME Unreached, NEW v \in Nat, NEW off \in Nat, NEW x \in Nat, x # info,
         Poke(v, off, x), Target(v) + off # info, info' = info, cmdline_ptr' = cmdline_ptr
  PROVE  Unreached'
<1>1. /\ memory' \in [Address -> Nat]
      /\ raw_pointers' \in [0 .. Slots - 1 -> Nat] /\ next_ptr' \in 0 .. Slots - 1
      /\ \A a \in Address : memory'[a] = memory[a] \/ (a = Target(v) + off /\ memory'[a] = x)
  BY PokeFacts DEF Unreached
<1>2. info \in Address
  BY HeapFacts DEF Unreached
<1>3. memory'[info] = memory[info]
  BY <1>1, <1>2
<1>4. \A a \in Address : memory'[a] # info
  BY <1>1 DEF Unreached
<1> QED
  BY <1>1, <1>3, <1>4 DEF Unreached

\* An access to a block, or outside the heap, leaves every structure as it is.
LEMMA PokeInOrder ==
  ASSUME InOrder, NEW v \in Nat, NEW off \in Nat, NEW x \in Nat, Poke(v, off, x),
         \A w \in DOMAIN given : Target(v) + off # w, info' = info
  PROVE  InOrder'
<1>1. /\ memory' \in [Address -> Nat]
      /\ raw_pointers' \in [0 .. Slots - 1 -> Nat] /\ next_ptr' \in 0 .. Slots - 1
      /\ \A a \in Address : memory'[a] = memory[a] \/ (a = Target(v) + off /\ memory'[a] = x)
      /\ UNCHANGED <<brk, given, stored>>
  BY PokeFacts DEF InOrder, PInv
<1>2. GivenType' /\ StoredType' /\ Inside' /\ Apart'
  BY <1>1 DEF InOrder, PInv, GivenType, StoredType, Inside, Apart
<1>3. \A w \in DOMAIN given : w \in Address
  BY HeapFacts DEF InOrder, PInv, GivenType
<1>4. Tracked'
  BY <1>1, <1>3 DEF InOrder, PInv, Tracked
<1>5. Kept'
  BY <1>1 DEF InOrder, Kept
<1> QED
  BY <1>1, <1>2, <1>4, <1>5 DEF InOrder, PInv

\* A word of a block is no structure's.
LEMMA BlockReached ==
  ASSUME InOrder, NEW v \in DOMAIN given, NEW off \in Nat, off < given[v].size
  PROVE  v \in Nat /\ \A w \in DOMAIN given : Target(v) + off # w
<1>1. Allowed(v, off) /\ PInv
  BY DEF Allowed, InOrder
<1>2. v \in Nat
  BY <1>1, HeapFacts DEF PInv, GivenType
<1>3. Target(v) + off = Named(v, off)
  BY <1>1, Reached
<1>4. \A w \in DOMAIN given : Named(v, off) # w
  BY <1>1, StructuresSpared
<1> QED
  BY <1>2, <1>3, <1>4

\* What mem_alloc leaves behind, whatever was allocated before.
LEMMA AllocLeaves ==
  ASSUME PInv, NEW n \in AllocSizes, n + 1 < HeapStart, 4 < HeapStart, MemAlloc(n)
  PROVE  \E struct \in Heap :
           /\ struct \notin DOMAIN given /\ DOMAIN given' = DOMAIN given \union {struct}
           /\ given'[struct].size = n /\ memory'[struct] \in Heap
           /\ brk < struct /\ stored' = stored
           /\ \A v \in DOMAIN given : given'[v] = given[v]
           /\ \A a \in Address :
                \/ memory'[a] = memory[a]
                \/ memory'[a] < HeapStart
                \/ memory'[a] # struct /\ brk < memory'[a]
<1>1. n \in Nat /\ n > 0
  BY PointersAssumption
<1>2. PICK struct \in Heap, block \in Heap :
        /\ Made(struct, block, n)
        /\ memory' = Written(struct, block, n)
        /\ given' = [v \in DOMAIN given \union {struct} |->
                       IF v = struct THEN [block |-> block, size |-> n] ELSE given[v]]
        /\ UNCHANGED <<raw_pointers, next_ptr, stored>>
  BY DEF MemAlloc
<1>3. brk \in Nat /\ struct \in Nat /\ block \in Nat /\ struct \in Address
      /\ HeapStart \in Nat
  BY <1>2, HeapFacts DEF PInv, GivenType
<1>4. Block(n) \in Nat /\ n + 1 <= Block(n) /\ Block(n) - 1 <= n + 1 /\ Block(Tracking) = 5
  BY <1>1 DEF Block, Tracking
<1>5. brk < struct /\ brk < block /\ struct # block
  <2> DEFINE b == Block(n)  t == Block(Tracking)
  <2>1. \/ struct = brk + 1 /\ block = brk + t + 1
        \/ block = brk + 1 /\ struct = brk + b + 1
    BY <1>2 DEF Made
  <2>2. b \in Nat /\ 0 < b /\ t = 5
    BY <1>1, <1>4
  <2> HIDE DEF b, t
  <2> QED BY <1>3, <2>1, <2>2
<1>6. struct \notin DOMAIN given
  <2>1. \A v \in DOMAIN given : v \in Nat /\ v + 3 <= brk
    BY HeapFacts DEF PInv, GivenType, Inside, Tracking
  <2> QED BY <1>3, <1>5, <2>1
<1>7. memory'[struct] = block
  BY <1>2, <1>3 DEF Written, PInv
<1>8. ASSUME NEW a \in Address
      PROVE  \/ memory'[a] = memory[a]
             \/ memory'[a] < HeapStart
             \/ memory'[a] # struct /\ brk < memory'[a]
  <2>1. memory'[a] \in {memory[a], Block(Tracking) - 1, Block(n) - 1, block, n, 1}
    BY <1>2 DEF Written, PInv
  <2> QED
    BY <1>1, <1>3, <1>4, <1>5, <2>1
<1> QED
  BY <1>2, <1>5, <1>6, <1>7, <1>8

\* The first allocation: the heap was empty, and every word zero.
LEMMA CreateKeeps == NumbersApart /\ HandoffInv /\ CreateHandoff => HandoffInv'
<1> SUFFICES ASSUME NumbersApart, HandoffInv, CreateHandoff PROVE HandoffInv'
  OBVIOUS
<1>1. /\ PInv /\ DOMAIN given = {} /\ DOMAIN stored = {}
      /\ memory = [a \in Address |-> 0] /\ info = 0 /\ cmdline_ptr = 0 /\ cmdline_ptr' = 0
  BY DEF HandoffInv, CreateHandoff
<1>2. done' = 0 /\ pc' = IF info' = 0 THEN "kernel" ELSE "clear"
  BY DEF CreateHandoff, Goto
<1>3. CASE AllocFails(Words) /\ info' = 0
  BY <1>2, <1>3 DEF HandoffInv
<1>4. CASE \E v \in Heap : MemAlloc(Words) /\ v \in DOMAIN given' \ DOMAIN given /\ info' = v
  <2>1. Words \in AllocSizes
    BY DEF NumbersApart
  <2>2. PInv'
    BY <1>1, <1>4, <2>1, AllocStep
  <2>3. PICK struct \in Heap :
          /\ DOMAIN given' = {struct}
          /\ given'[struct].size = Words /\ memory'[struct] \in Heap /\ stored' = stored
          /\ \A a \in Address : \/ memory'[a] = memory[a]
                                \/ memory'[a] < HeapStart
                                \/ memory'[a] # struct
    <3>1. MemAlloc(Words) /\ Words + 1 < HeapStart /\ 4 < HeapStart
      BY <1>4, NumberFacts
    <3>2. PICK struct \in Heap :
            /\ struct \notin DOMAIN given /\ DOMAIN given' = DOMAIN given \union {struct}
            /\ given'[struct].size = Words /\ memory'[struct] \in Heap
            /\ brk < struct /\ stored' = stored
            /\ \A v \in DOMAIN given : given'[v] = given[v]
            /\ \A a \in Address :
                 \/ memory'[a] = memory[a]
                 \/ memory'[a] < HeapStart
                 \/ memory'[a] # struct /\ brk < memory'[a]
      BY <1>1, <2>1, <3>1, AllocLeaves
    <3> QED BY <1>1, <3>2
  <2>4. info' = struct /\ info' # 0 /\ info' \in Nat /\ HeapStart <= struct
    BY <1>1, <1>4, <2>3, HeapFacts
  <2>5. \A a \in Address : memory'[a] # info'
    <3> SUFFICES ASSUME NEW a \in Address PROVE memory'[a] # info'
      OBVIOUS
    <3>1. memory[a] = 0 /\ memory'[a] \in Nat /\ HeapStart \in Nat
      BY <1>1, <2>2, HeapFacts DEF PInv
    <3> QED BY <2>3, <2>4, <3>1
  <2>6. Unreached'
    BY <1>1, <2>2, <2>3, <2>4, <2>5 DEF Unreached, PInv
  <2>7. InOrder'
    BY <1>1, <2>2, <2>3, <2>4 DEF InOrder
  <2>8. Words \in Nat \ {0}
    BY NumberFacts
  <2> QED
    BY <1>2, <2>3, <2>4, <2>6, <2>7, <2>8 DEF HandoffInv
<1> QED
  BY <1>3, <1>4 DEF CreateHandoff

\* Clearing stays within the structure mem_alloc gave.
LEMMA ClearKeeps == NumbersApart /\ HandoffInv /\ ClearHandoff => HandoffInv'
<1> SUFFICES ASSUME NumbersApart, HandoffInv, ClearHandoff PROVE HandoffInv'
  OBVIOUS
<1> DEFINE x == IF done < 2 THEN Magic[done + 1] ELSE 0
<1>1. pc = "clear" /\ Poke(info, done, x) /\ info' = info /\ cmdline_ptr' = cmdline_ptr
  BY DEF ClearHandoff
<1>2. IF done + 1 < Words THEN done' = done + 1 /\ pc' = pc ELSE pc' = "kernel" /\ done' = 0
  BY DEF ClearHandoff, Goto
<1>3. CASE info = 0
  BY <1>1, <1>2, <1>3 DEF HandoffInv
<1>4. CASE info # 0
  <2>1. /\ Unreached /\ InOrder /\ DOMAIN given = {info}
        /\ done \in 0 .. Words - 1 /\ given[info].size = Words
    BY <1>1, <1>4 DEF HandoffInv
  <2>2. Words \in Nat /\ done \in Nat /\ done < Words /\ 4 < HeapStart /\ HeapStart \in Nat
    BY <2>1, NumberFacts, HeapFacts
  <2>3. x \in Nat /\ x \notin Heap
    <3>1. CASE done < 2
      <4>1. done = 0 \/ done = 1
        BY <2>2, <3>1
      <4> QED BY <3>1, <4>1, NumberFacts
    <3>2. CASE ~(done < 2)
      BY <3>2, HeapFacts
    <3> QED BY <3>1, <3>2
  <2>4. x # info
    BY <2>1, <2>3 DEF Unreached
  <2> HIDE DEF x
  <2>5. info \in Nat /\ \A w \in DOMAIN given : Target(info) + done # w
    BY <2>1, <2>2, BlockReached
  <2>6. Unreached'
    BY <1>1, <2>1, <2>2, <2>3, <2>4, <2>5, PokeUnreached
  <2>7. InOrder'
    BY <1>1, <2>1, <2>2, <2>3, <2>5, PokeInOrder
  <2>8. given' = given
    BY <1>1 DEF Poke
  <2> QED
    BY <1>1, <1>2, <2>1, <2>2, <2>6, <2>7, <2>8 DEF HandoffInv
<1> QED
  BY <1>3, <1>4

\* A field is written through whatever word lies at its place; that is never info.
LEMMA FieldReached ==
  ASSUME Unreached, NEW f \in Nat \ {0}
  PROVE  info \in Nat /\ info + f \in Nat /\ Target(info + f) + 0 \in Nat
         /\ Target(info + f) + 0 # info
<1>1. info \in Nat
  BY HeapFacts DEF Unreached
<1>2. CASE InHeap(info + f)
  <2>1. info + f \in Address
    BY <1>1, <1>2, PointersAssumption DEF InHeap, Address
  <2>2. memory[info + f] \in Nat /\ memory[info + f] # info
    BY <2>1 DEF Unreached
  <2> QED
    BY <1>1, <1>2, <2>2 DEF Target
<1>3. CASE ~InHeap(info + f)
  BY <1>1, <1>3 DEF Target
<1> QED
  BY <1>2, <1>3

\* One field of any procedure.
LEMMA FieldKeeps ==
  ASSUME Unreached, NEW f \in Nat \ {0}, NEW x \in Nat, x # info, Poke(info + f, 0, x),
         info' = info, cmdline_ptr' = cmdline_ptr
  PROVE  /\ Unreached'
         /\ given' = given
         /\ InOrder /\ DOMAIN given = {info} => InOrder'
<1>1. info \in Nat /\ info + f \in Nat /\ Target(info + f) + 0 # info
  BY FieldReached
<1>2. Unreached'
  BY <1>1, PokeUnreached
<1>3. InOrder /\ DOMAIN given = {info} => InOrder'
  BY <1>1, PokeInOrder
<1>4. given' = given
  BY DEF Poke
<1> QED
  BY <1>2, <1>3, <1>4

LEMMA KernelKeeps == NumbersApart /\ HandoffInv /\ set_kernel => HandoffInv'
<1> SUFFICES ASSUME NumbersApart, HandoffInv, set_kernel PROVE HandoffInv'
  OBVIOUS
<1> DEFINE fields == <<<<PhysField, Phys>>, <<VirtField, Virt>>, <<SizeField, KernelSize>>>>
<1>1. /\ pc = "kernel" /\ Poke(info + fields[done + 1][1], 0, fields[done + 1][2])
      /\ info' = info /\ cmdline_ptr' = cmdline_ptr
      /\ IF done + 1 < 3 THEN done' = done + 1 /\ pc' = pc ELSE pc' = "alloc" /\ done' = 0
  BY DEF set_kernel, SetFields, Goto
<1>2. CASE info = 0
  BY <1>1, <1>2 DEF HandoffInv
<1>3. CASE info # 0
  <2>1. Unreached /\ InOrder /\ DOMAIN given = {info} /\ done \in 0 .. 2
    BY <1>1, <1>3 DEF HandoffInv
  <2>2. PICK f \in {PhysField, VirtField, SizeField}, x \in {Phys, Virt, KernelSize} :
          Poke(info + f, 0, x)
    <3>1. done = 0 \/ done = 1 \/ done = 2
      BY <2>1
    <3> QED BY <1>1, <3>1
  <2>3. f \in Nat \ {0} /\ x \in Nat /\ x \notin Heap
    BY NumberFacts DEF PhysField, VirtField, SizeField
  <2>4. x # info
    BY <2>1, <2>3 DEF Unreached
  <2>5. Unreached' /\ InOrder' /\ given' = given
    BY <1>1, <2>1, <2>2, <2>3, <2>4, FieldKeeps
  <2>6. (pc' = "kernel" /\ done' \in 0 .. 2) \/ pc' = "alloc"
    BY <1>1, <2>1
  <2> QED
    BY <1>1, <2>1, <2>5, <2>6 DEF HandoffInv
<1> QED
  BY <1>2, <1>3

\* The second allocation lies above the first.
LEMMA AllocKeeps == NumbersApart /\ HandoffInv /\ AllocCmdline => HandoffInv'
<1> SUFFICES ASSUME NumbersApart, HandoffInv, AllocCmdline PROVE HandoffInv'
  OBVIOUS
<1>1. pc = "alloc" /\ pc' = "copy" /\ done' = 0 /\ info' = info
  BY DEF AllocCmdline, Goto
<1>2. CASE info = 0
  BY <1>1, <1>2 DEF HandoffInv
<1>3. CASE info # 0
  <2>1. Unreached /\ InOrder /\ DOMAIN given = {info} /\ PInv /\ DOMAIN stored = {}
    BY <1>1, <1>3 DEF HandoffInv, InOrder
  <2>2. Len(Cmdline) \in AllocSizes /\ Len(Cmdline) \in Nat \ {0}
    BY NumberFacts DEF NumbersApart
  <2>3. CASE AllocFails(Len(Cmdline)) /\ cmdline_ptr' = 0
    <3>1. UNCHANGED pointersVars /\ info # 0
      BY <1>3, <2>3 DEF AllocFails
    <3>2. Unreached' /\ InOrder'
      BY <1>1, <2>1, <2>3, <3>1
      DEF Unreached, InOrder, pointersVars, PInv, GivenType, StoredType, Inside, Apart,
          Tracked, Kept, Allowed, Named
    <3> QED
      BY <1>1, <2>2, <2>3, <3>2 DEF HandoffInv
  <2>4. CASE \E v \in Heap : MemAlloc(Len(Cmdline))
                             /\ v \in DOMAIN given' \ DOMAIN given /\ cmdline_ptr' = v
    <3>1. PInv'
      BY <2>1, <2>2, <2>4, AllocStep
    <3>2. PICK struct \in Heap :
            /\ struct \notin DOMAIN given /\ DOMAIN given' = DOMAIN given \union {struct}
            /\ given'[struct].size = Len(Cmdline) /\ brk < struct /\ stored' = stored
            /\ \A a \in Address : \/ memory'[a] = memory[a]
                                  \/ memory'[a] < HeapStart
                                  \/ brk < memory'[a]
      BY <2>1, <2>2, <2>4, AllocLeaves, NumberFacts
    <3>3. cmdline_ptr' = struct
      BY <2>4, <3>2
    <3>4. /\ info \in Nat /\ info + 3 <= brk /\ brk \in Nat /\ struct \in Nat
          /\ HeapStart \in Nat /\ HeapStart <= info
          /\ info \in Address
      BY <2>1, <3>2, HeapFacts DEF PInv, GivenType, Inside, Tracking
    <3>5. \A a \in Address : memory'[a] \in Nat
      BY <3>1 DEF PInv
    <3>6. \A a \in Address : memory'[a] # info
      <4> SUFFICES ASSUME NEW a \in Address PROVE memory'[a] # info
        OBVIOUS
      <4>1. memory[a] # info /\ memory'[a] \in Nat
        BY <2>1, <3>5 DEF Unreached
      <4> QED BY <3>2, <3>4, <4>1
    <3>7. memory'[info] \in Heap
      <4>1. info \in DOMAIN given'
        BY <2>1, <3>2
      <4> QED BY <3>1, <4>1 DEF PInv, Tracked, GivenType
    <3>8. Unreached' /\ InOrder'
      BY <1>1, <2>1, <3>1, <3>2, <3>3, <3>4, <3>6, <3>7 DEF Unreached, InOrder, PInv
    <3> QED
      BY <1>1, <2>2, <3>2, <3>3, <3>8 DEF HandoffInv
  <2> QED
    BY <2>3, <2>4 DEF AllocCmdline
<1> QED
  BY <1>2, <1>3

\* The command line goes into its block, or, without one, to the lowest addresses.
LEMMA CopyKeeps == NumbersApart /\ HandoffInv /\ CopyCmdline => HandoffInv'
<1> SUFFICES ASSUME NumbersApart, HandoffInv, CopyCmdline PROVE HandoffInv'
  OBVIOUS
<1>1. /\ pc = "copy" /\ Poke(cmdline_ptr, done, Cmdline[done + 1])
      /\ info' = info /\ cmdline_ptr' = cmdline_ptr
      /\ IF done + 1 < Len(Cmdline) THEN done' = done + 1 /\ pc' = pc
         ELSE pc' = "cmdline" /\ done' = 0
  BY DEF CopyCmdline, Goto
<1>2. CASE info = 0
  BY <1>1, <1>2 DEF HandoffInv
<1>3. CASE info # 0
  <2> DEFINE n == Len(Cmdline)  x == Cmdline[done + 1]
  <2>1. /\ Unreached /\ InOrder /\ done \in 0 .. n - 1
        /\ cmdline_ptr # 0 => cmdline_ptr \in DOMAIN given /\ given[cmdline_ptr].size = n
    BY <1>1, <1>3 DEF HandoffInv
  <2>2. n \in Nat \ {0} /\ n + 1 < HeapStart /\ HeapStart \in Nat
    BY NumberFacts, HeapFacts
  <2>3. done \in Nat /\ done < n /\ done + 1 \in 1 .. n
    BY <2>1, <2>2
  <2>4. x \in Nat /\ x \notin Heap
    BY <2>3, NumberFacts
  <2>5. x # info /\ cmdline_ptr \in Nat
    BY <2>1, <2>4 DEF Unreached
  <2>6. \A w \in DOMAIN given : Target(cmdline_ptr) + done # w
    <3>1. CASE cmdline_ptr # 0
      BY <2>1, <2>2, <2>3, <3>1, BlockReached
    <3>2. CASE cmdline_ptr = 0
      <4>1. Target(cmdline_ptr) + done = done
        BY <2>2, <2>3, <3>2 DEF Target, InHeap
      <4>2. \A w \in DOMAIN given : w \in Nat /\ HeapStart <= w
        BY <2>1, HeapFacts DEF InOrder, PInv, GivenType
      <4> QED BY <2>2, <2>3, <4>1, <4>2
    <3> QED BY <3>1, <3>2
  <2>7. info \in DOMAIN given
    BY <2>1 DEF InOrder
  <2> HIDE DEF n, x
  <2>8. Poke(cmdline_ptr, done, x)
    BY <1>1 DEF x
  <2>9. Unreached'
    BY <1>1, <2>1, <2>3, <2>4, <2>5, <2>6, <2>7, <2>8, PokeUnreached
  <2>10. InOrder' /\ given' = given
    BY <1>1, <2>1, <2>3, <2>4, <2>5, <2>6, <2>8, PokeInOrder DEF Poke
  <2>11. \/ pc' = "copy" /\ done' \in 0 .. n - 1
         \/ pc' = "cmdline" /\ done' = 0
    BY <1>1, <2>2, <2>3 DEF n
  <2> QED
    BY <1>1, <2>1, <2>9, <2>10, <2>11 DEF HandoffInv, n
<1> QED
  BY <1>2, <1>3

LEMMA CmdlineKeeps == HandoffInv /\ set_cmdline => HandoffInv'
<1> SUFFICES ASSUME HandoffInv, set_cmdline PROVE HandoffInv'
  OBVIOUS
<1> DEFINE fields == <<<<CmdlineField, cmdline_ptr>>>>
<1>1. /\ pc = "cmdline" /\ Poke(info + fields[done + 1][1], 0, fields[done + 1][2])
      /\ info' = info /\ cmdline_ptr' = cmdline_ptr
      /\ IF done + 1 < 1 THEN done' = done + 1 /\ pc' = pc ELSE pc' = "mmap" /\ done' = 0
  BY DEF set_cmdline, SetFields, Goto
<1>2. CASE info = 0
  BY <1>1, <1>2 DEF HandoffInv
<1>3. CASE info # 0
  <2>1. Unreached /\ done = 0
    BY <1>1, <1>3 DEF HandoffInv
  <2>2. Poke(info + 13, 0, cmdline_ptr) /\ pc' = "mmap" /\ done' = 0
    BY <1>1, <2>1 DEF CmdlineField
  <2>3. cmdline_ptr \in Nat /\ cmdline_ptr # info
    BY <2>1 DEF Unreached
  <2>4. Unreached'
    BY <1>1, <2>1, <2>2, <2>3, FieldKeeps
  <2> QED
    BY <2>2, <2>4 DEF HandoffInv
<1> QED
  BY <1>2, <1>3

LEMMA MmapKeeps == NumbersApart /\ HandoffInv /\ set_mmap => HandoffInv'
<1> SUFFICES ASSUME NumbersApart, HandoffInv, set_mmap PROVE HandoffInv'
  OBVIOUS
<1> DEFINE fields == <<<<MmapField, MapStart>>, <<MmapSizeField, MapLength>>>>
<1>1. /\ pc = "mmap" /\ Poke(info + fields[done + 1][1], 0, fields[done + 1][2])
      /\ info' = info /\ cmdline_ptr' = cmdline_ptr
      /\ IF done + 1 < 2 THEN done' = done + 1 /\ pc' = pc ELSE pc' = "jump" /\ done' = 0
  BY DEF set_mmap, SetFields, Goto
<1>2. CASE info = 0
  BY <1>1, <1>2 DEF HandoffInv
<1>3. CASE info # 0
  <2>1. Unreached /\ done \in 0 .. 1
    BY <1>1, <1>3 DEF HandoffInv
  <2>2. PICK f \in {MmapField, MmapSizeField}, x \in {MapStart, MapLength} :
          Poke(info + f, 0, x)
    <3>1. done = 0 \/ done = 1
      BY <2>1
    <3> QED BY <1>1, <3>1
  <2>3. f \in Nat \ {0} /\ x \in Nat /\ x \notin Heap
    BY NumberFacts DEF MmapField, MmapSizeField
  <2>4. x # info
    BY <2>1, <2>3 DEF Unreached
  <2>5. Unreached'
    BY <1>1, <2>1, <2>2, <2>3, <2>4, FieldKeeps
  <2>6. (pc' = "mmap" /\ done' \in 0 .. 1) \/ pc' = "jump"
    BY <1>1, <2>1
  <2> QED
    BY <2>5, <2>6 DEF HandoffInv
<1> QED
  BY <1>2, <1>3

LEMMA BootKeeps == HandoffInv /\ BootKernel => HandoffInv'
<1> SUFFICES ASSUME HandoffInv, BootKernel PROVE HandoffInv'
  OBVIOUS
<1>1. /\ pc = "jump" /\ pc' = "booted" /\ info' = info /\ cmdline_ptr' = cmdline_ptr
      /\ UNCHANGED <<memory, raw_pointers, next_ptr>>
  BY DEF BootKernel, Goto, pointersVars
<1>2. info # 0 => Unreached
  BY <1>1 DEF HandoffInv
<1>3. info' # 0 => Unreached'
  BY <1>1, <1>2 DEF Unreached
<1> QED
  BY <1>1, <1>3 DEF HandoffInv

\* On every heap, for every size of the structure and every command line: a kernel
\* that looks for the magic at the address it is given does not find it.  What is there
\* is the address of the block, and no write through any number changes that.
THEOREM KernelFindsNoMagic == NumbersApart => (HandoffSpec => []MagicMissed)
<1> SUFFICES ASSUME NumbersApart PROVE HandoffSpec => []MagicMissed
  OBVIOUS
<1>1. HandoffInit => HandoffInv
  BY InitPInv DEF HandoffInit, PointersInit, HandoffInv
<1>2. HandoffInv /\ [HandoffNext]_allVars => HandoffInv'
  <2> SUFFICES ASSUME HandoffInv, [HandoffNext]_allVars PROVE HandoffInv'
    OBVIOUS
  <2>1. CASE UNCHANGED allVars
    BY <2>1
    DEF allVars, handoffVars, pointersVars, HandoffInv, Unreached, InOrder, PInv, GivenType,
        StoredType, Inside, Apart, Tracked, Kept, Allowed, Named
  <2> QED
    BY <2>1, CreateKeeps, ClearKeeps, KernelKeeps, AllocKeeps, CopyKeeps, CmdlineKeeps,
       MmapKeeps, BootKeeps DEF HandoffNext
<1>3. HandoffInv => MagicMissed
  BY NumberFacts DEF HandoffInv, Unreached, MagicMissed
<1> QED
  BY <1>1, <1>2, <1>3, PTL DEF HandoffSpec

=============================================================================
