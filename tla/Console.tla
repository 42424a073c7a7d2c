------------------------------ MODULE Console -------------------------------
(***************************************************************************)
(* The serial console of compat/compat.c: formatted output (vsnprintf and    *)
(* the functions that call it), compat_uart_print, and fgets with its echo   *)
(* and line editing, over a UART with a transmit and a receive FIFO.  One    *)
(* call is made per behaviour; the other end of the line types and reads at  *)
(* its own pace, and what is typed into a full FIFO is lost.                 *)
(*                                                                         *)
(* Characters are their ASCII codes.                                        *)
(***************************************************************************)
EXTENDS Integers, Sequences, FiniteSets, SequencesExt

CONSTANTS
  Jobs,         \* the calls, each with its UART and what is typed meanwhile
  FifoSize,     \* the characters a FIFO holds
  NumberBits    \* the width of int

BS == 8
LF == 10
CR == 13
Blank == 32
Percent == 37
Minus == 45
DEL == 127

Printing == {"printf", "fprintf", "exit"}         \* vsnprintf, then print
Halting == {"exit", "abort", "longjmp"}           \* print, then for (;;)

Numbers == -(2 ^ (NumberBits - 1)) .. 2 ^ (NumberBits - 1) - 1
Text == Seq(1 .. 127)
NoString == <<-1>>      \* a NULL for %s

\* A part of a format with its argument: a plain character, or % and a letter.
IsPart(p) ==
  \/ p.conv = "plain" /\ p.arg \in (1 .. 127) \ {Percent}
  \/ p.conv \in {"d", "x"} /\ p.arg \in Numbers
  \/ p.conv = "s" /\ (p.arg = NoString \/ p.arg \in Text)
  \/ p.conv = "c" /\ p.arg \in 1 .. 127
  \/ p.conv \in {"percent", "other"}

ASSUME ConsoleAssumption ==
  /\ FifoSize \in Nat \ {0} /\ NumberBits \in Nat \ {0}
  /\ \A j \in Jobs :
       /\ j.fn \in Printing \union Halting \union {"snprintf", "fputs", "fputc", "fgets"}
       /\ j.uart \in {"16550", "pl011", "none"}
       /\ j.size \in Int
       /\ j.parts \in Seq(ToSet(j.parts)) /\ \A p \in ToSet(j.parts) : IsPart(p)
       /\ j.fn \in Printing \union {"snprintf"} => j.size >= 1
       /\ j.fn \in {"fputs", "fputc"} \union (Halting \ Printing) =>
            \A p \in ToSet(j.parts) : p.conv = "plain"
       /\ j.typed \in Text

VARIABLES
  job,          \* the call
  pc,           \* "format", "print", "read", "end", "returned" or "halted"
  at, arg,      \* vsnprintf: the next part of the format, the next argument
  str,          \* the text in the buffer
  sent,         \* compat_uart_print: the characters of it printed so far
  line,         \* fgets: the text in the caller's buffer
  todo,         \* the characters compat_uart_putc is still to be called with
  fifo, wire,   \* the transmit FIFO, and what has left it
  typed, rx,    \* what is still to be typed, and the receive FIFO
  taken         \* the characters compat_uart_getc has returned

consoleVars == <<job, pc, at, arg, str, sent, line, todo, fifo, wire, typed, rx, taken>>
programVars == <<job, pc, at, arg, str, sent, line, todo>>

-----------------------------------------------------------------------------
\* The n-th argument passed: that of the n-th part that takes one.
Takes(p) == p.conv \in {"d", "x", "s", "c"}
Argument(n) ==
  job.parts[CHOOSE k \in DOMAIN job.parts :
              /\ Takes(job.parts[k])
              /\ Cardinality({i \in 1 .. k : Takes(job.parts[i])}) = n].arg

\* Text that is not formatted: all its parts are plain.
Plainly(j) == [k \in DOMAIN j.parts |-> j.parts[k].arg]

Start(j) ==
  IF j.fn = "fgets" THEN IF j.size <= 0 THEN "returned" ELSE "read"
  ELSE IF j.fn \in Printing \union {"snprintf"} THEN "format" ELSE "print"

\* fputs, abort and longjmp print their text as it is; fputc puts one character.
ConsoleInit ==
  /\ job \in Jobs
  /\ pc = Start(job)
  /\ at = 1 /\ arg = 1 /\ sent = 0 /\ line = <<>>
  /\ str = IF pc = "print" /\ job.fn # "fputc" THEN Plainly(job) ELSE <<>>
  /\ todo = IF job.fn = "fputc" THEN Plainly(job) ELSE <<>>
  /\ fifo = <<>> /\ wire = <<>> /\ rx = <<>> /\ taken = <<>>
  /\ typed = job.typed

-----------------------------------------------------------------------------
(* vsnprintf *)

Digit(k) == IF k < 10 THEN 48 + k ELSE 55 + k

\* The digits of a positive number: what is left of it after each turn of the loop
\* gives the next, until nothing is left, and they come out in reverse.
Digits(u, base) ==
  LET left[k \in 0 .. u] == IF k = 0 THEN u ELSE left[k - 1] \div base
      n == CHOOSE k \in 0 .. u : left[k] = 0 /\ \A i \in 0 .. k - 1 : left[i] > 0
  IN  [i \in 1 .. n |-> Digit(left[n - i] % base)]

\* Fault: the least number is its own negation, and still negative.
FaultIntToStr(v, base) ==
  IF v = 0 THEN <<48>>
  ELSE IF v < 0 /\ base = 10
       THEN <<Minus>> \o Digits((-v) % 2 ^ (NumberBits - 1), base)
       ELSE Digits(v % 2 ^ NumberBits, base)

int_to_str(v, base) ==
  IF v = 0 THEN <<48>>
  ELSE IF v < 0 /\ base = 10 THEN <<Minus>> \o Digits((-v) % 2 ^ NumberBits, base)
       ELSE Digits(v % 2 ^ NumberBits, base)

Room == job.size - 1 - Len(str)
Fitting(text) == SubSeq(text, 1, IF Len(text) < Room THEN Len(text) ELSE Room)

Formatting == pc = "format" /\ at <= Len(job.parts) /\ Room > 0
Conversion(c) == Formatting /\ job.parts[at].conv = c

Emit(text, arguments) ==
  /\ str' = str \o Fitting(text)
  /\ at' = at + 1 /\ arg' = arg + arguments
  /\ UNCHANGED <<job, pc, sent, line, todo, fifo, wire, typed, rx, taken>>

Plain == Conversion("plain") /\ Emit(<<job.parts[at].arg>>, 0)

ConvertNumber ==
  \/ Conversion("d") /\ Emit(int_to_str(Argument(arg), 10), 1)
  \/ Conversion("x") /\ Emit(int_to_str(Argument(arg), 16), 1)

Null == <<40, 110, 117, 108, 108, 41>>     \* (null)
ConvertString ==
  Conversion("s") /\ Emit(IF Argument(arg) = NoString THEN Null ELSE Argument(arg), 1)

ConvertChar == Conversion("c") /\ Emit(<<Argument(arg)>>, 1)

ConvertPercent == Conversion("percent") /\ Emit(<<Percent>>, 0)

\* Any other letter: nothing is written, and its argument is left for the next.
ConvertOther == Conversion("other") /\ Emit(<<>>, 0)

EndFormat ==
  /\ pc = "format" /\ ~Formatting
  /\ pc' = IF job.fn = "snprintf" THEN "returned" ELSE "print"
  /\ UNCHANGED <<job, at, arg, str, sent, line, todo, fifo, wire, typed, rx, taken>>

-----------------------------------------------------------------------------
(* compat_uart_putc and compat_uart_print *)

\* Fault: the flag of a full FIFO is read the wrong way round.
FaultReady ==
  CASE job.uart = "16550" -> fifo = <<>>
    [] job.uart = "pl011" -> Len(fifo) = FifoSize
    [] OTHER -> TRUE

\* The flag polled: the FIFO is empty, or it is not full.  Nothing else fills it
\* between the poll and the write.
Ready ==
  CASE job.uart = "16550" -> fifo = <<>>
    [] job.uart = "pl011" -> Len(fifo) < FifoSize
    [] OTHER -> TRUE

Put ==
  /\ todo # <<>> /\ Ready
  /\ todo' = Tail(todo)
  /\ fifo' = IF job.uart = "none" THEN fifo ELSE Append(fifo, Head(todo))
  /\ UNCHANGED <<job, pc, at, arg, str, sent, line, wire, typed, rx, taken>>

Cooked(c) == IF c = LF THEN <<CR, LF>> ELSE <<c>>

PrintChar ==
  /\ pc = "print" /\ todo = <<>> /\ sent < Len(str)
  /\ todo' = Cooked(str[sent + 1])
  /\ sent' = sent + 1
  /\ UNCHANGED <<job, pc, at, arg, str, line, fifo, wire, typed, rx, taken>>

EndPrint ==
  /\ pc = "print" /\ todo = <<>> /\ sent = Len(str)
  /\ pc' = IF job.fn \in Halting THEN "halted" ELSE "returned"
  /\ UNCHANGED <<job, at, arg, str, sent, line, todo, fifo, wire, typed, rx, taken>>

-----------------------------------------------------------------------------
(* fgets *)

Erases(c) == c \in {BS, DEL}
EndsLine(c) == c \in {CR, LF}

\* What is echoed for c: the end of the line, a character rubbed out, or itself.
\* Fault: the cursor is left behind the character rubbed out.
FaultEcho(c) ==
  IF EndsLine(c) THEN <<c, LF>>
  ELSE IF Erases(c) /\ line # <<>> THEN <<c, Blank>> ELSE <<c>>

Echo(c) ==
  IF EndsLine(c) THEN <<c, LF>>
  ELSE IF Erases(c) /\ line # <<>> THEN <<c, Blank, BS>> ELSE <<c>>

\* Fault: a backspace is taken as a character where there is none to erase.
FaultEdited(c) ==
  IF EndsLine(c) THEN Append(line, LF)
  ELSE IF Erases(c) /\ line # <<>> THEN Front(line)
  ELSE Append(line, c)

Edited(c) ==
  IF EndsLine(c) THEN Append(line, LF)
  ELSE IF Erases(c) THEN IF line = <<>> THEN line ELSE Front(line)
  ELSE Append(line, c)

Take(c) ==
  /\ pc = "read" /\ todo = <<>> /\ Len(line) < job.size - 1
  /\ todo' = Echo(c) /\ line' = Edited(c)
  /\ pc' = IF EndsLine(c) THEN "end" ELSE "read"
  /\ taken' = Append(taken, c)
  /\ UNCHANGED <<job, at, arg, str, sent, fifo, wire, typed>>

GetChar == rx # <<>> /\ rx' = Tail(rx) /\ Take(Head(rx))

\* Where there is no UART, compat_uart_getc returns a NUL at once.
GetNothing == job.uart = "none" /\ Take(0) /\ UNCHANGED rx

EndLine ==
  /\ todo = <<>>
  /\ pc = "end" \/ (pc = "read" /\ Len(line) >= job.size - 1)
  /\ pc' = "returned"
  /\ UNCHANGED <<job, at, arg, str, sent, line, todo, fifo, wire, typed, rx, taken>>

-----------------------------------------------------------------------------
(* The other end of the line *)

Transmit ==
  /\ fifo # <<>>
  /\ wire' = Append(wire, Head(fifo)) /\ fifo' = Tail(fifo)
  /\ UNCHANGED programVars /\ UNCHANGED <<typed, rx, taken>>

Receive ==
  /\ typed # <<>> /\ job.uart # "none" /\ Len(rx) < FifoSize
  /\ rx' = Append(rx, Head(typed)) /\ typed' = Tail(typed)
  /\ UNCHANGED programVars /\ UNCHANGED <<fifo, wire, taken>>

Overrun ==
  /\ typed # <<>> /\ (job.uart = "none" \/ Len(rx) = FifoSize)
  /\ typed' = Tail(typed)
  /\ UNCHANGED programVars /\ UNCHANGED <<fifo, wire, rx, taken>>

-----------------------------------------------------------------------------
Program ==
  \/ Plain \/ ConvertNumber \/ ConvertString \/ ConvertChar \/ ConvertPercent \/ ConvertOther
  \/ EndFormat
  \/ Put \/ PrintChar \/ EndPrint
  \/ GetChar \/ GetNothing \/ EndLine

ConsoleNext == Program \/ Transmit \/ Receive \/ Overrun

\* The program runs on, and the UART sends what it is given.
ConsoleFairness == WF_consoleVars(Program) /\ WF_consoleVars(Transmit)

ConsoleSpec == ConsoleInit /\ [][ConsoleNext]_consoleVars /\ ConsoleFairness

-----------------------------------------------------------------------------
(* Properties *)

\* Type correctness: no FIFO is overfilled, and the text fits its buffer.
ConsoleTypeOK ==
  /\ pc \in {"format", "print", "read", "end", "returned", "halted"}
  /\ Len(fifo) <= FifoSize /\ Len(rx) <= FifoSize
  /\ pc = "format" => Len(str) <= job.size - 1
  /\ job.fn = "fgets" => Len(line) <= IF job.size > 0 THEN job.size - 1 ELSE 0
  /\ sent \in 0 .. Len(str)

\* A number in digits, without a leading zero.
Numeral(u, base) ==
  LET power[k \in 0 .. u + 1] == IF k = 0 THEN 1 ELSE base * power[k - 1]
      n == CHOOSE k \in 1 .. u + 1 : u < power[k] /\ (k = 1 \/ u >= power[k - 1])
  IN  [k \in 1 .. n |-> Digit((u \div power[n - k]) % base)]

\* What each part of a format stands for, and the text promised.
Meaning(p) ==
  CASE p.conv \in {"plain", "c"} -> <<p.arg>>
    [] p.conv = "d" -> IF p.arg < 0 THEN <<Minus>> \o Numeral(-p.arg, 10) ELSE Numeral(p.arg, 10)
    [] p.conv = "x" -> Numeral(p.arg % 2 ^ NumberBits, 16)
    [] p.conv = "s" -> IF p.arg = NoString THEN Null ELSE p.arg
    [] p.conv = "percent" -> <<Percent>>
    [] OTHER -> <<>>

Promise ==
  LET all == FlattenSeq([k \in DOMAIN job.parts |-> Meaning(job.parts[k])]) IN
  IF job.fn \in Printing \union {"snprintf"} /\ Len(all) > job.size - 1
  THEN SubSeq(all, 1, job.size - 1) ELSE all

OnTheLine(text) ==
  IF job.fn = "fputc" THEN text
  ELSE FlattenSeq([k \in DOMAIN text |-> IF text[k] = LF THEN <<CR, LF>> ELSE <<text[k]>>])

\* Formatted text is the meaning of its parts, cut off where the buffer ends; it is
\* put on the line in order, each line feed after a carriage return, and all of it is
\* in the UART's hands before the call returns or the machine halts.
TextArrives ==
  job.fn # "fgets" =>
    /\ pc # "format" /\ job.fn # "fputc" => str = Promise
    /\ job.fn = "snprintf" => wire \o fifo \o todo = <<>>
    /\ job.fn # "snprintf" /\ job.uart # "none" =>
         /\ IsPrefix(wire \o fifo, OnTheLine(Promise))
         /\ pc \in {"returned", "halted"} => wire \o fifo = OnTheLine(Promise)

\* The characters of text that are left when each erasing one has rubbed out the
\* last that was: behind none of them are, up to any point, more erasing than others.
Kept(text) ==
  LET Erasing(m, n) == {k \in m .. n : Erases(text[k])} IN
  {k \in DOMAIN text :
     ~Erases(text[k]) /\ \A n \in k + 1 .. Len(text) : 2 * Cardinality(Erasing(k + 1, n)) <= n - k}

\* The line fgets returns is what was taken from the UART, less what was rubbed out,
\* with a line feed for whichever character ended it; it takes no character more than
\* the buffer has room for, and none behind the end of the line.
LineIsWhatWasTyped ==
  job.fn = "fgets" =>
    LET kept == Kept(taken)
        place(k) == Cardinality({n \in kept : n <= k})
    IN  /\ Len(line) = Cardinality(kept)
        /\ \A k \in kept : line[place(k)] = IF EndsLine(taken[k]) THEN LF ELSE taken[k]
        /\ \A k \in DOMAIN taken : EndsLine(taken[k]) => k = Len(taken)
        /\ pc = "returned" /\ job.size > 0 =>
             Len(line) = job.size - 1 \/ (taken # <<>> /\ EndsLine(Last(taken)))

\* What a terminal shows of a line that came to it: backspace moves the cursor,
\* other characters are written where it is.
Shown(text) ==
  LET Step(screen, c) ==
        IF c = BS THEN [screen EXCEPT !.col = @ - 1]
        ELSE [col |-> screen.col + 1,
              row |-> IF screen.col < Len(screen.row)
                      THEN [screen.row EXCEPT ![screen.col + 1] = c]
                      ELSE Append(screen.row, c)]
      screen[n \in 0 .. Len(text)] ==
        IF n = 0 THEN [col |-> 0, row |-> <<>>] ELSE Step(screen[n - 1], text[n])
  IN  screen[Len(text)]

\* While a line is being typed, the terminal shows what is in the buffer, with the
\* cursor behind it, if no key but backspace was used to erase, and only where there
\* was something to erase.
ScreenShowsLine ==
  (/\ job.fn = "fgets" /\ pc = "read" /\ todo = <<>> /\ job.uart # "none"
   /\ \A k \in DOMAIN taken :
        /\ taken[k] # DEL
        /\ taken[k] = BS => Kept(SubSeq(taken, 1, k - 1)) # {}) =>
    LET screen == Shown(wire \o fifo) IN
    /\ screen.col = Len(line) /\ Len(line) <= Len(screen.row)
    /\ \A k \in DOMAIN screen.row :
         screen.row[k] = IF k <= Len(line) THEN line[k] ELSE Blank

\* Every call comes to its end: text is put out however slowly the line takes it,
\* and fgets returns once the end of the line has reached the UART.
CallsReturn ==
  (job.fn # "fgets" \/ job.uart = "none" \/ CR \in ToSet(rx) \/ LF \in ToSet(rx))
    ~> (pc \in {"returned", "halted"})
=============================================================================
