------------------------------ MODULE BootMenu ------------------------------
(***************************************************************************)
(* src/menu.sage: show_menu reads the clock, counts a timeout down, and     *)
(* polls the UART for keys until Enter or the timeout picks an option.      *)
(* Around it: the clock of compat/compat.c, which is a different counter on *)
(* every target, and a user who presses keys at any moment.  A key sends    *)
(* its characters down the line; the receiver holds FifoSize of them, and   *)
(* one more overruns it.                                                    *)
(*                                                                         *)
(* Time is counted in ticks of the counter.  The loop spends an unknown     *)
(* time in each of its steps, but no more than LoopTicks between two reads  *)
(* of the clock: there is one thread, interrupts stay off, and the delay at *)
(* the end of the loop is a fixed count.                                    *)
(***************************************************************************)
EXTENDS Integers, Sequences

CONSTANTS
  Arch,          \* hw.ARCH_NAME
  NumOptions,    \* len(options)
  TimeoutSec,    \* the timeout show_menu is called with
  TicksPerSec,   \* ticks_per_sec, taken to be the rate of the counter
  CounterMod,    \* the values of the counter: 2^64, 2^32, or 2^24 for SysTick
  StartCounts,   \* where the counter may be when show_menu is called
  LoopTicks,     \* the longest time between two reads of the clock
  KeysPressed,   \* the keys the user may press
  FifoSize,      \* the characters the receiver holds: 1 where no FIFO is enabled
  MaxNow,        \* bound: ticks of real time told apart
  MaxTyped       \* bound: keys the user presses

ASSUME MenuAssumption ==
  /\ NumOptions \in Nat \ {0} /\ TimeoutSec \in Nat
  /\ TicksPerSec \in Nat \ {0} /\ CounterMod \in Nat \ {0}
  /\ StartCounts \subseteq 0 .. CounterMod - 1
  /\ LoopTicks \in Nat /\ MaxNow \in Nat /\ MaxTyped \in Nat
  /\ FifoSize \in Nat \ {0}

\* The characters show_menu tells apart: w and W, s and S, carriage return and line
\* feed, and all others.
Chars == {"w", "s", "enter", "other"}

\* What a terminal sends for a key: an arrow is ESC, [ and a letter, none of which
\* show_menu knows, and neither does it know the a and d of WASD.
Arrows == {"up", "down"}
Keys == Chars \union Arrows
ASSUME KeysAssumption == KeysPressed \subseteq Keys

Sent(k) == IF k \in Arrows THEN <<"other", "other", "other">> ELSE <<k>>

VARIABLES
  count,         \* the hardware counter
  start,         \* what it was when start_tick was read
  lag,           \* ticks since the loop last read the clock
  now,           \* the real time since start_tick, in ticks up to MaxNow
  line,          \* characters sent and not yet arrived
  fifo,          \* characters in the receiver, not yet read
  typed,         \* how many keys were pressed
  pc,            \* "top", "poll" or "done"
  timeout_sec,   \* the timeout still in force; 0 once a character was read
  selected,
  last_printed_sec,
  ups, downs,    \* how often "w" and "s" were read
  others,        \* how often another character was read
  choice,        \* what show_menu returned, -1 before it does
  why            \* "none", "timeout" or "enter"

clockVars == <<count, start, lag, now>>
keyVars == <<line, fifo, typed>>
menuVars == <<timeout_sec, selected, last_printed_sec>>
readVars == <<ups, downs, others>>
endVars == <<choice, why>>

vars == <<clockVars, keyVars, pc, menuVars, readVars, endVars>>

-----------------------------------------------------------------------------
(* The clock *)

\* Fault: clock() has no branch for the target.
FaultClockSource == "none"

\* What keeps the count on each target.  On the ESP32 no branch of clock() does.
ClockSource ==
  CASE Arch = "rp2040" -> "systick"
    [] Arch = "esp32" -> "none"
    [] Arch \notin {"rp2040", "esp32"} -> "counter"

\* clock_t is a signed long, and as wide as the counter.
Signed(c) == IF 2 * c < CounterMod THEN c ELSE c - CounterMod

\* What clock() returns when the counter has come to c.  The SysTick of the
\* RP2040 counts down, in a narrower word than clock_t.
clock(c) ==
  CASE ClockSource = "counter" -> Signed(c)
    [] ClockSource = "systick" -> CounterMod - 1 - c
    [] ClockSource = "none" -> 0

\* Fault: a second counts when it begins.
FaultElapsedSec ==
  (clock(count) - clock(start) + TicksPerSec - 1) \div TicksPerSec

\* (cur_tick - start_tick) / ticks_per_sec | 0: a quotient of doubles, rounded
\* towards zero.
ElapsedSec ==
  LET d == clock(count) - clock(start)
  IN  IF d >= 0 THEN d \div TicksPerSec ELSE -((-d) \div TicksPerSec)

Tick ==
  /\ pc # "done"
  /\ lag < LoopTicks
  /\ lag' = lag + 1
  /\ count' = (count + 1) % CounterMod
  /\ now' = IF now < MaxNow THEN now + 1 ELSE now
  /\ UNCHANGED <<start, keyVars, pc, menuVars, readVars, endVars>>

\* A key is pressed, whatever the loop is at.  What is typed once the menu has
\* returned is nobody's here.
Type(k) ==
  /\ pc # "done"
  /\ typed < MaxTyped
  /\ typed' = typed + 1
  /\ line' = line \o Sent(k)
  /\ UNCHANGED <<clockVars, fifo, pc, menuVars, readVars, endVars>>

\* A character reaches the receiver.
Arrive ==
  /\ pc # "done" /\ line # <<>> /\ Len(fifo) < FifoSize
  /\ line' = Tail(line)
  /\ fifo' = Append(fifo, Head(line))
  /\ UNCHANGED <<clockVars, typed, pc, menuVars, readVars, endVars>>

\* A character reaches a full receiver: it takes the place of the last one held, as
\* in a 16550 whose FIFO is off, or is lost itself.
Overrun ==
  /\ pc # "done" /\ line # <<>> /\ Len(fifo) = FifoSize
  /\ line' = Tail(line)
  /\ fifo' \in {fifo, [fifo EXCEPT ![FifoSize] = Head(line)]}
  /\ UNCHANGED <<clockVars, typed, pc, menuVars, readVars, endVars>>

-----------------------------------------------------------------------------
(* show_menu *)

Expired == timeout_sec > 0 /\ ElapsedSec >= timeout_sec

\* "Timeout expired! Booting default choice...", which is option 0.
TimeOut ==
  /\ pc = "top"
  /\ Expired
  /\ pc' = "done" /\ choice' = 0 /\ why' = "timeout"
  /\ UNCHANGED <<clockVars, keyVars, menuVars, readVars>>

\* The elapsed second is noted; what is printed when it has changed is left out.
CountDown ==
  /\ pc = "top"
  /\ ~Expired
  /\ lag' = 0
  /\ last_printed_sec' = ElapsedSec
  /\ pc' = "poll"
  /\ UNCHANGED <<count, start, now, keyVars, timeout_sec, selected, readVars, endVars>>

\* There is a branch that reads the UART status for every target but the ESP32.
PollsUart == Arch # "esp32"
\* Fault: a single character in the receiver does not count.
FaultHasChar == PollsUart /\ Len(fifo) > 1

has_char == PollsUart /\ fifo # <<>>

NoKey ==
  /\ pc = "poll"
  /\ ~has_char
  /\ pc' = "top"
  /\ UNCHANGED <<clockVars, keyVars, menuVars, readVars, endVars>>

\* Faults: the selection may leave the list by one; it stops at the ends.
FaultClampedLate(s) ==
  IF s < 0 THEN NumOptions - 1 ELSE IF s > NumOptions THEN 0 ELSE s
FaultClampedAtEnds(s) ==
  IF s < 0 THEN 0 ELSE IF s >= NumOptions THEN NumOptions - 1 ELSE s

\* Clamp selection to bounds.
Clamped(s) == IF s < 0 THEN NumOptions - 1 ELSE IF s >= NumOptions THEN 0 ELSE s

\* Fault: the countdown goes on after a key.
FaultReadKey(k) ==
  /\ pc = "poll"
  /\ has_char
  /\ k = Head(fifo)
  /\ fifo' = Tail(fifo)
  /\ UNCHANGED <<clockVars, line, typed, last_printed_sec,
                 timeout_sec>>

\* A character is taken from the receiver and ends the countdown for good.
ReadKey(k) ==
  /\ pc = "poll"
  /\ has_char
  /\ k = Head(fifo)
  /\ fifo' = Tail(fifo)
  /\ timeout_sec' = 0
  /\ UNCHANGED <<clockVars, line, typed, last_printed_sec>>

Up ==
  /\ ReadKey("w")
  /\ selected' = Clamped(selected - 1)
  /\ ups' = ups + 1
  /\ pc' = "top"
  /\ UNCHANGED <<downs, others, endVars>>

Down ==
  /\ ReadKey("s")
  /\ selected' = Clamped(selected + 1)
  /\ downs' = downs + 1
  /\ pc' = "top"
  /\ UNCHANGED <<ups, others, endVars>>

Ignore ==
  /\ ReadKey("other")
  /\ selected' = Clamped(selected)
  /\ others' = others + 1
  /\ pc' = "top"
  /\ UNCHANGED <<ups, downs, endVars>>

Enter ==
  /\ ReadKey("enter")
  /\ choice' = selected /\ why' = "enter"
  /\ pc' = "done"
  /\ UNCHANGED <<selected, readVars>>

-----------------------------------------------------------------------------
Init ==
  /\ start \in StartCounts /\ count = start
  /\ lag = 0 /\ now = 0
  /\ line = <<>> /\ fifo = <<>> /\ typed = 0
  /\ pc = "top"
  /\ timeout_sec = TimeoutSec
  /\ selected = 0
  /\ last_printed_sec = -1
  /\ ups = 0 /\ downs = 0 /\ others = 0
  /\ choice = -1 /\ why = "none"

Menu == TimeOut \/ CountDown \/ NoKey \/ Up \/ Down \/ Ignore \/ Enter

User == Arrive \/ Overrun \/ \E k \in KeysPressed : Type(k)

Next == Menu \/ Tick \/ User

Spec == Init /\ [][Next]_vars

\* The menu's loop is never suspended and the counter never stops; the user
\* need not type anything.
FairSpec == Spec /\ WF_vars(Menu) /\ WF_vars(Tick)

-----------------------------------------------------------------------------
(* Properties *)

\* The characters read so far, the Enter that ends the menu not among them.
KeysRead == ups + downs + others

\* Type correctness of the menu and of its surroundings.
TypeOK ==
  /\ count \in 0 .. CounterMod - 1 /\ start \in 0 .. CounterMod - 1
  /\ lag \in 0 .. LoopTicks /\ now \in 0 .. MaxNow
  /\ line \in Seq(Chars) /\ fifo \in Seq(Chars) /\ Len(fifo) <= FifoSize
  /\ typed \in Nat
  /\ pc \in {"top", "poll", "done"}
  /\ timeout_sec \in Nat
  /\ selected \in 0 .. NumOptions - 1
  /\ last_printed_sec \in Int
  /\ ups \in Nat /\ downs \in Nat /\ others \in Nat
  /\ choice \in -1 .. NumOptions - 1
  /\ why \in {"none", "timeout", "enter"}

\* The user holds the menu: once a key has been read, only Enter leaves it.
TimeoutOnlyWithoutKeys ==
  /\ why = "timeout" => KeysRead = 0 /\ choice = 0
  /\ KeysRead > 0 => timeout_sec = 0

\* Whatever was typed and however often the selection went round the list, the
\* choice is the option that the w and s read add up to.  Other characters move
\* nothing, those of the arrow keys and the a and d of WASD among them, although
\* the menu offers them, "(Use arrow keys/WASD to select)" (src/menu.sage:45): what it
\* says of itself there is not so, and the property says what is.
ChoiceIsWhatWasTyped ==
  /\ why = "enter" => choice = (downs - ups) % NumOptions
  /\ selected = (downs - ups) % NumOptions

\* The timeout is never early, the wrap of the counter included: as much real
\* time has passed as it has.
TimeoutNotEarly == why = "timeout" => now >= TimeoutSec * TicksPerSec

\* From where the counter starts, clock() does not turn negative before the
\* timeout is noticed.
DueBeforeWrap ==
  clock(start) + TimeoutSec * TicksPerSec + LoopTicks < CounterMod \div 2

\* Nor is it late: before any key is read, no more real time passes than the timeout
\* and what the loop spends between two looks at the clock.
TimeoutNotLate ==
  (TimeoutSec > 0 /\ KeysRead = 0 /\ DueBeforeWrap) =>
     now < TimeoutSec * TicksPerSec + LoopTicks

\* The timeout that show_menu is given is the time it gives the user.
TimeoutOnTime == TimeoutNotEarly /\ TimeoutNotLate

\* A machine nobody touches boots: the timeout ends the menu.
UnattendedBoot == [](typed = 0) => <>(why = "timeout")

\* The same, as far as a counter that wraps can promise it.
UnattendedBootBeforeWrap == DueBeforeWrap => UnattendedBoot

\* Every character the receiver kept, up to the MaxTyped-th, is read in the end, or
\* the menu has returned.
\* What an overrun destroyed is not: while the loop is in its delay the receiver
\* holds no more than FifoSize characters.
KeysAreRead ==
  \A n \in 1 .. MaxTyped :
    (KeysRead + Len(fifo) >= n) ~> (KeysRead >= n \/ pc = "done")
=============================================================================
