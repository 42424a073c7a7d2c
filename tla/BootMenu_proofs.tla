--------------------------- MODULE BootMenu_proofs ---------------------------
(***************************************************************************)
(* Theorems about BootMenu, for every list of options, timeout, counter and *)
(* typist.                                                                  *)
(***************************************************************************)
EXTENDS BootMenu, TLAPS

\* What the loop needs to know of its choice: it is always an option.
ChoiceTypeOK ==
  /\ timeout_sec \in Nat
  /\ selected \in 0 .. NumOptions - 1
  /\ ups \in Nat /\ downs \in Nat /\ others \in Nat
  /\ choice \in -1 .. NumOptions - 1

LEMMA ClampedInRange ==
  ASSUME NEW s \in Int
  PROVE  Clamped(s) \in 0 .. NumOptions - 1
BY MenuAssumption DEF Clamped

\* TimeoutOnlyWithoutKeys is inductive once it says what it is for: a loop that
\* may time out has read no key.
KeyInv ==
  /\ ChoiceTypeOK
  /\ TimeoutOnlyWithoutKeys
  /\ pc # "done" => why = "none"
  /\ pc \in {"top", "poll", "done"}

LEMMA KeyInvInit == Init => KeyInv
BY MenuAssumption DEF Init, KeyInv, ChoiceTypeOK, TimeoutOnlyWithoutKeys, KeysRead

LEMMA KeyInvStep == KeyInv /\ [Next]_vars => KeyInv'
<1> SUFFICES ASSUME KeyInv, [Next]_vars PROVE KeyInv'
  OBVIOUS
<1> USE MenuAssumption DEF KeyInv, ChoiceTypeOK, TimeoutOnlyWithoutKeys, KeysRead
<1>1. CASE TimeOut
  BY <1>1 DEF TimeOut, Expired, keyVars, menuVars, readVars
<1>2. CASE CountDown
  BY <1>2 DEF CountDown, keyVars, readVars, endVars
<1>3. CASE NoKey
  BY <1>3 DEF NoKey, keyVars, menuVars, readVars, endVars
<1>4. ASSUME NEW k \in Chars, ReadKey(k) PROVE timeout_sec' = 0 /\ why = "none"
  BY <1>4 DEF ReadKey
<1>5. CASE Up
  <2>1. selected' \in 0 .. NumOptions - 1
    BY <1>5, ClampedInRange DEF Up
  <2> QED
    BY <1>4, <1>5, <2>1 DEF Up, Chars, endVars
<1>6. CASE Down
  <2>1. selected' \in 0 .. NumOptions - 1
    BY <1>6, ClampedInRange DEF Down
  <2> QED
    BY <1>4, <1>6, <2>1 DEF Down, Chars, endVars
<1>7. CASE Ignore
  <2>1. selected' \in 0 .. NumOptions - 1
    BY <1>7, ClampedInRange DEF Ignore
  <2> QED
    BY <1>4, <1>7, <2>1 DEF Ignore, Chars, endVars
<1>8. CASE Enter
  BY <1>4, <1>8 DEF Enter, Chars, readVars
<1>9. CASE Tick
  BY <1>9 DEF Tick, keyVars, menuVars, readVars, endVars
<1>10. CASE User
  BY <1>10 DEF User, Type, Arrive, Overrun, menuVars, readVars, endVars
<1>11. CASE UNCHANGED vars
  BY <1>11 DEF vars, keyVars, menuVars, readVars, endVars
<1> QED
  BY <1>1, <1>2, <1>3, <1>5, <1>6, <1>7, <1>8, <1>9, <1>10, <1>11 DEF Next, Menu

\* The user holds the menu: no timeout leaves it once a key has been read.
THEOREM UserHoldsMenu == Spec => []TimeoutOnlyWithoutKeys
<1>1. KeyInv => TimeoutOnlyWithoutKeys
  BY DEF KeyInv
<1> QED
  BY <1>1, KeyInvInit, KeyInvStep, PTL DEF Spec

\* The option the menu returns exists: the caller may index its list with it,
\* and its own range check is never needed.
ChoiceExists == why # "none" => choice \in 0 .. NumOptions - 1

ChoiceInv == KeyInv /\ ChoiceExists

THEOREM ChoiceIsAnOption == Spec => []ChoiceExists
<1>1. Init => ChoiceInv
  BY KeyInvInit DEF ChoiceInv, ChoiceExists, Init
<1>2. ChoiceInv /\ [Next]_vars => ChoiceInv'
  <2> SUFFICES ASSUME KeyInv, ChoiceExists, [Next]_vars PROVE ChoiceExists'
    BY KeyInvStep DEF ChoiceInv
  <2>1. CASE TimeOut
    BY <2>1, MenuAssumption DEF TimeOut, ChoiceExists
  <2>2. CASE Enter
    BY <2>2 DEF Enter, ChoiceExists, KeyInv, ChoiceTypeOK
  <2>3. CASE UNCHANGED endVars
    BY <2>3 DEF endVars, ChoiceExists
  <2> QED
    BY <2>1, <2>2, <2>3
    DEF Next, Menu, CountDown, NoKey, Up, Down, Ignore, Tick, User, Type, Arrive,
        Overrun, vars
<1> QED
  BY <1>1, <1>2, PTL DEF Spec, ChoiceInv

-----------------------------------------------------------------------------
(* The choice and the keys *)

\* A remainder is the only one in its range.
LEMMA RemainderUnique ==
  ASSUME NEW n \in Nat \ {0}, NEW q \in Int, NEW r \in 0 .. n - 1
  PROVE  (q * n + r) % n = r
<1> DEFINE x == q * n + r
           p == x \div n
           m == x % n
<1>1. x \in Int /\ p \in Int /\ m \in 0 .. n - 1 /\ x = p * n + m
  OBVIOUS
<1>2. (q - p) * n = m - r
  BY <1>1
<1> HIDE DEF p, m
<1>3. q - p \in Int
  BY <1>1
<1>4. q - p <= 0
  <2> SUFFICES ASSUME q - p >= 1 PROVE FALSE
    BY <1>3
  <2>1. (q - p) * n >= n
    BY <1>3
  <2> QED
    BY <1>1, <1>2, <2>1
<1>5. q - p >= 0
  <2> SUFFICES ASSUME q - p <= -1 PROVE FALSE
    BY <1>3
  <2>1. (q - p) * n <= -n
    BY <1>3
  <2> QED
    BY <1>1, <1>2, <2>1
<1>6. q - p = 0
  BY <1>3, <1>4, <1>5
<1>7. m = r
  BY <1>1, <1>2, <1>6
<1> QED
  BY <1>7 DEF m

\* One down moves the remainder one on, and past the last one to 0; one up moves
\* it back, and from 0 to the last one: what Clamped does to the selection.
LEMMA ClampedIsRemainder ==
  ASSUME NEW x \in Int, NEW s \in Int, s = x % NumOptions
  PROVE  /\ Clamped(s + 1) = (x + 1) % NumOptions
         /\ Clamped(s - 1) = (x - 1) % NumOptions
         /\ Clamped(s) = s
<1> DEFINE q == x \div NumOptions
<1>1. NumOptions \in Nat \ {0}
  BY MenuAssumption
<1>2. q \in Int /\ s \in 0 .. NumOptions - 1 /\ x = q * NumOptions + s
  BY <1>1
<1> HIDE DEF q
<1>3. Clamped(s + 1) = (x + 1) % NumOptions
  <2>1. CASE s + 1 = NumOptions
    <3>1. x + 1 = (q + 1) * NumOptions + 0
      BY <1>1, <1>2, <2>1
    <3>2. (q + 1) \in Int /\ 0 \in 0 .. NumOptions - 1
      BY <1>1, <1>2
    <3>3. ((q + 1) * NumOptions + 0) % NumOptions = 0
      BY <1>1, <3>2, RemainderUnique
    <3>4. (x + 1) % NumOptions = 0
      BY <3>1, <3>3
    <3> QED
      BY <1>1, <2>1, <3>4 DEF Clamped
  <2>2. CASE s + 1 < NumOptions
    <3>1. x + 1 = q * NumOptions + (s + 1)
      BY <1>1, <1>2
    <3>2. q \in Int /\ s + 1 \in 0 .. NumOptions - 1
      BY <1>1, <1>2, <2>2
    <3>3. (q * NumOptions + (s + 1)) % NumOptions = s + 1
      BY <1>1, <3>2, RemainderUnique
    <3>4. (x + 1) % NumOptions = s + 1
      BY <3>1, <3>3
    <3> QED
      BY <1>1, <1>2, <2>2, <3>4 DEF Clamped
  <2> QED
    BY <1>1, <1>2, <2>1, <2>2
<1>4. Clamped(s - 1) = (x - 1) % NumOptions
  <2>1. CASE s = 0
    <3>1. x - 1 = (q - 1) * NumOptions + (NumOptions - 1)
      BY <1>1, <1>2, <2>1
    <3>2. (q - 1) \in Int /\ NumOptions - 1 \in 0 .. NumOptions - 1
      BY <1>1, <1>2
    <3>3. ((q - 1) * NumOptions + (NumOptions - 1)) % NumOptions = NumOptions - 1
      BY <1>1, <3>2, RemainderUnique
    <3>4. (x - 1) % NumOptions = NumOptions - 1
      BY <3>1, <3>3
    <3> QED
      BY <1>1, <2>1, <3>4 DEF Clamped
  <2>2. CASE s > 0
    <3>1. x - 1 = q * NumOptions + (s - 1)
      BY <1>1, <1>2
    <3>2. q \in Int /\ s - 1 \in 0 .. NumOptions - 1
      BY <1>1, <1>2, <2>2
    <3>3. (q * NumOptions + (s - 1)) % NumOptions = s - 1
      BY <1>1, <3>2, RemainderUnique
    <3>4. (x - 1) % NumOptions = s - 1
      BY <3>1, <3>3
    <3> QED
      BY <1>1, <1>2, <2>2, <3>4 DEF Clamped
  <2> QED
    BY <1>2, <2>1, <2>2
<1>5. Clamped(s) = s
  BY <1>1, <1>2 DEF Clamped
<1> QED
  BY <1>3, <1>4, <1>5

\* ChoiceIsWhatWasTyped is inductive together with the types of what it adds up.
TypedInv == KeyInv /\ ChoiceIsWhatWasTyped

LEMMA TypedInvStep == TypedInv /\ [Next]_vars => TypedInv'
<1> SUFFICES ASSUME TypedInv, [Next]_vars PROVE ChoiceIsWhatWasTyped'
  BY KeyInvStep DEF TypedInv
<1>1. /\ ups \in Nat /\ downs \in Nat /\ selected \in Int /\ downs - ups \in Int
      /\ selected = (downs - ups) % NumOptions
      /\ pc # "done" => why = "none"
  BY MenuAssumption DEF TypedInv, KeyInv, ChoiceTypeOK, ChoiceIsWhatWasTyped
<1>2. CASE Up
  <2>1. ups' = ups + 1 /\ downs' = downs /\ selected' = Clamped(selected - 1)
        /\ why' = "none"
    BY <1>1, <1>2 DEF Up, ReadKey, endVars
  <2>2. selected' = ((downs - ups) - 1) % NumOptions
    BY <1>1, <2>1, ClampedIsRemainder
  <2>3. downs' - ups' = (downs - ups) - 1
    BY <1>1, <2>1
  <2> QED
    BY <2>1, <2>2, <2>3 DEF ChoiceIsWhatWasTyped
<1>3. CASE Down
  <2>1. ups' = ups /\ downs' = downs + 1 /\ selected' = Clamped(selected + 1)
        /\ why' = "none"
    BY <1>1, <1>3 DEF Down, ReadKey, endVars
  <2>2. selected' = ((downs - ups) + 1) % NumOptions
    BY <1>1, <2>1, ClampedIsRemainder
  <2>3. downs' - ups' = (downs - ups) + 1
    BY <1>1, <2>1
  <2> QED
    BY <2>1, <2>2, <2>3 DEF ChoiceIsWhatWasTyped
<1>4. CASE Ignore
  <2>1. ups' = ups /\ downs' = downs /\ selected' = Clamped(selected) /\ why' = "none"
    BY <1>1, <1>4 DEF Ignore, ReadKey, endVars
  <2>2. selected' = selected
    BY <1>1, <2>1, ClampedIsRemainder
  <2> QED
    BY <1>1, <2>1, <2>2 DEF ChoiceIsWhatWasTyped
<1>5. CASE Enter
  BY <1>1, <1>5 DEF Enter, readVars, ChoiceIsWhatWasTyped
<1>6. CASE TimeOut
  BY <1>1, <1>6 DEF TimeOut, menuVars, readVars, ChoiceIsWhatWasTyped
<1>7. CASE UNCHANGED <<selected, readVars, endVars>>
  BY <1>7 DEF readVars, endVars, TypedInv, ChoiceIsWhatWasTyped
<1> QED
  BY <1>2, <1>3, <1>4, <1>5, <1>6, <1>7
  DEF Next, Menu, CountDown, NoKey, Tick, User, Type, Arrive, Overrun, vars, menuVars

\* Whatever is typed and however often the selection goes round the list, Enter
\* returns the option that the w and s read add up to.
THEOREM ChoiceAddsUp == Spec => []ChoiceIsWhatWasTyped
<1>1. Init => TypedInv
  <2>1. (0 * NumOptions + 0) % NumOptions = 0
    BY MenuAssumption, RemainderUnique
  <2>2. 0 * NumOptions + 0 = 0
    BY MenuAssumption
  <2> QED
    BY <2>1, <2>2, KeyInvInit DEF Init, TypedInv, ChoiceIsWhatWasTyped
<1>2. TypedInv => ChoiceIsWhatWasTyped
  BY DEF TypedInv
<1> QED
  BY <1>1, <1>2, TypedInvStep, PTL DEF Spec

-----------------------------------------------------------------------------
(* The timeout and the clock *)

\* Time that shows on the clock has really passed, until the bound of now.
ClockInv ==
  /\ count \in 0 .. CounterMod - 1 /\ start \in 0 .. CounterMod - 1
  /\ now \in 0 .. MaxNow
  /\ now = MaxNow \/ clock(count) - clock(start) <= now

\* The bound of now leaves room for the timeout.
EnoughTime == MaxNow >= TimeoutSec * TicksPerSec

LEMMA ClockIsInt ==
  ASSUME NEW c \in 0 .. CounterMod - 1
  PROVE  clock(c) \in Int
BY MenuAssumption DEF clock, ClockSource, Signed

\* A counter that counts up advances the clock by at most one, also when it
\* wraps or turns negative.
LEMMA ClockStep ==
  ASSUME ClockSource # "systick", NEW c \in 0 .. CounterMod - 1
  PROVE  clock((c + 1) % CounterMod) <= clock(c) + 1
<1>1. (c + 1) % CounterMod = IF c + 1 = CounterMod THEN 0 ELSE c + 1
  BY MenuAssumption
<1>2. Signed((c + 1) % CounterMod) <= Signed(c) + 1
  BY <1>1, MenuAssumption DEF Signed
<1> QED
  BY <1>2 DEF clock, ClockSource

LEMMA QuotientReached ==
  ASSUME NEW d \in Nat, NEW t \in Nat \ {0}, NEW s \in Nat, d \div t >= s
  PROVE  d >= s * t
<1> DEFINE q == d \div t
<1>1. q \in Nat /\ q >= s /\ d >= q * t
  OBVIOUS
<1> HIDE DEF q
<1>2. q * t >= s * t
  BY <1>1
<1> QED
  BY <1>1, <1>2

TimeInv == KeyInv /\ ClockInv /\ TimeoutNotEarly /\ timeout_sec \in {0, TimeoutSec}

LEMMA TimeInvStep ==
  ASSUME ClockSource # "systick", EnoughTime, TimeInv, [Next]_vars
  PROVE  TimeInv'
<1>1. KeyInv'
  BY KeyInvStep DEF TimeInv
<1>2. ClockInv'
  <2>1. CASE Tick
    <3>1. clock(count') <= clock(count) + 1 /\ clock(count') \in Int
          /\ clock(count) \in Int /\ clock(start) \in Int
          /\ count' \in 0 .. CounterMod - 1
      <4>1. count' \in 0 .. CounterMod - 1
        BY <2>1, MenuAssumption DEF Tick, TimeInv, ClockInv
      <4>2. clock(count') <= clock(count) + 1
        BY <2>1, ClockStep DEF Tick, TimeInv, ClockInv
      <4> QED
        BY <4>1, <4>2, ClockIsInt DEF TimeInv, ClockInv
    <3>2. now' \in 0 .. MaxNow /\ (now' = now + 1 \/ now' = MaxNow) /\ start' = start
      BY <2>1, MenuAssumption DEF Tick, TimeInv, ClockInv
    <3>3. clock(count)' = clock(count') /\ clock(start)' = clock(start)
      BY <3>2 DEF clock, Signed
    <3>4. now = MaxNow => now' = MaxNow
      BY <2>1, MenuAssumption DEF Tick
    <3> QED
      BY <3>1, <3>2, <3>3, <3>4, MenuAssumption DEF TimeInv, ClockInv
  <2>2. CASE UNCHANGED <<count, start, now>>
    BY <2>2 DEF TimeInv, ClockInv, clock, Signed
  <2> QED
    BY <2>1, <2>2 DEF Next, Menu, TimeOut, CountDown, NoKey, Up, Down, Ignore, Enter,
                      ReadKey, User, Type, Arrive, Overrun, vars, clockVars
<1>3. TimeoutNotEarly'
  <2>1. CASE TimeOut
    <3>1. timeout_sec = TimeoutSec /\ TimeoutSec > 0 /\ ElapsedSec >= TimeoutSec
      BY <2>1, MenuAssumption DEF TimeOut, Expired, TimeInv
    <3> DEFINE d == clock(count) - clock(start)
    <3>2. d \in Int
      BY ClockIsInt DEF TimeInv, ClockInv
    <3>3. d >= 0 /\ d \div TicksPerSec >= TimeoutSec
      <4>1. ElapsedSec = IF d >= 0 THEN d \div TicksPerSec
                         ELSE -((-d) \div TicksPerSec)
        BY DEF ElapsedSec
      <4> HIDE DEF d
      <4>2. CASE d >= 0
        BY <3>1, <4>1, <4>2
      <4>3. CASE d < 0
        <5>1. (-d) \div TicksPerSec \in Nat
          BY <3>2, <4>3, MenuAssumption
        <5> QED
          BY <3>1, <3>2, <4>1, <4>3, <5>1, MenuAssumption
      <4> QED
        BY <3>2, <4>2, <4>3
    <3>4. d >= TimeoutSec * TicksPerSec
      BY <3>2, <3>3, QuotientReached, MenuAssumption
    <3>5. TimeoutSec * TicksPerSec \in Nat
      BY MenuAssumption
    <3>6. now >= TimeoutSec * TicksPerSec
      BY <3>2, <3>4, <3>5, MenuAssumption DEF TimeInv, ClockInv, EnoughTime
    <3> QED
      BY <2>1, <3>6 DEF TimeOut, TimeoutNotEarly, clockVars
  <2>2. CASE Tick
    <3>1. now' >= now /\ why' = why
      BY <2>2, MenuAssumption DEF Tick, endVars, TimeInv, ClockInv
    <3>2. TimeoutSec * TicksPerSec \in Nat /\ now \in Nat /\ now' \in Nat
      BY <1>2, MenuAssumption DEF TimeInv, ClockInv
    <3> QED
      BY <3>1, <3>2 DEF TimeoutNotEarly, TimeInv
  <2>3. CASE Enter
    BY <2>3 DEF Enter, TimeoutNotEarly
  <2>4. CASE UNCHANGED <<now, why>>
    BY <2>4 DEF TimeoutNotEarly, TimeInv
  <2> QED
    BY <2>1, <2>2, <2>3, <2>4
    DEF Next, Menu, CountDown, NoKey, Up, Down, Ignore, ReadKey, User, Type, Arrive,
        Overrun, vars, clockVars, endVars
<1>4. timeout_sec' \in {0, TimeoutSec}
  BY DEF TimeInv, Next, Menu, TimeOut, CountDown, NoKey, Up, Down, Ignore, Enter,
         ReadKey, Tick, User, Type, Arrive, Overrun, vars, menuVars
<1> QED
  BY <1>1, <1>2, <1>3, <1>4 DEF TimeInv

\* Wherever a counter that counts up starts and whenever it wraps, the menu
\* never times out before the timeout has really passed.
THEOREM TimeoutIsNeverEarly ==
  (ClockSource # "systick" /\ EnoughTime) => (Spec => []TimeoutNotEarly)
<1> SUFFICES ASSUME ClockSource # "systick", EnoughTime
             PROVE  Spec => []TimeoutNotEarly
  OBVIOUS
<1>1. Init => TimeInv
  <2> SUFFICES ASSUME Init PROVE TimeInv
    OBVIOUS
  <2>1. KeyInv
    BY KeyInvInit
  <2>2. clock(count) = clock(start) /\ clock(start) \in Int
    BY ClockIsInt, MenuAssumption DEF Init
  <2> QED
    BY <2>1, <2>2, MenuAssumption DEF Init, TimeInv, ClockInv, TimeoutNotEarly
<1>2. TimeInv /\ [Next]_vars => TimeInv'
  BY TimeInvStep
<1>3. TimeInv => TimeoutNotEarly
  BY DEF TimeInv
<1> QED
  BY <1>1, <1>2, <1>3, PTL DEF Spec
-----------------------------------------------------------------------------
(* Types *)

\* A quotient rounded towards zero is an integer, on whichever side it is.
LEMMA ElapsedIsInt ==
  ASSUME count \in 0 .. CounterMod - 1, start \in 0 .. CounterMod - 1
  PROVE  ElapsedSec \in Int
<1> DEFINE d == clock(count) - clock(start)
<1>1. d \in Int
  BY ClockIsInt
<1>2. ElapsedSec = IF d >= 0 THEN d \div TicksPerSec ELSE -((-d) \div TicksPerSec)
  BY DEF ElapsedSec
<1> HIDE DEF d
<1>3. d \div TicksPerSec \in Int /\ -((-d) \div TicksPerSec) \in Int
  BY <1>1, MenuAssumption
<1> QED
  BY <1>2, <1>3

LEMMA TypeStep == TypeOK /\ [Next]_vars => TypeOK'
<1> SUFFICES ASSUME TypeOK, [Next]_vars PROVE TypeOK'
  OBVIOUS
<1> USE MenuAssumption DEF TypeOK
<1>1. CASE TimeOut
  BY <1>1 DEF TimeOut, clockVars, keyVars, menuVars, readVars
<1>2. CASE CountDown
  <2>1. ElapsedSec \in Int
    BY ElapsedIsInt
  <2> QED
    BY <1>2, <2>1 DEF CountDown, keyVars, readVars, endVars
<1>3. CASE NoKey
  BY <1>3 DEF NoKey, clockVars, keyVars, menuVars, readVars, endVars
<1>4. ASSUME NEW k \in Chars, ReadKey(k)
      PROVE  /\ fifo' \in Seq(Chars) /\ Len(fifo') <= FifoSize /\ timeout_sec' = 0
             /\ UNCHANGED <<count, start, lag, now, line, typed, last_printed_sec>>
  BY <1>4 DEF ReadKey, has_char, clockVars
<1>5. /\ Clamped(selected - 1) \in 0 .. NumOptions - 1
      /\ Clamped(selected) \in 0 .. NumOptions - 1
      /\ Clamped(selected + 1) \in 0 .. NumOptions - 1
  <2>1. selected - 1 \in Int /\ selected \in Int /\ selected + 1 \in Int
    OBVIOUS
  <2> QED
    BY <2>1, ClampedInRange
<1>6. CASE Up
  BY <1>4, <1>5, <1>6 DEF Up, Chars, endVars
<1>7. CASE Down
  BY <1>4, <1>5, <1>7 DEF Down, Chars, endVars
<1>8. CASE Ignore
  BY <1>4, <1>5, <1>8 DEF Ignore, Chars, endVars
<1>9. CASE Enter
  BY <1>4, <1>9 DEF Enter, Chars, readVars
<1>10. CASE Tick
  BY <1>10 DEF Tick, keyVars, menuVars, readVars, endVars
<1>11. CASE User
  <2>1. ASSUME NEW k \in KeysPressed, Type(k) PROVE TypeOK'
    <3>1. Sent(k) \in Seq(Chars)
      <4>1. k \in Keys /\ "other" \in Chars
        BY KeysAssumption DEF Chars
      <4>2. k \notin Arrows => k \in Chars
        BY <4>1 DEF Keys
      <4> QED BY <4>1, <4>2 DEF Sent
    <3>2. line' = line \o Sent(k) /\ typed' = typed + 1
      BY <2>1 DEF Type
    <3>3. line' \in Seq(Chars) /\ typed' \in Nat
      BY <3>1, <3>2
    <3> QED
      BY <2>1, <3>3 DEF Type, clockVars, menuVars, readVars, endVars
  <2>2. CASE Arrive
    <3>1. /\ line' \in Seq(Chars) /\ fifo' \in Seq(Chars)
          /\ Len(fifo') <= FifoSize
      BY <2>2 DEF Arrive
    <3> QED
      BY <2>2, <3>1 DEF Arrive, clockVars, menuVars, readVars, endVars
  <2>3. CASE Overrun
    <3>1. line' \in Seq(Chars) /\ Head(line) \in Chars
      BY <2>3 DEF Overrun
    <3>2. fifo' \in Seq(Chars) /\ Len(fifo') = Len(fifo)
      BY <2>3, <3>1 DEF Overrun
    <3> QED
      BY <2>3, <3>1, <3>2 DEF Overrun, clockVars, menuVars, readVars, endVars
  <2> QED
    BY <1>11, <2>1, <2>2, <2>3 DEF User
<1>12. CASE UNCHANGED vars
  BY <1>12 DEF vars, clockVars, keyVars, menuVars, readVars, endVars
<1> QED
  BY <1>1, <1>2, <1>3, <1>6, <1>7, <1>8, <1>9, <1>10, <1>11, <1>12 DEF Next, Menu

LEMMA TypeInit == Init => TypeOK
<1> SUFFICES ASSUME Init PROVE TypeOK
  OBVIOUS
<1>1. line \in Seq(Chars) /\ fifo \in Seq(Chars) /\ Len(fifo) <= FifoSize
  BY MenuAssumption DEF Init
<1> QED
  BY <1>1, MenuAssumption DEF Init, TypeOK

\* The menu's variables keep their types: the selection stays on the list, the
\* receiver holds no more than it can, and the counter stays in its width.
THEOREM MenuTypeCorrect == Spec => []TypeOK
<1>1. Init => TypeOK
  BY TypeInit
<1> QED
  BY <1>1, TypeStep, PTL DEF Spec

-----------------------------------------------------------------------------
(* The timeout is not late *)

\* Short of the wrap, a counter that counts up takes the clock along.
LEMMA ClockAdvances ==
  ASSUME ClockSource = "counter", NEW c \in 0 .. CounterMod - 1,
         clock(c) + 1 < CounterMod \div 2
  PROVE  clock((c + 1) % CounterMod) = clock(c) + 1
<1>1. (c + 1) % CounterMod = IF c + 1 = CounterMod THEN 0 ELSE c + 1
  BY MenuAssumption
<1>2. clock(c) = Signed(c)
  BY DEF clock
<1>3. Signed((c + 1) % CounterMod) = Signed(c) + 1
  BY <1>1, <1>2, MenuAssumption DEF Signed
<1> QED
  BY <1>2, <1>3 DEF clock

\* A clock that has not come to the timeout shows fewer ticks than it has.
LEMMA NotYetReached ==
  ASSUME NEW d \in Nat, NEW t \in Nat \ {0}, NEW s \in Nat, d \div t < s
  PROVE  d < s * t
<1> DEFINE q == d \div t
<1>1. q \in Nat /\ q + 1 <= s /\ d < (q + 1) * t
  OBVIOUS
<1> HIDE DEF q
<1>2. (q + 1) * t <= s * t
  BY <1>1
<1> QED
  BY <1>1, <1>2

\* While the countdown is on, the clock shows the time that has passed, and when it
\* was last read the timeout was still to come.
Waiting == TimeoutSec > 0 /\ KeysRead = 0 /\ DueBeforeWrap
OnTheClock == clock(count) - clock(start)
CountdownInv ==
  /\ pc # "done" /\ KeysRead = 0 => timeout_sec = TimeoutSec
  /\ Waiting => /\ now <= OnTheClock /\ lag <= OnTheClock
                /\ OnTheClock - lag < TimeoutSec * TicksPerSec

LateInv == KeyInv /\ TypeOK /\ CountdownInv

LEMMA CountdownTick ==
  ASSUME ClockSource = "counter", LateInv, Tick
  PROVE  CountdownInv'
<1> DEFINE d == OnTheClock  due == TimeoutSec * TicksPerSec
<1>1. /\ count' = (count + 1) % CounterMod /\ start' = start /\ lag' = lag + 1
      /\ now' <= now + 1 /\ lag < LoopTicks
      /\ UNCHANGED <<timeout_sec, ups, downs, others>>
  BY MenuAssumption DEF Tick, menuVars, readVars, LateInv, TypeOK
<1>2. KeysRead' = KeysRead /\ (Waiting' <=> Waiting)
  BY <1>1 DEF KeysRead, Waiting, DueBeforeWrap, clock, Signed
<1>3. ASSUME Waiting
      PROVE  now' <= d' /\ lag' <= d' /\ d' - lag' < due
  <2>1. /\ clock(count) \in Int /\ clock(start) \in Int /\ due \in Nat
        /\ lag \in Nat /\ now \in Nat /\ now' \in Nat /\ LoopTicks \in Nat
    BY <1>1, ClockIsInt, MenuAssumption DEF LateInv, TypeOK, Tick
  <2>2. now <= d /\ lag <= d /\ d - lag < due
    BY <1>3 DEF LateInv, CountdownInv
  <2>3. clock(start) + due + LoopTicks < CounterMod \div 2
    BY <1>3 DEF Waiting, DueBeforeWrap
  <2>4. CounterMod \div 2 \in Nat
    BY MenuAssumption
  <2>5. clock(count) + 1 < CounterMod \div 2
    <3> HIDE DEF due
    <3> QED
      BY <1>1, <2>1, <2>2, <2>3, <2>4 DEF OnTheClock
  <2>6. clock(count') = clock(count) + 1 /\ clock(start') = clock(start)
    BY <1>1, <2>5, ClockAdvances DEF LateInv, TypeOK
  <2>7. clock(count)' = clock(count') /\ clock(start)' = clock(start')
    BY DEF clock, Signed
  <2>8. d' = d + 1
    BY <2>1, <2>6, <2>7 DEF OnTheClock
  <2>9. d \in Int
    BY <2>1 DEF OnTheClock
  <2> HIDE DEF due, d
  <2> QED
    BY <1>1, <2>1, <2>2, <2>8, <2>9
<1>4. pc # "done" /\ pc' # "done" /\ KeysRead' = 0 => timeout_sec' = TimeoutSec
  BY <1>1, <1>2 DEF LateInv, CountdownInv, Tick
<1>5. Waiting => /\ now' <= OnTheClock' /\ lag' <= OnTheClock'
                 /\ OnTheClock' - lag' < due
  BY <1>3
<1>6. pc # "done"
  BY DEF Tick
<1> QED
  BY <1>2, <1>4, <1>5, <1>6 DEF CountdownInv

\* The loop goes on only if the clock has not come to the timeout.
LEMMA CountdownRead ==
  ASSUME ClockSource = "counter", LateInv, CountDown
  PROVE  CountdownInv'
<1> DEFINE d == OnTheClock  due == TimeoutSec * TicksPerSec
<1>1. /\ ~Expired /\ lag' = 0
      /\ UNCHANGED <<count, start, now, timeout_sec, ups, downs, others>>
  BY DEF CountDown, readVars
<1>2. KeysRead' = KeysRead /\ (Waiting' <=> Waiting) /\ OnTheClock' = OnTheClock
  BY <1>1 DEF KeysRead, Waiting, DueBeforeWrap, OnTheClock, clock, Signed
<1>3. ASSUME Waiting PROVE now <= d /\ 0 <= d /\ d < due
  <2>1. d \in Int /\ lag \in Nat /\ now \in Nat
    BY ClockIsInt DEF LateInv, TypeOK, OnTheClock
  <2>2. now <= d /\ lag <= d
    BY <1>3 DEF LateInv, CountdownInv
  <2>3. d \in Nat
    BY <2>1, <2>2
  <2>4. ElapsedSec = d \div TicksPerSec
    BY <2>3 DEF ElapsedSec, OnTheClock
  <2>5. timeout_sec = TimeoutSec /\ TimeoutSec > 0
    BY <1>3 DEF LateInv, CountdownInv, Waiting, CountDown
  <2> HIDE DEF d
  <2>6. d \div TicksPerSec \in Int
    BY <2>3, MenuAssumption
  <2>7. d \div TicksPerSec < TimeoutSec
    BY <1>1, <2>4, <2>5, <2>6, MenuAssumption DEF Expired
  <2>8. d < due
    BY <2>3, <2>7, NotYetReached, MenuAssumption
  <2> QED
    BY <2>2, <2>3, <2>8
<1>4. KeysRead = 0 => timeout_sec = TimeoutSec
  BY DEF LateInv, CountdownInv, CountDown
<1>5. d \in Int
  BY ClockIsInt DEF LateInv, TypeOK, OnTheClock
<1>6. Waiting => now' <= d /\ lag' <= d /\ d - lag' < due
  <2> HIDE DEF d, due
  <2> QED
    BY <1>1, <1>3, <1>5
<1> QED
  BY <1>1, <1>2, <1>4, <1>6 DEF CountdownInv

LEMMA LateInvStep ==
  ASSUME ClockSource = "counter", LateInv, [Next]_vars PROVE LateInv'
<1>1. KeyInv' /\ TypeOK'
  BY KeyInvStep, TypeStep DEF LateInv
<1>2. CASE Up \/ Down \/ Ignore
  <2>1. ups \in Nat /\ downs \in Nat /\ others \in Nat
    BY DEF LateInv, TypeOK
  <2>2. KeysRead' = KeysRead + 1
    BY <1>2, <2>1 DEF Up, Down, Ignore, KeysRead
  <2>3. KeysRead' # 0
    BY <2>1, <2>2 DEF KeysRead
  <2> QED
    BY <1>1, <2>3 DEF LateInv, CountdownInv, Waiting
<1>3. CASE TimeOut \/ NoKey \/ Enter \/ User
  <2>1. /\ UNCHANGED <<count, start, lag, now, ups, downs, others>>
        /\ pc' # "done" => pc # "done" /\ timeout_sec' = timeout_sec
    BY <1>3 DEF TimeOut, NoKey, Enter, ReadKey, User, Type, Arrive, Overrun, clockVars,
                menuVars, readVars
  <2> QED
    BY <1>1, <2>1 DEF LateInv, CountdownInv, Waiting, OnTheClock, KeysRead, DueBeforeWrap,
                      clock, Signed
<1>4. CASE UNCHANGED vars
  BY <1>1, <1>4 DEF vars, clockVars, menuVars, readVars, LateInv, CountdownInv, Waiting,
                    OnTheClock, KeysRead, DueBeforeWrap, clock, Signed
<1> QED
  BY <1>1, <1>2, <1>3, <1>4, CountdownTick, CountdownRead DEF Next, Menu, LateInv


LEMMA LateInvInit == ASSUME Init PROVE LateInv
<1>1. KeyInv /\ TypeOK
  BY KeyInvInit, TypeInit
<1>2. OnTheClock = 0
  <2>1. clock(start) \in Int /\ count = start
    BY <1>1, ClockIsInt DEF Init, TypeOK
  <2> QED
    BY <2>1 DEF OnTheClock
<1>3. \A s, t \in Nat \ {0} : 0 < s * t
  OBVIOUS
<1>4. TimeoutSec > 0 => 0 < TimeoutSec * TicksPerSec
  BY <1>3, MenuAssumption
<1> QED
  BY <1>1, <1>2, <1>4, MenuAssumption DEF Init, LateInv, CountdownInv, Waiting

\* On a counter that counts up, the timeout is not late: until a key is read, less
\* real time passes than the timeout and one turn of the loop, if the counter does
\* not turn negative before that.
THEOREM TimeoutIsNeverLate ==
  ClockSource = "counter" => (Spec => []TimeoutNotLate)
<1> SUFFICES ASSUME ClockSource = "counter" PROVE Spec => []TimeoutNotLate
  OBVIOUS
<1>1. LateInv => TimeoutNotLate
  <2> SUFFICES ASSUME LateInv, Waiting
               PROVE  now < TimeoutSec * TicksPerSec + LoopTicks
    BY DEF TimeoutNotLate, Waiting
  <2> DEFINE d == OnTheClock  due == TimeoutSec * TicksPerSec
  <2>1. d \in Int /\ due \in Nat /\ lag \in 0 .. LoopTicks /\ now \in Nat
        /\ LoopTicks \in Nat
    BY ClockIsInt, MenuAssumption DEF LateInv, TypeOK, OnTheClock
  <2>2. now <= d /\ d - lag < due
    BY DEF LateInv, CountdownInv
  <2> HIDE DEF d, due
  <2>3. now < due + LoopTicks
    BY <2>1, <2>2
  <2> QED
    BY <2>3 DEF due
<1> QED
  BY <1>1, LateInvInit, LateInvStep, PTL DEF Spec

\* On a counter that counts up, the timeout is the time the user is given, up to one
\* turn of the loop.
THEOREM TimeoutIsOnTime ==
  (ClockSource = "counter" /\ EnoughTime) => (Spec => []TimeoutOnTime)
<1> SUFFICES ASSUME ClockSource = "counter", EnoughTime
             PROVE  Spec => []TimeoutOnTime
  OBVIOUS
<1>1. Spec => []TimeoutNotEarly
  BY TimeoutIsNeverEarly
<1>2. Spec => []TimeoutNotLate
  BY TimeoutIsNeverLate
<1>3. TimeoutNotEarly /\ TimeoutNotLate => TimeoutOnTime
  BY DEF TimeoutOnTime
<1> QED
  BY <1>1, <1>2, <1>3, PTL

-----------------------------------------------------------------------------
(* Targets on which the timeout never comes *)

\* The counter runs through all its values within a second, or nothing counts.
NoSecondPasses == ClockSource = "none" \/ CounterMod <= TicksPerSec

SilentInv ==
  /\ count \in 0 .. CounterMod - 1 /\ start \in 0 .. CounterMod - 1
  /\ timeout_sec \in Nat /\ why # "timeout"

\* Two values the clock can have are less than a second apart.
LEMMA ClockWithinSecond ==
  ASSUME NoSecondPasses,
         NEW c \in 0 .. CounterMod - 1, NEW f \in 0 .. CounterMod - 1
  PROVE  clock(c) - clock(f) \in Int /\ clock(c) - clock(f) < TicksPerSec
<1>1. CASE ClockSource = "none"
  <2>1. clock(c) = 0 /\ clock(f) = 0
    BY <1>1, Zenon DEF clock
  <2> QED BY <2>1, MenuAssumption
<1>2. CASE ClockSource = "counter" /\ CounterMod <= TicksPerSec
  <2>1. clock(c) = Signed(c) /\ clock(f) = Signed(f)
    BY <1>2, Zenon DEF clock
  <2>2. Signed(c) - Signed(f) \in Int /\ Signed(c) - Signed(f) < CounterMod
    BY MenuAssumption DEF Signed
  <2> QED BY <1>2, <2>1, <2>2, MenuAssumption
<1>3. CASE ClockSource = "systick" /\ CounterMod <= TicksPerSec
  <2>1. clock(c) = CounterMod - 1 - c /\ clock(f) = CounterMod - 1 - f
    BY <1>3, Zenon DEF clock
  <2> QED BY <1>3, <2>1, MenuAssumption
<1>4. ClockSource \in {"none", "counter", "systick"}
  BY Zenon DEF ClockSource
<1> QED
  BY <1>1, <1>2, <1>3, <1>4 DEF NoSecondPasses

LEMMA NeverExpired == NoSecondPasses /\ SilentInv => ~Expired
<1> SUFFICES ASSUME NoSecondPasses, SilentInv PROVE ~Expired
  OBVIOUS
<1> DEFINE d == clock(count) - clock(start)
<1>1. d \in Int /\ d < TicksPerSec
  BY ClockWithinSecond DEF SilentInv
<1>2. ElapsedSec = IF d >= 0 THEN d \div TicksPerSec ELSE -((-d) \div TicksPerSec)
  BY DEF ElapsedSec
<1> HIDE DEF d
<1>3. ElapsedSec <= 0
  <2>1. CASE d >= 0
    <3>1. d \div TicksPerSec = 0
      BY <1>1, <2>1, MenuAssumption
    <3> QED BY <1>2, <2>1, <3>1
  <2>2. CASE ~(d >= 0)
    <3>1. (-d) \div TicksPerSec \in Nat
      BY <1>1, <2>2, MenuAssumption
    <3> QED BY <1>2, <2>2, <3>1
  <2> QED BY <2>1, <2>2
<1>4. ElapsedSec \in Int
  <2>1. d \div TicksPerSec \in Int /\ (-d) \div TicksPerSec \in Int
    BY <1>1, MenuAssumption
  <2> QED BY <1>2, <2>1
<1> QED
  BY <1>3, <1>4 DEF Expired, SilentInv

\* On the RP2040, whose SysTick counts 2^24 ticks of 1/125000000 s, and on the ESP32,
\* which has no counter, show_menu never times out, however long it waits and whatever
\* is typed: an unattended machine stays in the menu.
THEOREM NarrowCounterNeverFires == NoSecondPasses => (Spec => [](why # "timeout"))
<1> SUFFICES ASSUME NoSecondPasses PROVE Spec => [](why # "timeout")
  OBVIOUS
<1>1. Init => SilentInv
  BY MenuAssumption DEF Init, SilentInv
<1>2. SilentInv /\ [Next]_vars => SilentInv'
  <2> SUFFICES ASSUME SilentInv, [Next]_vars PROVE SilentInv'
    OBVIOUS
  <2>1. ~TimeOut
    BY NeverExpired DEF TimeOut
  <2>2. CASE Tick
    <3>1. (count + 1) % CounterMod \in 0 .. CounterMod - 1
      BY MenuAssumption DEF SilentInv
    <3> QED BY <2>2, <3>1 DEF Tick, SilentInv, menuVars, endVars
  <2>3. CASE CountDown \/ NoKey \/ Up \/ Down \/ Ignore \/ Enter
    BY <2>3 DEF CountDown, NoKey, Up, Down, Ignore, Enter, ReadKey, SilentInv, clockVars,
                menuVars, endVars
  <2>4. CASE User \/ UNCHANGED vars
    BY <2>4 DEF User, Type, Arrive, Overrun, vars, SilentInv, clockVars, menuVars, endVars
  <2> QED
    BY <2>1, <2>2, <2>3, <2>4 DEF Next, Menu
<1>3. SilentInv => why # "timeout"
  BY DEF SilentInv
<1> QED
  BY <1>1, <1>2, <1>3, PTL DEF Spec

\* On the ESP32 show_menu has neither a clock nor a branch that reads the UART: it
\* never returns and no key is ever read, whatever is typed and however long it waits.
THEOREM DeafMenuNeverEnds ==
  Arch = "esp32" => (Spec => [](pc # "done" /\ KeysRead = 0))
<1> SUFFICES ASSUME Arch = "esp32" PROVE Spec => [](pc # "done" /\ KeysRead = 0)
  OBVIOUS
<1> DEFINE Deaf == SilentInv /\ pc # "done" /\ KeysRead = 0
<1>1. NoSecondPasses /\ ~has_char
  BY Zenon DEF NoSecondPasses, ClockSource, has_char, PollsUart
<1>2. Init => Deaf
  BY MenuAssumption DEF Init, SilentInv, KeysRead
<1>3. Deaf /\ [Next]_vars => Deaf'
  <2> SUFFICES ASSUME Deaf, [Next]_vars PROVE Deaf'
    OBVIOUS
  <2>1. ~TimeOut
    BY <1>1, NeverExpired DEF TimeOut
  <2>2. ~Up /\ ~Down /\ ~Ignore /\ ~Enter
    BY <1>1 DEF Up, Down, Ignore, Enter, ReadKey
  <2>3. CASE Tick
    <3>1. (count + 1) % CounterMod \in 0 .. CounterMod - 1
      BY MenuAssumption DEF SilentInv
    <3> QED BY <2>3, <3>1 DEF Tick, SilentInv, KeysRead, menuVars, readVars, endVars
  <2>4. CASE CountDown \/ NoKey
    BY <2>4 DEF CountDown, NoKey, SilentInv, KeysRead, clockVars, menuVars, readVars,
                endVars
  <2>5. CASE User \/ UNCHANGED vars
    BY <2>5 DEF User, Type, Arrive, Overrun, vars, SilentInv, KeysRead, clockVars,
                menuVars, readVars, endVars
  <2> QED
    BY <2>1, <2>2, <2>3, <2>4, <2>5 DEF Next, Menu
<1>4. Deaf => pc # "done" /\ KeysRead = 0
  OBVIOUS
<1> QED
  BY <1>2, <1>3, <1>4, PTL DEF Spec

=============================================================================
