----------------------------- MODULE SoftFloat ------------------------------
(***************************************************************************)
(* The double-precision arithmetic of compat/compat.c, which the compiler   *)
(* calls on the 32-bit RISC-V target for every Sage number: conversions     *)
(* from and to integers and singles, comparisons, sums, products and        *)
(* quotients.  A Sage number is a double, so every address, size and counter *)
(* of the boot loader goes through these functions.                         *)
(*                                                                         *)
(* A double is the three fields of its bits.  The widths are parameters: a   *)
(* small format has the same borders as the real one.  Exact values are      *)
(* integers, counted in units of the least subnormal.                       *)
(***************************************************************************)
EXTENDS Integers, Sequences

CONSTANTS
  MantBits, ExpBits,       \* the fields of a double: 52, 11
  SingleMant, SingleExp,   \* of a single: 23, 8
  IntBits, LongBits,       \* the widths of int and int64_t: 32, 64
  LimbBits,                \* the halves __muldf3 multiplies by: 32
  Doubles                  \* the doubles the functions are called with

Hidden == 2 ^ MantBits
MaxExp == 2 ^ ExpBits - 1
Bias == 2 ^ (ExpBits - 1) - 1
Double == [s : {0, 1}, e : 0 .. MaxExp, m : 0 .. Hidden - 1]

SingleMaxExp == 2 ^ SingleExp - 1
SingleBias == 2 ^ (SingleExp - 1) - 1
Single == [s : {0, 1}, e : 0 .. SingleMaxExp, m : 0 .. 2 ^ SingleMant - 1]

Ints == -(2 ^ (IntBits - 1)) .. 2 ^ (IntBits - 1) - 1
Longs == -(2 ^ (LongBits - 1)) .. 2 ^ (LongBits - 1) - 1
UInts == 0 .. 2 ^ IntBits - 1
ULongs == 0 .. 2 ^ LongBits - 1

ASSUME FormatAssumption ==
  /\ {MantBits, ExpBits, SingleMant, SingleExp, IntBits, LongBits, LimbBits}
       \subseteq Nat \ {0}
  /\ IntBits <= MantBits /\ MantBits < LongBits
  /\ SingleMant < MantBits /\ SingleExp < ExpBits
  /\ LimbBits <= MantBits /\ MantBits + 2 <= 2 * LimbBits
  /\ MantBits < Bias
  /\ Doubles \subseteq Double

\* The widest integer is a finite double.
ASSUME IntegersAssumption == LongBits <= Bias + 1

VARIABLES
  op,       \* the function called last, or "none"
  args,     \* its arguments
  result    \* what it returned

vars == <<op, args, result>>

-----------------------------------------------------------------------------
(* Bits *)

Zero(s) == [s |-> s, e |-> 0, m |-> 0]
Inf(s) == [s |-> s, e |-> MaxExp, m |-> 0]
QuietNan == [s |-> 0, e |-> MaxExp, m |-> Hidden \div 2]

df_isnan(x) == x.e = MaxExp /\ x.m # 0
df_isinf(x) == x.e = MaxExp /\ x.m = 0
df_iszero(x) == x.e = 0 /\ x.m = 0

Xor(s, t) == (s + t) % 2
\* The bits below the sign, as the number comparisons take them for.
Bits(x) == x.e * Hidden + x.m

\* The mantissa with the hidden bit, always or of normal numbers only.
WithHidden(x) == Hidden + x.m
Significand(x) == IF x.e = 0 THEN x.m ELSE WithHidden(x)

\* m >> k in 64 bits.  A shift by 64 or more is undefined: what is left depends
\* on the instructions the compiler chose for it.
WordBits == 2 * LimbBits
ShiftedRight(m, k) ==
  IF k < WordBits THEN {m \div 2 ^ k} ELSE {m \div 2 ^ j : j \in 0 .. WordBits}

\* The number of the highest bit set, what the loops over leading zeros count.
TopBit(v) == CHOOSE k \in 0 .. WordBits + LongBits : 2 ^ k <= v /\ v < 2 ^ (k + 1)

\* The end of every operation: overflow is infinite, and below the least normal
\* exponent the mantissa is shifted out.
Packed(s, exp, m) ==
  IF exp >= MaxExp THEN {Inf(s)}
  ELSE IF exp <= 0
       THEN {[s |-> s, e |-> 0, m |-> k % Hidden] : k \in ShiftedRight(m, 1 - exp)}
       ELSE {[s |-> s, e |-> exp, m |-> m % Hidden]}

-----------------------------------------------------------------------------
(* Conversions *)

\* __floatsidf, __floatunsidf, __floatdidf, __floatundidf: sign and magnitude.
FromInteger(n) ==
  LET v == IF n < 0 THEN -n ELSE n
      exp == TopBit(v)
      fraction == IF exp <= MantBits THEN (v - 2 ^ exp) * 2 ^ (MantBits - exp)
                  ELSE (v - 2 ^ exp) \div 2 ^ (exp - MantBits)
  IN  IF n = 0 THEN Zero(0)
      ELSE [s |-> IF n < 0 THEN 1 ELSE 0, e |-> exp + Bias, m |-> fraction % Hidden]

Exponent(x) == x.e - Bias

\* mant << (exp - 52) or mant >> (52 - exp)
Magnitude(x) ==
  IF Exponent(x) > MantBits THEN WithHidden(x) * 2 ^ (Exponent(x) - MantBits)
  ELSE WithHidden(x) \div 2 ^ (MantBits - Exponent(x))

\* An unsigned value below 2^bits taken for a signed one, and its negation.
AsSigned(v, bits) == IF v < 2 ^ (bits - 1) THEN v ELSE v - 2 ^ bits
Negated(v, bits) == IF v = -(2 ^ (bits - 1)) THEN v ELSE -v

\* Fault: the saturation is one exponent late.
FaultToSigned(x, bits) ==
  IF Exponent(x) < 0 THEN 0
  ELSE IF Exponent(x) > bits
       THEN IF x.s = 0 THEN 2 ^ (bits - 1) - 1 ELSE -(2 ^ (bits - 1))
       ELSE LET v == AsSigned(Magnitude(x) % 2 ^ (bits - 1), bits)
            IN  IF x.s = 0 THEN v ELSE Negated(v, bits)

\* __fixdfsi and __fixdfdi.
ToSigned(x, bits) ==
  IF Exponent(x) < 0 THEN 0
  ELSE IF Exponent(x) > bits - 1
       THEN IF x.s = 0 THEN 2 ^ (bits - 1) - 1 ELSE -(2 ^ (bits - 1))
       ELSE LET v == AsSigned(Magnitude(x), bits)
            IN  IF x.s = 0 THEN v ELSE Negated(v, bits)

\* Fault: the saturation is one exponent late.
FaultToUnsigned(x, bits) ==
  IF x.s = 1 \/ Bits(x) <= Bias * Hidden THEN 0
  ELSE IF Exponent(x) > bits THEN 2 ^ bits - 1
       ELSE Magnitude(x)

\* __fixunsdfsi and __fixunsdfdi: 1.0 and everything below it give 0.
ToUnsigned(x, bits) ==
  IF x.s = 1 \/ Bits(x) <= Bias * Hidden THEN 0
  ELSE IF Exponent(x) > bits - 1 THEN 2 ^ bits - 1
       ELSE Magnitude(x)

\* __extendsfdf2: a subnormal single becomes zero.
Extended(f) ==
  IF f.e = SingleMaxExp
  THEN IF f.m # 0 THEN [QuietNan EXCEPT !.s = f.s] ELSE Inf(f.s)
  ELSE IF f.e = 0 THEN Zero(f.s)
       ELSE [s |-> f.s, e |-> f.e - SingleBias + Bias,
             m |-> f.m * 2 ^ (MantBits - SingleMant)]

\* __truncdfsf2: bits that do not fit are cut off.
Truncated(x) ==
  LET newexp == x.e - Bias + SingleBias
      SingleInf == [s |-> x.s, e |-> SingleMaxExp, m |-> 0]
  IN  IF df_isnan(x)
      THEN [s |-> 0, e |-> SingleMaxExp, m |-> 2 ^ (SingleMant - 1)]
      ELSE IF df_isinf(x) \/ (~df_iszero(x) /\ newexp >= SingleMaxExp) THEN SingleInf
      ELSE IF newexp <= 0 THEN [s |-> x.s, e |-> 0, m |-> 0]
      ELSE [s |-> x.s, e |-> newexp, m |-> x.m \div 2 ^ (MantBits - SingleMant)]

-----------------------------------------------------------------------------
(* Comparisons *)

Unordered(x, y) == df_isnan(x) \/ df_isnan(y)

\* Fault: the exponents alone are compared.
FaultOrder(x, y) ==
  IF x.s # y.s THEN y.s - x.s
  ELSE IF x.e > y.e THEN 1 ELSE IF x.e = y.e THEN 0 ELSE -1

\* sb - sa for different signs, and else the order of the bits.
Order(x, y) ==
  IF x.s # y.s THEN y.s - x.s
  ELSE IF Bits(x) > Bits(y) THEN 1 ELSE IF Bits(x) = Bits(y) THEN 0 ELSE -1

eqdf2(x, y) == IF Unordered(x, y) \/ x # y THEN 1 ELSE 0
nedf2(x, y) == IF Unordered(x, y) \/ x # y THEN 1 ELSE 0
gtdf2(x, y) == IF Unordered(x, y) THEN 0 ELSE Order(x, y)
gedf2(x, y) == IF Unordered(x, y) \/ gtdf2(x, y) < 0 THEN -1 ELSE 1

\* For different signs __ltdf2 returns sa - sb.
ltdf2(x, y) ==
  IF Unordered(x, y) THEN 1
  ELSE IF x.s # y.s THEN x.s - y.s ELSE Order(x, y)
ledf2(x, y) == IF Unordered(x, y) \/ ltdf2(x, y) > 0 THEN 1 ELSE -1
unorddf2(x, y) == IF Unordered(x, y) THEN 1 ELSE 0

-----------------------------------------------------------------------------
(* Arithmetic *)

\* The operand with the larger exponent, or mantissa, first; a subnormal has the
\* exponent of the least normal.
AddExp(x) == IF x.e = 0 THEN 1 ELSE x.e
Smaller(x, y) ==
  \/ AddExp(x) < AddExp(y)
  \/ AddExp(x) = AddExp(y) /\ Significand(x) < Significand(y)

\* The carry of two mantissas moves them down by a bit.
SumOf(s, exp, m) == IF m >= 2 * Hidden THEN Packed(s, exp + 1, m \div 2)
                    ELSE Packed(s, exp, m)

\* Fault: the difference is moved up without counting down the exponent.
FaultDifferenceOf(s, exp, m) ==
  IF m = 0 THEN {Zero(0)}
  ELSE Packed(s, exp, m * 2 ^ (MantBits - TopBit(m)) - Hidden)

\* A difference is moved up until the hidden bit is set, which is then removed,
\* before the exponent is looked at.
DifferenceOf(s, exp, m) ==
  IF m = 0 THEN {Zero(0)}
  ELSE LET up == MantBits - TopBit(m)
       IN  Packed(s, exp - up, m * 2 ^ up - Hidden)

\* Two finite numbers, the first not Smaller; k is the mantissa of the second
\* moved to the exponent of the first, which cuts off its low bits.
Aligned(x, y) == ShiftedRight(Significand(y), AddExp(x) - AddExp(y))
Distance(p, q) == IF p < q THEN q - p ELSE p - q
FiniteSums(x, y) ==
  UNION {IF x.s = y.s THEN SumOf(x.s, AddExp(x), Significand(x) + k)
         ELSE DifferenceOf(x.s, AddExp(x), Distance(Significand(x), k)) :
           k \in Aligned(x, y)}

adddf3(x, y) ==
  IF df_isnan(x) THEN {x}
  ELSE IF df_isnan(y) \/ df_iszero(x) THEN {y}
  ELSE IF df_iszero(y) THEN {x}
  ELSE IF df_isinf(x) THEN IF df_isinf(y) /\ x # y THEN {QuietNan} ELSE {x}
  ELSE IF df_isinf(y) THEN {y}
  ELSE IF Smaller(x, y) THEN FiniteSums(y, x) ELSE FiniteSums(x, y)

subdf3(x, y) == adddf3(x, [y EXCEPT !.s = 1 - y.s])

\* The 128-bit product of __muldf3, from four products of halves.  mid holds the
\* high halves of p01 and p10, and hi adds them once more.
Half == 2 ^ LimbBits
ProductWords(m, n) ==
  LET p00 == (m % Half) * (n % Half)
      p01 == (m % Half) * (n \div Half)
      p10 == (m \div Half) * (n % Half)
      p11 == (m \div Half) * (n \div Half)
      mid == p01 + p10 + p00 \div Half
  IN  [hi |-> p11 + p01 \div Half + p10 \div Half + mid \div Half,
       lo |-> (mid % Half) * Half + (p00 % Half)]

\* The mantissa is taken from its top bit down.  What is added to the exponent is
\* the number of bits cut off, which the exponent's bias already accounts for.
FiniteProducts(x, y) ==
  LET p == ProductWords(WithHidden(x), WithHidden(y))
      top == (p.hi \div 2 ^ (2 * MantBits + 1 - WordBits)) % 2
      exp_adj == MantBits + top
      mant == p.hi * 2 ^ (WordBits - exp_adj) + p.lo \div 2 ^ exp_adj
  IN  Packed(Xor(x.s, y.s), x.e + y.e - Bias + exp_adj, mant)

muldf3(x, y) ==
  LET s == Xor(x.s, y.s) IN
  IF df_isnan(x) THEN {x}
  ELSE IF df_isnan(y) THEN {y}
  ELSE IF df_isinf(x) \/ df_isinf(y)
       THEN IF df_iszero(x) \/ df_iszero(y) THEN {QuietNan} ELSE {Inf(s)}
  ELSE IF df_iszero(x) \/ df_iszero(y) THEN {Zero(s)}
  ELSE FiniteProducts(x, y)

\* A turn of the loop of __divdf3: the divisor is taken off the remainder where it
\* fits.  The remainder outgrows its word when the divisor is subnormal.
DivisionTurn(at, n) ==
  IF at.rv >= n THEN [q |-> 2 * at.q + 1, rv |-> (2 * (at.rv - n)) % 2 ^ WordBits]
  ELSE [q |-> 2 * at.q, rv |-> (2 * at.rv) % 2 ^ WordBits]

LongDivision(m, n) ==
  LET step[k \in 0 .. MantBits + 1] ==
        IF k = 0 THEN [q |-> 0, rv |-> m] ELSE DivisionTurn(step[k - 1], n)
  IN  step[MantBits + 1].q

FiniteQuotients(x, y) ==
  LET ma == Significand(x)
      mb == Significand(y)
      s == Xor(x.s, y.s)
      exp == x.e - y.e + Bias
  IN  IF ma < mb THEN Packed(s, exp - 1, LongDivision(2 * ma, mb))
      ELSE Packed(s, exp, LongDivision(ma, mb))

divdf3(x, y) ==
  LET s == Xor(x.s, y.s) IN
  IF df_isnan(x) THEN {x}
  ELSE IF df_isnan(y) THEN {y}
  ELSE IF (df_isinf(x) /\ df_isinf(y)) \/ (df_iszero(x) /\ df_iszero(y)) THEN {QuietNan}
  ELSE IF df_iszero(x) \/ df_isinf(y) THEN {Zero(s)}
  ELSE IF df_isinf(x) \/ df_iszero(y) THEN {Inf(s)}
  ELSE FiniteQuotients(x, y)

-----------------------------------------------------------------------------
(* Calls *)

Return(f, a, r) == op' = f /\ args' = a /\ result' = r

Convert ==
  /\ op = "none"
  /\ \/ \E n \in Ints : Return("floatsidf", <<n>>, FromInteger(n))
     \/ \E n \in UInts : Return("floatunsidf", <<n>>, FromInteger(n))
     \/ \E n \in Longs : Return("floatdidf", <<n>>, FromInteger(n))
     \/ \E n \in ULongs : Return("floatundidf", <<n>>, FromInteger(n))
     \/ \E x \in Double :
          \/ Return("fixdfsi", <<x>>, ToSigned(x, IntBits))
          \/ Return("fixdfdi", <<x>>, ToSigned(x, LongBits))
          \/ Return("fixunsdfsi", <<x>>, ToUnsigned(x, IntBits))
          \/ Return("fixunsdfdi", <<x>>, ToUnsigned(x, LongBits))
          \/ Return("truncdfsf2", <<x>>, Truncated(x))
     \/ \E f \in Single : Return("extendsfdf2", <<f>>, Extended(f))

Compare ==
  op = "none" /\ \E x, y \in Doubles :
    \/ Return("eqdf2", <<x, y>>, eqdf2(x, y))
    \/ Return("nedf2", <<x, y>>, nedf2(x, y))
    \/ Return("gtdf2", <<x, y>>, gtdf2(x, y))
    \/ Return("gedf2", <<x, y>>, gedf2(x, y))
    \/ Return("ltdf2", <<x, y>>, ltdf2(x, y))
    \/ Return("ledf2", <<x, y>>, ledf2(x, y))
    \/ Return("unorddf2", <<x, y>>, unorddf2(x, y))

Calculate ==
  op = "none" /\ \E x, y \in Doubles :
    \/ \E r \in adddf3(x, y) : Return("adddf3", <<x, y>>, r)
    \/ \E r \in subdf3(x, y) : Return("subdf3", <<x, y>>, r)
    \/ \E r \in muldf3(x, y) : Return("muldf3", <<x, y>>, r)
    \/ \E r \in divdf3(x, y) : Return("divdf3", <<x, y>>, r)

Init == op = "none" /\ args = <<>> /\ result = 0

Next == Convert \/ Compare \/ Calculate

Spec == Init /\ [][Next]_vars

-----------------------------------------------------------------------------
(* Exact values *)

\* 1.0, and any finite double, in units of the least subnormal.
One == 2 ^ (Bias + MantBits - 1)
Val(x) ==
  LET v == Significand(x) * 2 ^ (AddExp(x) - 1) IN IF x.s = 0 THEN v ELSE -v

Abs(v) == IF v < 0 THEN -v ELSE v
Finite(x) == x.e # MaxExp
Normal(x) == Finite(x) /\ x.e # 0
Ulp(x) == 2 ^ (AddExp(x) - 1)

\* v rounded towards zero to a multiple of One, as an integer.
Whole(v) == IF v < 0 THEN -(Abs(v) \div One) ELSE v \div One

\* The integers of up to MantBits + 1 bits, which a double holds without a gap.
SafeInteger(x) == Finite(x) /\ Val(x) % One = 0 /\ Abs(Val(x)) < 2 * Hidden * One

-----------------------------------------------------------------------------
(* Properties *)

\* Type correctness: every function returns a value of its type, whatever bits it
\* is given.
TypeOK ==
  /\ op \in {"floatsidf", "floatunsidf", "floatdidf", "floatundidf",
            "adddf3", "subdf3", "muldf3", "divdf3", "extendsfdf2"} => result \in Double
  /\ op = "truncdfsf2" => result \in Single
  /\ op = "fixdfsi" => result \in Ints
  /\ op = "fixdfdi" => result \in Longs
  /\ op = "fixunsdfsi" => result \in UInts
  /\ op = "fixunsdfdi" => result \in ULongs

\* An integer that a double can hold survives the way there and back: every int,
\* every unsigned but 1, which comes back as 0, and every wider integer of up to
\* MantBits + 1 bits.  A wider integer keeps its first MantBits + 1 bits, and so
\* loses less than one part in Hidden.
IntegersReturn ==
  /\ op = "floatsidf" => ToSigned(result, IntBits) = args[1]
  /\ op = "floatunsidf" =>
       ToUnsigned(result, IntBits) = IF args[1] = 1 THEN 0 ELSE args[1]
  /\ op = "floatdidf" =>
       LET back == ToSigned(result, LongBits) IN
       IF Abs(args[1]) <= 2 * Hidden THEN back = args[1]
       ELSE /\ Abs(back) <= Abs(args[1])
            /\ Abs(args[1] - back) * Hidden < Abs(args[1])

\* A whole number in a signed type of 2 * top values: it wraps around when it is too
\* large by less than a factor of two, and is cut to the range of the type beyond.
InSigned(w, top) ==
  IF w \in -top .. top - 1 THEN w
  ELSE IF Abs(w) < 2 * top THEN IF w < 0 THEN w + 2 * top ELSE w - 2 * top
  ELSE IF w < 0 THEN -top ELSE top - 1

\* Every double, infinities and NaN by their bits, becomes its whole part, taken into
\* the signed type by InSigned.  In an unsigned type 1.0 and what is below it become
\* 0, and what is too large the greatest integer.
ConversionsTruncate ==
  LET w == Whole(Val(args[1])) IN
  /\ op = "fixdfsi" => result = InSigned(w, 2 ^ (IntBits - 1))
  /\ op = "fixdfdi" => result = InSigned(w, 2 ^ (LongBits - 1))
  /\ \A f \in {<<"fixunsdfsi", IntBits>>, <<"fixunsdfdi", LongBits>>} :
       op = f[1] => result = IF Val(args[1]) <= One THEN 0
                             ELSE IF w < 2 ^ f[2] THEN w ELSE 2 ^ f[2] - 1

\* Sage's integers live in doubles and pass through int and int64_t: what becomes of
\* each on either way.  One that fits is kept, save an unsigned 1; one that does not
\* is wrapped around or cut.
IntegersSurvive == IntegersReturn /\ ConversionsTruncate

\* Address arithmetic is exact: the sum and the difference of integers of up to
\* MantBits + 1 bits lose nothing, whichever operand is larger.
IntegerSumsExact ==
  (op \in {"adddf3", "subdf3"} /\ SafeInteger(args[1]) /\ SafeInteger(args[2])) =>
    LET exact == Val(args[1]) + (IF op = "adddf3" THEN 1 ELSE -1) * Val(args[2])
    IN  Abs(exact) <= 2 * Hidden * One =>
          Val(result) = exact

\* Any sum or difference of normal numbers that is a normal number is less than a
\* unit in the last place off, of the result or of the larger operand.  (Where a
\* shift is undefined, so is the sum.)
SumsAreClose ==
  (/\ op \in {"adddf3", "subdf3"}
   /\ Normal(args[1]) /\ Normal(args[2]) /\ Normal(result)
   /\ Abs(args[1].e - args[2].e) < WordBits) =>
    LET exact == Val(args[1]) + (IF op = "adddf3" THEN 1 ELSE -1) * Val(args[2])
        error == Abs(Val(result) - exact)
    IN  \E x \in {result, args[1], args[2]} : error < Ulp(x)

\* The quotient of normal numbers, where it is one, is cut off after its last bit:
\* size / 4 and the number of clusters are never too large.
QuotientTruncated ==
  (op = "divdf3" /\ Normal(args[1]) /\ Normal(args[2]) /\ Normal(result)) =>
    LET a == Abs(Val(args[1]))
        d == Abs(Val(args[2]))
        r == Abs(Val(result))
    IN  /\ r * d <= a * One
        /\ (r + Ulp(result)) * d > a * One
        /\ result.s = Xor(args[1].s, args[2].s)

\* Sums of integers are exact, other sums are off by less than their last bit, and
\* quotients are cut off after it: no carry, borrow or bit of the loops is lost.
ArithmeticHolds == IntegerSumsExact /\ SumsAreClose /\ QuotientTruncated

Comparisons == {"eqdf2", "nedf2", "gtdf2", "gedf2", "ltdf2", "ledf2"}

\* Whether the result r of function f says that the comparison holds, and what the
\* comparison of v with w is.
Holds(f, r) ==
  CASE f = "eqdf2" -> r = 0
    [] f = "nedf2" -> r # 0
    [] f = "gtdf2" -> r > 0
    [] f = "gedf2" -> r >= 0
    [] f = "ltdf2" -> r < 0
    [] f = "ledf2" -> r <= 0
Means(f, v, w) ==
  CASE f = "eqdf2" -> v = w
    [] f = "nedf2" -> v # w
    [] f = "gtdf2" -> v > w
    [] f = "gedf2" -> v >= w
    [] f = "ltdf2" -> v < w
    [] f = "ledf2" -> v <= w

\* The values in their order, with -0 right below 0.
Standing(x) == 2 * Val(x) - x.s

\* The order is turned round: by > and >= between two negative numbers, by < and <=
\* as soon as one is negative.
Reversed(f, x, y) ==
  \/ f \in {"gtdf2", "gedf2"} /\ x.s = 1 /\ y.s = 1
  \/ f \in {"ltdf2", "ledf2"} /\ (x.s = 1 \/ y.s = 1)

\* Every comparison of two doubles is that of their values, two zeros of different
\* signs being different, or the reverse of it where Reversed says so; none but !=
\* holds of NaN.
Agrees(f, x, y, r) ==
  Holds(f, r) <=> IF Unordered(x, y) THEN f = "nedf2"
                  ELSE IF Reversed(f, x, y) THEN Means(f, Standing(y), Standing(x))
                  ELSE Means(f, Standing(x), Standing(y))
ComparisonsAgree == op \in Comparisons => Agrees(op, args[1], args[2], result)

\* The product of two integers, where a double can hold it, is exact.
IntegerProductsExact ==
  (op = "muldf3" /\ SafeInteger(args[1]) /\ SafeInteger(args[2])) =>
    LET exact == Whole(Val(args[1])) * Val(args[2])
    IN  Abs(exact) <= 2 * Hidden * One =>
          Val(result) = exact
=============================================================================
