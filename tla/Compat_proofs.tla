--------------------------- MODULE Compat_proofs ----------------------------
(***************************************************************************)
(* Proofs about compat/compat.c: SoftFloat, for doubles and integers of every *)
(* width, and Console, for every call, every width of int, whatever is typed  *)
(* and a UART of any speed.  Both rest on the same facts about powers and     *)
(* quotients.                                                              *)
(***************************************************************************)
EXTENDS SoftFloat, Console, FiniteSetTheorems, FunctionTheorems,
        SequenceTheorems, WellFoundedInduction, TLAPS

-----------------------------------------------------------------------------
(* Powers of two, from the number of subsets a finite set has *)

LEMMA SubsetsOfInterval ==
  ASSUME NEW n \in Nat
  PROVE  /\ IsFiniteSet(SUBSET (1 .. n))
         /\ Cardinality(SUBSET (1 .. n)) = 2 ^ n
  <1>1. IsFiniteSet(1 .. n) /\ Cardinality(1 .. n) = n
    BY FS_Interval
  <1> QED BY <1>1, FS_SUBSET

LEMMA PowerIsNat == ASSUME NEW n \in Nat PROVE 2 ^ n \in Nat /\ 2 ^ n >= 1
  <1>1. 2 ^ n \in Nat
    BY SubsetsOfInterval, FS_CardinalityType
  <1>2. SUBSET (1 .. n) # {}
    OBVIOUS
  <1>3. 2 ^ n # 0
    BY <1>2, SubsetsOfInterval, FS_EmptySet
  <1> QED BY <1>1, <1>3

LEMMA PowerDoubles == ASSUME NEW n \in Nat PROVE 2 ^ (n + 1) = 2 * 2 ^ n
  <1> DEFINE Old == SUBSET (1 .. n)
             New == {T \union {n + 1} : T \in Old}
  <1>1. n + 1 \in Nat /\ 1 .. n + 1 = (1 .. n) \union {n + 1} /\ n + 1 \notin 1 .. n
    OBVIOUS
  <1>2. SUBSET (1 .. n + 1) = Old \union New
    <2>1. ASSUME NEW U \in SUBSET (1 .. n + 1) PROVE U \in Old \union New
      <3>1. CASE n + 1 \notin U
        BY <1>1, <3>1
      <3>2. CASE n + 1 \in U
        <4>1. U \ {n + 1} \in Old /\ U = (U \ {n + 1}) \union {n + 1}
          BY <1>1, <3>2
        <4> QED BY <4>1, Zenon
      <3> QED BY <3>1, <3>2
    <2>2. Old \union New \subseteq SUBSET (1 .. n + 1)
      BY <1>1
    <2> QED BY <2>1, <2>2
  <1>3. Old \intersect New = {}
    BY <1>1
  <1>4. ExistsBijection(Old, New)
    <2> DEFINE f == [T \in Old |-> T \union {n + 1}]
    <2>1. f \in [Old -> New]
      BY Zenon
    <2>2. ASSUME NEW T \in Old, NEW U \in Old, f[T] = f[U] PROVE T = U
      <3>1. T \union {n + 1} = U \union {n + 1} /\ n + 1 \notin T /\ n + 1 \notin U
        BY <1>1, <2>2
      <3> QED BY <3>1
    <2>3. f \in Injection(Old, New)
      BY <2>1, <2>2, Fun_IsInj, Zenon
    <2>4. f \in Surjection(Old, New)
      BY <2>1, Zenon DEF Surjection
    <2>5. f \in Bijection(Old, New)
      BY <2>3, <2>4 DEF Bijection
    <2> QED BY <2>5, Zenon DEF ExistsBijection
  <1>5. IsFiniteSet(Old) /\ Cardinality(Old) = 2 ^ n
    BY SubsetsOfInterval
  <1>6. IsFiniteSet(New) /\ Cardinality(New) = 2 ^ n
    BY <1>4, <1>5, FS_Bijection
  <1>7. Cardinality(SUBSET (1 .. n + 1)) = 2 ^ (n + 1)
    BY <1>1, SubsetsOfInterval
  <1> HIDE DEF Old, New
  <1>8. Cardinality(Old \union New)
          = Cardinality(Old) + Cardinality(New) - Cardinality(Old \intersect New)
    BY <1>5, <1>6, FS_Union
  <1>9. Cardinality(Old \intersect New) = 0
    BY <1>3, FS_EmptySet
  <1>10. 2 ^ (n + 1) = 2 ^ n + 2 ^ n - 0
    BY <1>2, <1>5, <1>6, <1>7, <1>8, <1>9
  <1>11. 2 ^ n \in Nat
    BY PowerIsNat
  <1> QED BY <1>10, <1>11

\* Induction over a set of naturals, from the well-foundedness of <.
LEMMA LeastExists ==
  ASSUME NEW T, T \subseteq Nat, T # {}
  PROVE  \E x \in T : \A y \in T : ~(y < x)
  <1>1. \A x, y \in Nat : <<y, x>> \in OpToRel(<, Nat) <=> y < x
    BY Zenon DEF OpToRel
  <1>2. \E x \in T : \A y \in T : ~(<<y, x>> \in OpToRel(<, Nat))
    BY NatLessThanWellFounded, WFMin
  <1> QED BY <1>1, <1>2, Zenon

LEMMA NatSetInduction ==
  ASSUME NEW S, 0 \in S, \A n \in Nat : n \in S => n + 1 \in S
  PROVE  Nat \subseteq S
  <1>1. SUFFICES ASSUME Nat \ S # {} PROVE FALSE
    OBVIOUS
  <1>2. PICK x \in Nat \ S : \A y \in Nat \ S : ~(y < x)
    BY <1>1, LeastExists
  <1>3. x # 0 /\ x \in Nat
    BY <1>2
  <1>4. x - 1 \in Nat /\ x - 1 < x /\ (x - 1) + 1 = x
    BY <1>3
  <1>5. x - 1 \in S
    BY <1>2, <1>4
  <1> QED BY <1>2, <1>4, <1>5

LEMMA PowerAdds ==
  ASSUME NEW a \in Nat, NEW b \in Nat
  PROVE  2 ^ (a + b) = 2 ^ a * 2 ^ b
  <1> DEFINE S == {k \in Nat : 2 ^ (a + k) = 2 ^ a * 2 ^ k}
  <1>1. 0 \in S
    <2>1. 2 ^ 0 = 1 /\ a + 0 = a
      OBVIOUS
    <2>2. 2 ^ a * 1 = 2 ^ a
      BY PowerIsNat
    <2> QED BY <2>1, <2>2
  <1>2. ASSUME NEW k \in Nat, k \in S PROVE k + 1 \in S
    <2>1. (a + k) + 1 = a + (k + 1) /\ a + k \in Nat
      OBVIOUS
    <2>2. 2 ^ (a + (k + 1)) = 2 * 2 ^ (a + k) /\ 2 ^ (k + 1) = 2 * 2 ^ k
      BY <2>1, PowerDoubles
    <2>3. 2 ^ (a + k) = 2 ^ a * 2 ^ k
      BY <1>2
    <2>4. \A p, q \in Nat : 2 * (p * q) = p * (2 * q)
      OBVIOUS
    <2>5. 2 ^ (a + (k + 1)) = 2 ^ a * 2 ^ (k + 1)
      BY <2>2, <2>3, <2>4, PowerIsNat
    <2> QED BY <2>5
  <1> HIDE DEF S
  <1>3. b \in S
    BY <1>1, <1>2, NatSetInduction
  <1> QED BY <1>3 DEF S

\* A longer word holds more, by a factor of two at least.
LEMMA PowerGrows ==
  ASSUME NEW a \in Nat, NEW b \in Nat
  PROVE  /\ a <= b => 2 ^ a <= 2 ^ b
         /\ a < b => 2 * 2 ^ a <= 2 ^ b
  <1>1. \A p, q \in Nat : q >= 1 => p <= p * q
    OBVIOUS
  <1>2. ASSUME NEW c \in Nat, NEW d \in Nat PROVE 2 ^ c <= 2 ^ (c + d)
    <2>1. 2 ^ c \in Nat /\ 2 ^ d \in Nat /\ 2 ^ d >= 1
      BY PowerIsNat
    <2>2. 2 ^ (c + d) = 2 ^ c * 2 ^ d
      BY PowerAdds
    <2> QED BY <1>1, <2>1, <2>2, Zenon
  <1>3. ASSUME a <= b PROVE 2 ^ a <= 2 ^ b
    <2>1. b - a \in Nat /\ a + (b - a) = b
      BY <1>3
    <2> QED BY <1>2, <2>1
  <1>4. ASSUME a < b PROVE 2 * 2 ^ a <= 2 ^ b
    <2>1. b - (a + 1) \in Nat /\ (a + 1) + (b - (a + 1)) = b /\ a + 1 \in Nat
      BY <1>4
    <2>2. 2 ^ (a + 1) <= 2 ^ b
      BY <1>2, <2>1
    <2> QED BY <2>2, PowerDoubles
  <1> QED BY <1>3, <1>4

LEMMA PowerSplits ==
  ASSUME NEW a \in Nat, NEW b \in Nat, a <= b
  PROVE  /\ b - a \in Nat /\ 2 ^ (b - a) \in Nat /\ 2 ^ (b - a) >= 1
         /\ 2 ^ b = 2 ^ a * 2 ^ (b - a)
  <1> DEFINE c == b - a
  <1>1. c \in Nat /\ a + c = b
    OBVIOUS
  <1> HIDE DEF c
  <1>2. 2 ^ (a + c) = 2 ^ a * 2 ^ c
    BY <1>1, PowerAdds
  <1>3. 2 ^ b = 2 ^ a * 2 ^ c /\ 2 ^ c \in Nat /\ 2 ^ c >= 1
    BY <1>1, <1>2, PowerIsNat
  <1> QED BY <1>1, <1>3 DEF c

-----------------------------------------------------------------------------
(* The fields of a double, and its value *)

LEMMA WidthFacts ==
  /\ MantBits \in Nat /\ MantBits >= 1
  /\ ExpBits \in Nat /\ ExpBits >= 2
  /\ IntBits \in Nat /\ IntBits >= 1 /\ IntBits <= MantBits
  /\ LongBits \in Nat /\ MantBits < LongBits
  BY FormatAssumption

LEMMA FormatFacts ==
  /\ Hidden \in Nat /\ Hidden >= 2
  /\ Bias \in Nat /\ Bias >= 1
  /\ MaxExp = 2 * Bias + 1
  <1>1. 2 ^ 0 = 1
    OBVIOUS
  <1>2. 2 ^ MantBits \in Nat /\ 2 * 2 ^ 0 <= 2 ^ MantBits
    BY WidthFacts, PowerIsNat, PowerGrows
  <1>3. ExpBits - 1 \in Nat /\ 0 < ExpBits - 1 /\ (ExpBits - 1) + 1 = ExpBits
    BY WidthFacts
  <1>4. 2 ^ (ExpBits - 1) \in Nat /\ 2 * 2 ^ 0 <= 2 ^ (ExpBits - 1)
    BY <1>3, PowerIsNat, PowerGrows
  <1>5. 2 ^ ExpBits = 2 * 2 ^ (ExpBits - 1)
    BY <1>3, PowerDoubles
  <1> QED BY <1>1, <1>2, <1>4, <1>5 DEF Hidden, Bias, MaxExp

\* The value without its sign.
Size(x) == Significand(x) * 2 ^ (AddExp(x) - 1)

LEMMA DoubleFacts ==
  ASSUME NEW x \in Double
  PROVE  /\ x.s \in {0, 1}
         /\ x.e \in Nat /\ x.e <= MaxExp
         /\ x.m \in Nat /\ x.m < Hidden
         /\ x = [s |-> x.s, e |-> x.e, m |-> x.m]
  BY FormatFacts DEF Double

LEMMA SizeFacts ==
  ASSUME NEW x \in Double
  PROVE  /\ Significand(x) \in Nat /\ Significand(x) < 2 * Hidden
         /\ AddExp(x) - 1 \in Nat
         /\ 2 ^ (AddExp(x) - 1) \in Nat /\ 2 ^ (AddExp(x) - 1) >= 1
         /\ Size(x) \in Nat
         /\ Size(x) = 0 <=> df_iszero(x)
         /\ Val(x) = IF x.s = 0 THEN Size(x) ELSE -Size(x)
  <1>1. /\ Significand(x) \in Nat /\ Significand(x) < 2 * Hidden
        /\ Significand(x) = 0 <=> df_iszero(x)
        /\ AddExp(x) - 1 \in Nat
    BY DoubleFacts, FormatFacts DEF Significand, WithHidden, AddExp, df_iszero
  <1>2. 2 ^ (AddExp(x) - 1) \in Nat /\ 2 ^ (AddExp(x) - 1) >= 1
    BY <1>1, PowerIsNat
  <1>3. \A p, q \in Nat : q >= 1 => p * q \in Nat /\ (p * q = 0 <=> p = 0)
    OBVIOUS
  <1>4. Size(x) \in Nat /\ (Size(x) = 0 <=> Significand(x) = 0)
    BY <1>1, <1>2, <1>3, Zenon DEF Size
  <1>5. Val(x) = IF x.s = 0 THEN Size(x) ELSE -Size(x)
    BY Zenon DEF Val, Size
  <1> QED BY <1>1, <1>2, <1>4, <1>5

\* The bits of a double, read as an integer, are ordered as its size is: a larger
\* exponent outweighs every mantissa, subnormal numbers included.
LEMMA SizeOrder ==
  ASSUME NEW x \in Double, NEW y \in Double, Bits(x) < Bits(y)
  PROVE  Size(x) < Size(y)
  <1> DEFINE P == 2 ^ (AddExp(x) - 1)
             Q == 2 ^ (AddExp(y) - 1)
  <1>1. P \in Nat /\ Q \in Nat /\ P >= 1 /\ Q >= 1
    BY SizeFacts
  <1>2. CASE x.e = y.e
    <2>1. P = Q /\ Significand(x) < Significand(y)
      <3>1. x.m < y.m
        BY <1>2, DoubleFacts, FormatFacts DEF Bits
      <3> QED BY <1>2, <3>1, DoubleFacts, FormatFacts
              DEF AddExp, Significand, WithHidden
    <2>2. \A p, q, r \in Nat : p < q /\ r >= 1 => p * r < q * r
      OBVIOUS
    <2> HIDE DEF P, Q
    <2>3. Significand(x) * P < Significand(y) * Q
      BY <1>1, <2>1, <2>2, SizeFacts
    <2> QED BY <2>3 DEF P, Q, Size
  <1>3. CASE x.e < y.e
    <2>1. AddExp(y) = y.e /\ Significand(y) = Hidden + y.m
      BY <1>3, DoubleFacts DEF AddExp, Significand, WithHidden
    <2>2. Significand(y) >= Hidden /\ Hidden \in Nat
      BY <2>1, DoubleFacts, FormatFacts
    <2>3. CASE x.e = 0
      <3>1. P = 1 /\ Significand(x) < Hidden
        BY <2>3, DoubleFacts DEF AddExp, Significand
      <3>2. \A a, h, c, q \in Nat : a < h /\ h <= c /\ q >= 1 => a * 1 < c * q
        OBVIOUS
      <3> HIDE DEF P, Q
      <3>3. Significand(x) * P < Significand(y) * Q
        BY <1>1, <2>2, <3>1, <3>2, SizeFacts
      <3> QED BY <3>3 DEF P, Q, Size
    <2>4. CASE x.e # 0
      <3>1. 2 * P <= Q
        <4>1. AddExp(x) - 1 < AddExp(y) - 1
          BY <1>3, <2>1, <2>4, DoubleFacts DEF AddExp
        <4> QED BY <4>1, SizeFacts, PowerGrows
      <3>2. \A a, h, c, p, q \in Nat :
              a < 2 * h /\ h <= c /\ p >= 1 /\ 2 * p <= q => a * p < c * q
        <4> SUFFICES ASSUME NEW a \in Nat, NEW h \in Nat, NEW c \in Nat,
                            NEW p \in Nat, NEW q \in Nat,
                            a < 2 * h, h <= c, p >= 1, 2 * p <= q
                     PROVE  a * p < c * q
          OBVIOUS
        <4>1. a * p < (2 * h) * p
          OBVIOUS
        <4>2. (2 * h) * p = h * (2 * p)
          OBVIOUS
        <4>3. h * (2 * p) <= h * q
          OBVIOUS
        <4>4. h * q <= c * q
          OBVIOUS
        <4>5. a * p \in Int /\ (2 * h) * p \in Int /\ h * q \in Int /\ c * q \in Int
          OBVIOUS
        <4> HIDE DEF P, Q
        <4> QED BY <4>1, <4>2, <4>3, <4>4, <4>5
      <3> HIDE DEF P, Q
      <3>3. Significand(x) * P < Significand(y) * Q
        BY <1>1, <2>2, <3>1, <3>2, SizeFacts
      <3> QED BY <3>3 DEF P, Q, Size
    <2> QED BY <2>3, <2>4
  <1>4. CASE y.e < x.e
    <2> DEFINE h == Hidden
    <2>1. \A e, f, k, m, n \in Nat : e < f /\ m < k => ~(f * k + n < e * k + m)
      <3> SUFFICES ASSUME NEW e \in Nat, NEW f \in Nat, NEW k \in Nat,
                          NEW m \in Nat, NEW n \in Nat, e < f, m < k
                   PROVE  ~(f * k + n < e * k + m)
        OBVIOUS
      <3>1. (e + 1) * k <= f * k /\ (e + 1) * k = e * k + k
        OBVIOUS
      <3>2. e * k \in Nat /\ f * k \in Nat
        OBVIOUS
      <3> QED BY <3>1, <3>2
    <2>2. FALSE
      BY <1>4, <2>1, DoubleFacts, FormatFacts DEF Bits
    <2> QED BY <2>2
  <1> QED BY <1>2, <1>3, <1>4, DoubleFacts

LEMMA BitsAreInt == ASSUME NEW x \in Double PROVE Bits(x) \in Nat
  BY DoubleFacts, FormatFacts DEF Bits

\* Numbers of one size have the same bits below the sign.
LEMMA SameSize ==
  ASSUME NEW x \in Double, NEW y \in Double
  PROVE  /\ Bits(x) = Bits(y) <=> Size(x) = Size(y)
         /\ Bits(x) = Bits(y) <=> x.e = y.e /\ x.m = y.m
  <1>1. Bits(x) = Bits(y) => x.e = y.e /\ x.m = y.m
    <2>1. \A e, f, k, m, n \in Nat : e < f /\ m < k => e * k + m # f * k + n
      <3> SUFFICES ASSUME NEW e \in Nat, NEW f \in Nat, NEW k \in Nat,
                          NEW m \in Nat, NEW n \in Nat, e < f, m < k
                   PROVE  e * k + m # f * k + n
        OBVIOUS
      <3>1. (e + 1) * k <= f * k /\ (e + 1) * k = e * k + k
        OBVIOUS
      <3>2. e * k \in Nat /\ f * k \in Nat
        OBVIOUS
      <3> QED BY <3>1, <3>2
    <2>2. Bits(x) = Bits(y) => ~(x.e < y.e) /\ ~(y.e < x.e)
      BY <2>1, DoubleFacts, FormatFacts DEF Bits
    <2>3. Bits(x) = Bits(y) => x.e = y.e
      BY <2>2, DoubleFacts
    <2>4. \A p, m, n \in Nat : p + m = p + n => m = n
      OBVIOUS
    <2> QED BY <2>3, <2>4, DoubleFacts, FormatFacts DEF Bits
  <1>2. x.e = y.e /\ x.m = y.m => Bits(x) = Bits(y) /\ Size(x) = Size(y)
    BY DEF Bits, Size, Significand, WithHidden, AddExp
  <1>3. Size(x) = Size(y) => Bits(x) = Bits(y)
    BY SizeOrder, BitsAreInt, SizeFacts
  <1> QED BY <1>1, <1>2, <1>3

-----------------------------------------------------------------------------
(* Comparisons *)

LEMMA StandingFacts ==
  ASSUME NEW x \in Double
  PROVE  /\ Standing(x) \in Int /\ Size(x) \in Nat /\ x.s \in {0, 1}
         /\ x.s = 0 => Standing(x) = 2 * Size(x)
         /\ x.s = 1 => Standing(x) = -(2 * Size(x)) - 1
  <1>1. Size(x) \in Nat /\ Val(x) = (IF x.s = 0 THEN Size(x) ELSE -Size(x))
        /\ x.s \in {0, 1}
    BY SizeFacts, DoubleFacts
  <1> QED BY <1>1 DEF Standing

\* Different doubles have different ranks.
LEMMA SameNumber ==
  ASSUME NEW x \in Double, NEW y \in Double
  PROVE  Standing(x) = Standing(y) <=> x = y
  <1>1. ASSUME Standing(x) = Standing(y) PROVE x = y
    <2>1. x.s = y.s /\ Size(x) = Size(y)
      BY <1>1, StandingFacts
    <2>2. x.e = y.e /\ x.m = y.m
      BY <2>1, SameSize
    <2> QED BY <2>1, <2>2, DoubleFacts
  <1> QED BY <1>1

\* The order of the code is that of the ranks, unless both numbers are negative.
LEMMA OrderAgrees ==
  ASSUME NEW x \in Double, NEW y \in Double
  PROVE  /\ Order(x, y) \in Int
         /\ x.s = 0 \/ y.s = 0 => /\ Order(x, y) > 0 <=> Standing(x) > Standing(y)
                                  /\ Order(x, y) < 0 <=> Standing(x) < Standing(y)
         /\ x.s = 1 /\ y.s = 1 => /\ Order(x, y) > 0 <=> Standing(y) > Standing(x)
                                  /\ Order(x, y) < 0 <=> Standing(y) < Standing(x)
  <1>1. /\ Size(x) \in Nat /\ Size(y) \in Nat /\ x.s \in {0, 1} /\ y.s \in {0, 1}
        /\ x.s = 0 => Standing(x) = 2 * Size(x)
        /\ x.s = 1 => Standing(x) = -(2 * Size(x)) - 1
        /\ y.s = 0 => Standing(y) = 2 * Size(y)
        /\ y.s = 1 => Standing(y) = -(2 * Size(y)) - 1
    BY StandingFacts
  <1>2. CASE x.s # y.s
    BY <1>1, <1>2 DEF Order
  <1>3. CASE x.s = y.s
    <2>1. /\ Bits(x) < Bits(y) <=> Size(x) < Size(y)
          /\ Bits(y) < Bits(x) <=> Size(y) < Size(x)
      BY <1>1, SizeOrder, SameSize, BitsAreInt
    <2>2. /\ Order(x, y) > 0 <=> Size(y) < Size(x)
          /\ Order(x, y) < 0 <=> Size(x) < Size(y)
          /\ Order(x, y) \in Int
      BY <1>3, <2>1, BitsAreInt DEF Order
    <2> QED BY <1>1, <1>3, <2>2
  <1> QED BY <1>2, <1>3

CompareInv ==
  op \in Comparisons =>
    \E x, y \in Double : args = <<x, y>> /\ Agrees(op, x, y, result)

LEMMA EqualityAgrees ==
  ASSUME NEW x \in Double, NEW y \in Double
  PROVE  /\ Agrees("eqdf2", x, y, eqdf2(x, y))
         /\ Agrees("nedf2", x, y, nedf2(x, y))
  <1>1. ~Reversed("eqdf2", x, y) /\ ~Reversed("nedf2", x, y)
    BY DEF Reversed
  <1>2. /\ eqdf2(x, y) = 0 <=> ~Unordered(x, y) /\ Standing(x) = Standing(y)
        /\ nedf2(x, y) = 0 <=> ~Unordered(x, y) /\ Standing(x) = Standing(y)
    BY SameNumber DEF eqdf2, nedf2
  <1>3. \A r : (Holds("eqdf2", r) <=> r = 0) /\ (Holds("nedf2", r) <=> r # 0)
    BY Zenon DEF Holds
  <1>4. /\ Means("eqdf2", Standing(x), Standing(y)) <=> Standing(x) = Standing(y)
        /\ Means("nedf2", Standing(x), Standing(y)) <=> Standing(x) # Standing(y)
    BY Zenon DEF Means
  <1> QED BY <1>1, <1>2, <1>3, <1>4, Zenon DEF Agrees

LEMMA OrdersAgree ==
  ASSUME NEW x \in Double, NEW y \in Double
  PROVE  /\ Agrees("gtdf2", x, y, gtdf2(x, y))
         /\ Agrees("gedf2", x, y, gedf2(x, y))
         /\ Agrees("ltdf2", x, y, ltdf2(x, y))
         /\ Agrees("ledf2", x, y, ledf2(x, y))
  <1> DEFINE both == x.s = 1 /\ y.s = 1
             one == x.s = 1 \/ y.s = 1
  <1>1. /\ Standing(x) \in Int /\ Standing(y) \in Int
        /\ x.s \in {0, 1} /\ y.s \in {0, 1} /\ Order(x, y) \in Int
    BY StandingFacts, OrderAgrees
  <1>2. /\ Reversed("gtdf2", x, y) <=> both
        /\ Reversed("gedf2", x, y) <=> both
        /\ Reversed("ltdf2", x, y) <=> one
        /\ Reversed("ledf2", x, y) <=> one
    BY DEF Reversed
  <1>3. \A r : /\ Holds("gtdf2", r) <=> r > 0
               /\ Holds("gedf2", r) <=> r >= 0
               /\ Holds("ltdf2", r) <=> r < 0
               /\ Holds("ledf2", r) <=> r <= 0
    BY Zenon DEF Holds
  <1>4. \A v, w : /\ Means("gtdf2", v, w) <=> v > w
                  /\ Means("gedf2", v, w) <=> v >= w
                  /\ Means("ltdf2", v, w) <=> v < w
                  /\ Means("ledf2", v, w) <=> v <= w
    BY Zenon DEF Means
  <1>5. Unordered(x, y) =>
          /\ ~(gtdf2(x, y) > 0) /\ ~(gedf2(x, y) >= 0)
          /\ ~(ltdf2(x, y) < 0) /\ ~(ledf2(x, y) <= 0)
    BY DEF gtdf2, gedf2, ltdf2, ledf2
  <1>6. ASSUME ~Unordered(x, y)
        PROVE  /\ gtdf2(x, y) > 0 <=> IF both THEN Standing(y) > Standing(x) ELSE Standing(x) > Standing(y)
               /\ gedf2(x, y) >= 0 <=>
                    IF both THEN Standing(y) >= Standing(x) ELSE Standing(x) >= Standing(y)
    <2>1. gtdf2(x, y) = Order(x, y)
          /\ (gedf2(x, y) >= 0 <=> ~(Order(x, y) < 0))
      BY <1>6 DEF gtdf2, gedf2
    <2> QED BY <1>1, <2>1, OrderAgrees
  <1>7. ASSUME ~Unordered(x, y)
        PROVE  /\ ltdf2(x, y) < 0 <=> IF one THEN Standing(y) < Standing(x) ELSE Standing(x) < Standing(y)
               /\ ledf2(x, y) <= 0 <=>
                    IF one THEN Standing(y) <= Standing(x) ELSE Standing(x) <= Standing(y)
    <2>1. ltdf2(x, y) = IF x.s # y.s THEN x.s - y.s ELSE Order(x, y)
      BY <1>7 DEF ltdf2
    <2>2. ledf2(x, y) <= 0 <=> ~(ltdf2(x, y) > 0)
      BY <1>7 DEF ledf2
    <2>3. CASE x.s = y.s
      BY <1>1, <2>1, <2>2, <2>3, OrderAgrees
    <2>4. CASE x.s # y.s
      <3>1. Order(x, y) = y.s - x.s
        BY <2>4 DEF Order
      <3> QED BY <1>1, <2>1, <2>2, <2>4, <3>1, OrderAgrees
    <2> QED BY <2>3, <2>4
  <1> HIDE DEF both, one
  <1>8. Agrees("gtdf2", x, y, gtdf2(x, y)) /\ Agrees("gedf2", x, y, gedf2(x, y))
    BY <1>2, <1>3, <1>4, <1>5, <1>6, Zenon DEF Agrees
  <1>9. Agrees("ltdf2", x, y, ltdf2(x, y)) /\ Agrees("ledf2", x, y, ledf2(x, y))
    BY <1>2, <1>3, <1>4, <1>5, <1>7, Zenon DEF Agrees
  <1> QED BY <1>8, <1>9

LEMMA CompareInvHolds == Spec => []CompareInv
  <1>1. Init => CompareInv
    BY DEF Init, CompareInv, Comparisons
  <1>2. ASSUME CompareInv, [Next]_vars PROVE CompareInv'
    <2>1. CASE Convert
      BY <2>1 DEF Convert, Return, CompareInv, Comparisons
    <2>2. CASE Compare
      <3>1. PICK x \in Double, y \in Double :
              \/ Return("eqdf2", <<x, y>>, eqdf2(x, y))
              \/ Return("nedf2", <<x, y>>, nedf2(x, y))
              \/ Return("gtdf2", <<x, y>>, gtdf2(x, y))
              \/ Return("gedf2", <<x, y>>, gedf2(x, y))
              \/ Return("ltdf2", <<x, y>>, ltdf2(x, y))
              \/ Return("ledf2", <<x, y>>, ledf2(x, y))
              \/ Return("unorddf2", <<x, y>>, unorddf2(x, y))
        BY <2>2, FormatAssumption, Zenon DEF Compare
      <3>2. op' \in Comparisons => args' = <<x, y>> /\ Agrees(op', x, y, result')
        BY <3>1, EqualityAgrees, OrdersAgree DEF Return, Comparisons
      <3> QED BY <3>2, Zenon DEF CompareInv
    <2>3. CASE Calculate
      BY <2>3 DEF Calculate, Return, CompareInv, Comparisons
    <2>4. CASE UNCHANGED vars
      BY <1>2, <2>4, Zenon DEF CompareInv, vars
    <2> QED BY <1>2, <2>1, <2>2, <2>3, <2>4 DEF Next
  <1> QED BY <1>1, <1>2, PTL DEF Spec

\* What each of the six comparisons says of any two doubles, for every width of
\* exponent and mantissa: that of their values, or the reverse where numbers are
\* negative; two zeros of different signs differ; and with NaN only != holds.
THEOREM ComparisonsAgreeAlways == Spec => []ComparisonsAgree
  <1>1. CompareInv => ComparisonsAgree
    <2> SUFFICES ASSUME CompareInv, op \in Comparisons
                 PROVE  Agrees(op, args[1], args[2], result)
      BY Zenon DEF ComparisonsAgree
    <2>1. PICK x \in Double, y \in Double : args = <<x, y>> /\ Agrees(op, x, y, result)
      BY Zenon DEF CompareInv
    <2>2. args[1] = x /\ args[2] = y
      BY <2>1
    <2> QED BY <2>1, <2>2, Zenon
  <1> QED BY <1>1, CompareInvHolds, PTL

-----------------------------------------------------------------------------
(* Conversions: quotients, and the highest bit *)

LEMMA ProductFacts ==
  /\ \A a, b \in Nat : a * b \in Nat /\ a * b = b * a
  /\ \A a, b, c \in Nat : (a * b) * c = a * (b * c)
  /\ \A a, b, c \in Nat : a <= b => a * c <= b * c
  /\ \A a, b, c \in Nat : a < b /\ c >= 1 => a * c < b * c
  OBVIOUS

LEMMA QuotientFacts ==
  ASSUME NEW a \in Nat, NEW d \in Nat, d >= 1
  PROVE  /\ a \div d \in Nat
         /\ (a \div d) * d <= a /\ a < (a \div d) * d + d
  <1> DEFINE p == a \div d
             m == a % d
  <1>1. p \in Int /\ m \in 0 .. d - 1 /\ a = p * d + m
    OBVIOUS
  <1> HIDE DEF p, m
  <1>2. \A k \in Int : k <= -1 => k * d <= -d
    OBVIOUS
  <1>3. p >= 0
    BY <1>1, <1>2
  <1>4. p \in Nat /\ p * d \in Nat
    BY <1>1, <1>3, ProductFacts
  <1>5. p \in Nat /\ p * d <= a /\ a < p * d + d
    BY <1>1, <1>4
  <1> QED BY <1>5 DEF p

LEMMA QuotientIs ==
  ASSUME NEW a \in Nat, NEW d \in Nat, d >= 1, NEW q \in Nat,
         q * d <= a, a < q * d + d
  PROVE  a \div d = q
  <1> DEFINE p == a \div d
  <1>1. p \in Nat /\ p * d <= a /\ a < p * d + d
    BY QuotientFacts
  <1> HIDE DEF p
  <1>2. \A e, f \in Nat : e < f => e * d + d <= f * d
    <2> SUFFICES ASSUME NEW e \in Nat, NEW f \in Nat, e < f PROVE e * d + d <= f * d
      OBVIOUS
    <2>1. (e + 1) * d <= f * d /\ (e + 1) * d = e * d + d
      OBVIOUS
    <2> QED BY <2>1
  <1>3. p * d \in Nat /\ q * d \in Nat
    BY <1>1, ProductFacts
  <1>4. p = q
    BY <1>1, <1>2, <1>3
  <1> QED BY <1>4 DEF p

\* Cutting off bits and moving back loses less than the last bit kept.
LEMMA CutFacts ==
  ASSUME NEW a \in Nat, NEW b \in Nat, NEW d \in Nat, d >= 1
  PROVE  /\ (a * d) \div d = a
         /\ a < b * d => a \div d < b
         /\ b * d <= a => b <= a \div d
  <1>1. a * d \in Nat /\ b * d \in Nat
    BY ProductFacts
  <1>2. (a * d) \div d = a
    BY <1>1, QuotientIs
  <1>4. a < b * d => a \div d < b
    <2> DEFINE q == a \div d
    <2>1. q \in Nat /\ q * d <= a
      BY QuotientFacts
    <2> HIDE DEF q
    <2>2. b <= q => b * d <= q * d
      BY <2>1, ProductFacts
    <2>3. q * d \in Nat
      BY <2>1, ProductFacts
    <2>4. a < b * d => q < b
      BY <1>1, <2>1, <2>2, <2>3
    <2> QED BY <2>4 DEF q
  <1>5. b * d <= a => b <= a \div d
    <2> DEFINE q == a \div d
    <2>1. q \in Nat /\ a < q * d + d
      BY QuotientFacts
    <2> HIDE DEF q
    <2>2. q < b => (q + 1) * d <= b * d
      BY <2>1, ProductFacts
    <2>3. (q + 1) * d = q * d + d /\ q * d \in Nat
      BY <2>1, ProductFacts
    <2>4. b * d <= a => b <= q
      BY <1>1, <2>1, <2>2, <2>3
    <2> QED BY <2>4 DEF q
  <1> QED BY <1>2, <1>4, <1>5

LEMMA CutCommon ==
  ASSUME NEW a \in Nat, NEW b \in Nat, b # 0, NEW d \in Nat, d >= 1
  PROVE  (a * d) \div (b * d) = a \div b
  <1>0. a * d \in Nat /\ b * d \in Nat
    BY ProductFacts
  <1> DEFINE q == a \div b
  <1>1. q \in Nat /\ q * b <= a /\ a < q * b + b
    BY QuotientFacts
  <1> HIDE DEF q
  <1>2. q * (b * d) <= a * d
    <2>1. (q * b) * d <= a * d /\ (q * b) * d = q * (b * d)
      BY <1>1, ProductFacts
    <2> QED BY <2>1
  <1>3. a * d < q * (b * d) + b * d
    <2>1. q * b + b \in Nat
      BY <1>1, ProductFacts
    <2>2. a * d < (q * b + b) * d
      BY <1>1, <2>1, ProductFacts
    <2>3. (q * b + b) * d = (q * b) * d + b * d
      <3>1. \A u, v \in Nat : (u + v) * d = u * d + v * d
        OBVIOUS
      <3> QED BY <1>1, <3>1, ProductFacts
    <2>4. (q * b) * d = q * (b * d)
      BY <1>1, ProductFacts
    <2> QED BY <2>2, <2>3, <2>4
  <1>4. b * d >= 1
    OBVIOUS
  <1>5. (a * d) \div (b * d) = q
    BY <1>0, <1>1, <1>2, <1>3, <1>4, QuotientIs
  <1> QED BY <1>5 DEF q

LEMMA NegatedZero == ASSUME NEW k \in Nat, k = 0 PROVE -k = 0
  <1>1. \A v \in Int : v <= 0 /\ v >= 0 => -v = v
    OBVIOUS
  <1>2. k \in Int /\ k <= 0 /\ k >= 0
    OBVIOUS
  <1>3. -k = k
    BY <1>1, <1>2
  <1> QED BY <1>3, Zenon

LEMMA TopBitExists ==
  ASSUME NEW w \in Nat
  PROVE  \A v \in Nat : v >= 1 /\ v < 2 ^ w =>
           \E k \in 0 .. w : 2 ^ k <= v /\ v < 2 ^ (k + 1)
  <1> DEFINE P(u) == \A v \in Nat : v >= 1 /\ v < 2 ^ u =>
                       \E k \in 0 .. u : 2 ^ k <= v /\ v < 2 ^ (k + 1)
             S == {u \in Nat : P(u)}
  <1>1. 0 \in S
    <2>1. 2 ^ 0 = 1
      OBVIOUS
    <2> QED BY <2>1
  <1>2. ASSUME NEW u \in Nat, u \in S PROVE u + 1 \in S
    <2>1. ASSUME NEW v \in Nat, v >= 1, v < 2 ^ (u + 1)
          PROVE  \E k \in 0 .. u + 1 : 2 ^ k <= v /\ v < 2 ^ (k + 1)
      <3>1. CASE v < 2 ^ u
        <4>1. PICK k \in 0 .. u : 2 ^ k <= v /\ v < 2 ^ (k + 1)
          BY <1>2, <2>1, <3>1
        <4>2. k \in 0 .. u + 1
          OBVIOUS
        <4> QED BY <4>1, <4>2, Zenon
      <3>2. CASE ~(v < 2 ^ u)
        <4>1. 2 ^ u <= v /\ u \in 0 .. u + 1
          BY <3>2, PowerIsNat
        <4> QED BY <2>1, <4>1, Zenon
      <3> QED BY <3>1, <3>2
    <2> QED BY <2>1
  <1> HIDE DEF S
  <1>3. w \in S
    BY <1>1, <1>2, NatSetInduction
  <1> QED BY <1>3 DEF S

LEMMA TopBitFacts ==
  ASSUME NEW v \in Nat, v >= 1, NEW w \in Nat, v < 2 ^ w, w <= WordBits + LongBits
  PROVE  /\ TopBit(v) \in Nat
         /\ 2 ^ TopBit(v) <= v /\ v < 2 ^ (TopBit(v) + 1)
  <1>1. \E k \in 0 .. w : 2 ^ k <= v /\ v < 2 ^ (k + 1)
    BY TopBitExists
  <1>2. WordBits + LongBits \in Nat
    BY FormatAssumption DEF WordBits
  <1>3. 0 .. w \subseteq 0 .. WordBits + LongBits
    BY <1>2
  <1>4. \E k \in 0 .. WordBits + LongBits : 2 ^ k <= v /\ v < 2 ^ (k + 1)
    BY <1>1, <1>3, Zenon
  <1>5. /\ TopBit(v) \in 0 .. WordBits + LongBits
        /\ 2 ^ TopBit(v) <= v /\ v < 2 ^ (TopBit(v) + 1)
    BY <1>4, Zenon DEF TopBit
  <1> QED BY <1>2, <1>5

-----------------------------------------------------------------------------
(* Conversions: integers as doubles, and back *)

\* The part of an integer a double keeps: all of it up to MantBits + 1 bits.
KeptPart(v) ==
  IF TopBit(v) <= MantBits THEN v
  ELSE (v \div 2 ^ (TopBit(v) - MantBits)) * 2 ^ (TopBit(v) - MantBits)

LEMMA MantissaOfInteger ==
  ASSUME NEW n \in Int, n # 0, NEW w \in Nat, Abs(n) < 2 ^ w, w <= WordBits + LongBits
  PROVE  LET r == FromInteger(n)
             k == TopBit(Abs(n))
         IN  /\ r.s = IF n < 0 THEN 1 ELSE 0
             /\ r.e = k + Bias /\ r.m \in Nat
             /\ WithHidden(r) =
                  IF k <= MantBits THEN Abs(n) * 2 ^ (MantBits - k)
                  ELSE Abs(n) \div 2 ^ (k - MantBits)
  <1> DEFINE v == Abs(n)
             k == TopBit(v)
             r == FromInteger(n)
             fraction == IF k <= MantBits THEN (v - 2 ^ k) * 2 ^ (MantBits - k)
                         ELSE (v - 2 ^ k) \div 2 ^ (k - MantBits)
  <1>1. v \in Nat /\ v >= 1
    BY DEF Abs
  <1>2. k \in Nat /\ 2 ^ k <= v /\ v < 2 ^ (k + 1)
    BY <1>1, TopBitFacts
  <1>3. r = [s |-> IF n < 0 THEN 1 ELSE 0, e |-> k + Bias, m |-> fraction % Hidden]
    BY Zenon DEF FromInteger, Abs
  <1> HIDE DEF v, k, r, fraction
  <1>4. r.s = (IF n < 0 THEN 1 ELSE 0) /\ r.e = k + Bias /\ r.m = fraction % Hidden
    BY <1>3
  <1> USE DEF fraction
  <1> DEFINE u == v - 2 ^ k
  <1>5. u \in Nat /\ u < 2 ^ k /\ v = 2 ^ k + u /\ 2 ^ k \in Nat
    BY <1>1, <1>2, PowerIsNat, PowerDoubles
  <1>6. /\ fraction \in Nat /\ fraction < Hidden
        /\ Hidden + fraction = IF k <= MantBits THEN v * 2 ^ (MantBits - k)
                               ELSE v \div 2 ^ (k - MantBits)
    <2>1. CASE k <= MantBits
      <3> DEFINE D == 2 ^ (MantBits - k)
      <3>1. MantBits - k \in Nat /\ k + (MantBits - k) = MantBits
        BY <1>2, <2>1, WidthFacts
      <3>2. D \in Nat /\ D >= 1 /\ Hidden = 2 ^ k * D
        BY <1>2, <2>1, WidthFacts, PowerSplits, Zenon DEF Hidden
      <3>3. fraction = u * D
        BY <2>1
      <3> HIDE DEF D, u, fraction
      <3>4. \A p, q, d \in Nat : p * d + q * d = (p + q) * d
        OBVIOUS
      <3>5. u * D \in Nat /\ u * D < 2 ^ k * D /\ 2 ^ k * D + u * D = v * D
        BY <1>5, <3>2, <3>4, ProductFacts
      <3> QED BY <2>1, <3>2, <3>3, <3>5 DEF D
    <2>2. CASE ~(k <= MantBits)
      <3> DEFINE D == 2 ^ (k - MantBits)
      <3>1. k - MantBits \in Nat /\ MantBits + (k - MantBits) = k
        BY <1>2, <2>2, WidthFacts
      <3>2. D \in Nat /\ D >= 1 /\ 2 ^ k = Hidden * D
        <4>1. MantBits <= k
          BY <1>2, <2>2, WidthFacts
        <4> QED BY <1>2, <4>1, WidthFacts, PowerSplits, Zenon DEF Hidden
      <3>3. fraction = u \div D
        BY <2>2
      <3> HIDE DEF D, u, fraction
      <3>4. u \div D \in Nat /\ (u \div D) * D <= u /\ u < (u \div D) * D + D
        BY <1>5, <3>2, QuotientFacts
      <3>5. u \div D < Hidden
        <4>1. u < Hidden * D /\ Hidden \in Nat
          BY <1>5, <3>2, FormatFacts
        <4> QED BY <1>5, <3>2, <4>1, CutFacts
      <3>6. v \div D = Hidden + u \div D
        <4> DEFINE f == u \div D
        <4>1. f \in Nat /\ f * D <= u /\ u < f * D + D /\ f * D \in Nat
          BY <3>2, <3>4, ProductFacts
        <4> HIDE DEF f
        <4>2. \A p, q, d \in Nat : p * d + q * d = (p + q) * d
          OBVIOUS
        <4>3. (Hidden + f) * D = 2 ^ k + f * D
          BY <3>2, <4>1, <4>2, FormatFacts
        <4>4. Hidden + f \in Nat /\ (Hidden + f) * D \in Nat
          BY <1>5, <4>1, <4>3, FormatFacts
        <4>5. (Hidden + f) * D <= v /\ v < (Hidden + f) * D + D
          BY <1>5, <3>2, <4>1, <4>3, <4>4
        <4>6. v \div D = Hidden + f
          BY <1>1, <3>2, <4>4, <4>5, QuotientIs
        <4> QED BY <4>6 DEF f
      <3> QED BY <2>2, <3>3, <3>4, <3>5, <3>6 DEF D
    <2> QED BY <2>1, <2>2
  <1> HIDE DEF fraction
  <1>7. fraction % Hidden = fraction
    BY <1>6, FormatFacts
  <1>8. r.m \in Nat /\ WithHidden(r) = Hidden + fraction
    BY <1>4, <1>6, <1>7 DEF WithHidden
  <1> QED BY <1>4, <1>6, <1>8 DEF r, k, v

LEMMA MagnitudeOfInteger ==
  ASSUME NEW n \in Int, n # 0, NEW w \in Nat, Abs(n) < 2 ^ w, w <= WordBits + LongBits
  PROVE  LET r == FromInteger(n)
             k == TopBit(Abs(n))
         IN  /\ Exponent(r) = k /\ r.s = IF n < 0 THEN 1 ELSE 0
             /\ Magnitude(r) = KeptPart(Abs(n))
  <1> DEFINE v == Abs(n)
             k == TopBit(v)
             r == FromInteger(n)
  <1>1. v \in Nat /\ v >= 1
    BY DEF Abs
  <1>2. k \in Nat
    BY <1>1, TopBitFacts
  <1>3. /\ r.s = IF n < 0 THEN 1 ELSE 0
        /\ r.e = k + Bias
        /\ WithHidden(r) = IF k <= MantBits THEN v * 2 ^ (MantBits - k)
                           ELSE v \div 2 ^ (k - MantBits)
    BY MantissaOfInteger, Zenon
  <1> HIDE DEF v, k, r
  <1>4. Exponent(r) = k
    BY <1>2, <1>3, FormatFacts DEF Exponent
  <1>5. Magnitude(r) = KeptPart(v)
    <2>1. CASE k <= MantBits
      <3>1. MantBits - k \in Nat
        BY <1>2, <2>1, WidthFacts
      <3>2. (v * 2 ^ (MantBits - k)) \div 2 ^ (MantBits - k) = v
        BY <1>1, <3>1, PowerIsNat, CutFacts, FormatFacts
      <3> QED BY <1>2, <1>3, <1>4, <2>1, <3>2, WidthFacts DEF Magnitude, KeptPart, k
    <2>2. CASE ~(k <= MantBits)
      BY <1>2, <1>3, <1>4, <2>2, WidthFacts DEF Magnitude, KeptPart, k
    <2> QED BY <2>1, <2>2
  <1> QED BY <1>3, <1>4, <1>5 DEF v, k, r

\* What is kept is close, and is everything up to 2 * Hidden.
LEMMA KeptFacts ==
  ASSUME NEW v \in Nat, v >= 1, NEW w \in Nat, v < 2 ^ w, w <= WordBits + LongBits
  PROVE  /\ KeptPart(v) \in Nat /\ KeptPart(v) <= v
         /\ v <= 2 * Hidden => KeptPart(v) = v
         /\ (v - KeptPart(v)) * Hidden < v
  <1> DEFINE k == TopBit(v)
             D == 2 ^ (k - MantBits)
  <1>1. k \in Nat /\ 2 ^ k <= v /\ v < 2 ^ (k + 1)
    BY TopBitFacts
  <1> HIDE DEF k
  <1>2. CASE k <= MantBits
    BY <1>2, FormatFacts DEF KeptPart, k
  <1>3. CASE ~(k <= MantBits)
    <2>1. k - MantBits \in Nat /\ MantBits + (k - MantBits) = k /\ k - MantBits >= 1
      BY <1>1, <1>3, WidthFacts
    <2>2. D \in Nat /\ D >= 1 /\ 2 ^ k = Hidden * D
      <3>1. MantBits <= k
        BY <1>1, <1>3, WidthFacts
      <3> QED BY <1>1, <3>1, WidthFacts, PowerSplits, Zenon DEF Hidden
    <2>3. KeptPart(v) = (v \div D) * D
      BY <1>3 DEF KeptPart, k
    <2> HIDE DEF D
    <2>4. KeptPart(v) \in Nat /\ KeptPart(v) <= v /\ v - KeptPart(v) < D
      BY <2>2, <2>3, QuotientFacts, ProductFacts
    <2>5. (v - KeptPart(v)) * Hidden < v
      <3>1. v - KeptPart(v) \in Nat
        BY <2>4
      <3>2. (v - KeptPart(v)) * Hidden < D * Hidden /\ D * Hidden = Hidden * D
        BY <2>2, <2>4, <3>1, ProductFacts, FormatFacts
      <3>3. (v - KeptPart(v)) * Hidden \in Nat /\ Hidden * D \in Nat
        BY <2>2, <3>1, ProductFacts, FormatFacts
      <3> QED BY <1>1, <2>2, <3>2, <3>3
    <2>6. ASSUME v <= 2 * Hidden PROVE KeptPart(v) = v
      <3>1. k = MantBits + 1
        <4>1. ASSUME MantBits + 1 < k PROVE FALSE
          <5>1. 2 ^ (MantBits + 1) = 2 * Hidden
            BY PowerDoubles, WidthFacts DEF Hidden
          <5>2. 2 * 2 ^ (MantBits + 1) <= 2 ^ k
            BY <1>1, <4>1, PowerGrows, WidthFacts
          <5> QED BY <1>1, <2>2, <2>6, <5>1, <5>2, FormatFacts, PowerIsNat
        <4> QED BY <1>1, <1>3, <4>1, WidthFacts
      <3>2. D = 2
        <4>1. k - MantBits = 1
          BY <3>1, WidthFacts
        <4>2. 2 ^ 1 = 2
          OBVIOUS
        <4> QED BY <4>1, <4>2, Zenon DEF D
      <3>3. v = Hidden * 2
        BY <1>1, <2>2, <2>6, <3>2, FormatFacts
      <3>4. v \div 2 = Hidden
        BY <3>3, FormatFacts
      <3> QED BY <2>3, <3>2, <3>3, <3>4
    <2> QED BY <2>4, <2>5, <2>6
  <1> QED BY <1>2, <1>3

\* An exponent within the type: the sign is put back, the least integer of the type
\* is its own negation, and a magnitude with the top bit set wraps around.
LEMMA SignedFacts ==
  ASSUME NEW x, NEW bits \in Nat, bits >= 1, x.s \in {0, 1},
         Exponent(x) \in Nat, Exponent(x) <= bits - 1,
         Magnitude(x) \in Nat, Magnitude(x) < 2 * 2 ^ (bits - 1)
  PROVE  ToSigned(x, bits) =
           InSigned(IF x.s = 0 THEN Magnitude(x) ELSE -Magnitude(x), 2 ^ (bits - 1))
  <1> DEFINE h == 2 ^ (bits - 1)
             g == Magnitude(x)
  <1>1. bits - 1 \in Nat /\ (bits - 1) + 1 = bits
    OBVIOUS
  <1>2. h \in Nat /\ h >= 1 /\ 2 ^ bits = 2 * h
    BY <1>1, PowerIsNat, PowerDoubles
  <1>3. ToSigned(x, bits) = IF x.s = 0 THEN AsSigned(g, bits)
                            ELSE Negated(AsSigned(g, bits), bits)
    BY DEF ToSigned
  <1>4. AsSigned(g, bits) = IF g < h THEN g ELSE g - 2 * h
    BY <1>2 DEF AsSigned
  <1>5. \A v : Negated(v, bits) = IF v = -h THEN v ELSE -v
    BY DEF Negated
  <1> HIDE DEF h
  <1>6. g \in Nat /\ g < 2 * h
    BY DEF h
  <1> HIDE DEF g
  <1>7. CASE x.s = 0
    <2>1. ToSigned(x, bits) = IF g < h THEN g ELSE g - 2 * h
      BY <1>3, <1>4, <1>7
    <2>2. InSigned(g, h) = IF g < h THEN g ELSE g - 2 * h
      BY <1>2, <1>6 DEF InSigned, Abs
    <2> QED BY <1>7, <2>1, <2>2 DEF g, h
  <1>8. CASE x.s # 0
    <2>1. ToSigned(x, bits) = IF g <= h THEN -g ELSE 2 * h - g
      <3>1. ToSigned(x, bits) = Negated(AsSigned(g, bits), bits)
        BY <1>3, <1>8
      <3> QED BY <1>2, <1>4, <1>5, <1>6, <3>1
    <2>2. InSigned(-g, h) = IF g <= h THEN -g ELSE 2 * h - g
      BY <1>2, <1>6 DEF InSigned, Abs
    <2> QED BY <1>8, <2>1, <2>2 DEF g, h
  <1> QED BY <1>7, <1>8

\* A whole number of the type stays as it is.
LEMMA InSignedFacts ==
  ASSUME NEW top \in Nat, top >= 1, NEW w \in Int
  PROVE  /\ w \in -top .. top - 1 => InSigned(w, top) = w
         /\ w >= 2 * top => InSigned(w, top) = top - 1
         /\ w <= -(2 * top) => InSigned(w, top) = -top
  BY DEF InSigned, Abs

SignedRange(bits) == -(2 ^ (bits - 1)) .. 2 ^ (bits - 1) - 1

LEMMA BitsFacts ==
  ASSUME NEW bits \in {IntBits, LongBits}
  PROVE  /\ bits \in Nat /\ bits >= 1 /\ bits - 1 \in Nat /\ bits <= WordBits + LongBits
         /\ 2 ^ (bits - 1) \in Nat /\ 2 ^ (bits - 1) >= 1
         /\ 2 ^ bits = 2 * 2 ^ (bits - 1)
  <1>1. /\ bits \in Nat /\ bits >= 1 /\ bits - 1 \in Nat
        /\ bits <= WordBits + LongBits /\ (bits - 1) + 1 = bits
    BY FormatAssumption DEF WordBits
  <1>2. 2 ^ ((bits - 1) + 1) = 2 * 2 ^ (bits - 1)
    BY <1>1, PowerDoubles
  <1> QED BY <1>1, <1>2, PowerIsNat

LEMMA SignedReturns ==
  ASSUME NEW bits \in {IntBits, LongBits}, NEW n \in SignedRange(bits)
  PROVE  ToSigned(FromInteger(n), bits) =
           IF n = 0 THEN 0 ELSE IF n < 0 THEN -KeptPart(Abs(n)) ELSE KeptPart(Abs(n))
  <1> DEFINE h == 2 ^ (bits - 1)
             v == Abs(n)
             k == TopBit(v)
             r == FromInteger(n)
  <1>1. h \in Nat /\ h >= 1 /\ 2 ^ bits = 2 * h
    BY BitsFacts
  <1>2. n \in Int /\ n <= h - 1 /\ -h <= n
    BY <1>1 DEF SignedRange
  <1>3. CASE n = 0
    <2>1. Exponent(FromInteger(0)) < 0
      BY FormatFacts DEF Exponent, FromInteger, Zero
    <2> QED BY <1>3, <2>1 DEF ToSigned
  <1>4. CASE n # 0
    <2>1. v \in Nat /\ v >= 1 /\ v <= h /\ (n >= 0 => v < h)
      <3> HIDE DEF h
      <3> QED BY <1>1, <1>2, <1>4 DEF Abs
    <2>2. v < 2 ^ bits
      <3> HIDE DEF h, v
      <3> QED BY <1>1, <2>1
    <2>3. k \in Nat /\ 2 ^ k <= v
      BY <2>1, <2>2, BitsFacts, TopBitFacts
    <2>4. Exponent(r) = k /\ r.s = (IF n < 0 THEN 1 ELSE 0) /\ Magnitude(r) = KeptPart(v)
      BY <1>2, <1>4, <2>2, BitsFacts, MagnitudeOfInteger, Zenon
    <2>5. KeptPart(v) \in Nat /\ KeptPart(v) <= v
      BY <2>1, <2>2, BitsFacts, KeptFacts
    <2>6. k <= bits - 1
      <3>1. ASSUME bits - 1 < k PROVE FALSE
        <4>1. 2 * h <= 2 ^ k
          BY <2>3, <3>1, BitsFacts, PowerGrows
        <4>2. 2 ^ k \in Nat
          BY <2>3, PowerIsNat
        <4> HIDE DEF h, v, k
        <4> QED BY <1>1, <2>1, <2>3, <4>1, <4>2
      <3> QED BY <2>3, <3>1, BitsFacts
    <2> HIDE DEF h, v, k, r
    <2>7. ToSigned(r, bits) = IF r.s = 0 THEN Magnitude(r) ELSE -Magnitude(r)
      <3>1. /\ r.s \in {0, 1} /\ Exponent(r) \in Nat /\ Exponent(r) <= bits - 1
            /\ Magnitude(r) \in Nat /\ Magnitude(r) < 2 * 2 ^ (bits - 1)
        <4>1. Magnitude(r) < 2 * h
          BY <1>1, <2>1, <2>4, <2>5
        <4> QED BY <2>3, <2>4, <2>5, <2>6, <4>1 DEF h
      <3> DEFINE w == IF r.s = 0 THEN Magnitude(r) ELSE -Magnitude(r)
      <3>2. ToSigned(r, bits) = InSigned(w, h)
        BY <3>1, BitsFacts, SignedFacts DEF h
      <3>3. w \in Int /\ w \in -h .. h - 1
        BY <1>1, <1>2, <2>1, <2>4, <2>5
      <3> HIDE DEF w
      <3>4. ToSigned(r, bits) = w
        BY <1>1, <3>2, <3>3, InSignedFacts
      <3> QED BY <3>4 DEF w
    <2>8. ToSigned(r, bits) = IF n < 0 THEN -KeptPart(v) ELSE KeptPart(v)
      BY <2>4, <2>7
    <2> QED BY <1>4, <2>8 DEF r, v
  <1> QED BY <1>3, <1>4

\* The double of 1: its highest bit is the hidden one, and nothing is left.
LEMMA OneAsDouble == FromInteger(1) = [s |-> 0, e |-> Bias, m |-> 0]
  <1>0. IntBits \in Nat /\ IntBits <= WordBits + LongBits /\ 1 < 2 ^ IntBits
    BY BitsFacts
  <1>1. TopBit(1) = 0
    <2>1. TopBit(1) \in Nat /\ 2 ^ TopBit(1) <= 1
      BY <1>0, TopBitFacts
    <2>2. 2 ^ 0 = 1 /\ 2 ^ TopBit(1) \in Nat
      BY <2>1, PowerIsNat
    <2>3. 0 < TopBit(1) => 2 * 2 ^ 0 <= 2 ^ TopBit(1)
      BY <2>1, PowerGrows
    <2> QED BY <2>1, <2>2, <2>3
  <1>2. FromInteger(1) = [s |-> 0, e |-> 0 + Bias, m |-> 0]
    <2>1. /\ TopBit(1) <= MantBits
          /\ ((1 - 2 ^ 0) * 2 ^ (MantBits - 0)) % Hidden = 0
      <3>1. 1 - 2 ^ 0 = 0 /\ 2 ^ (MantBits - 0) \in Nat
        BY WidthFacts, PowerIsNat
      <3>2. \A q \in Nat : 0 * q = 0
        OBVIOUS
      <3>3. 0 % Hidden = 0
        BY FormatFacts
      <3> QED BY <1>1, <3>1, <3>2, <3>3, WidthFacts
    <2>2. 1 # 0 /\ ~(1 < 0) /\ (IF 1 < 0 THEN -1 ELSE 1) = 1
      OBVIOUS
    <2>3. FromInteger(1) = [s |-> IF 1 < 0 THEN 1 ELSE 0, e |-> TopBit(1) + Bias,
                            m |-> ((1 - 2 ^ TopBit(1)) * 2 ^ (MantBits - TopBit(1))) % Hidden]
      BY <2>1, <2>2, Zenon DEF FromInteger
    <2> QED BY <1>1, <2>1, <2>2, <2>3, Zenon
  <1> QED BY <1>2, FormatFacts

LEMMA UnsignedReturns ==
  ASSUME NEW n \in UInts
  PROVE  ToUnsigned(FromInteger(n), IntBits) = IF n = 1 THEN 0 ELSE n
  <1> DEFINE k == TopBit(n)
             r == FromInteger(n)
             h == 2 ^ (IntBits - 1)
  <1>0. h \in Nat /\ 2 ^ IntBits = 2 * h /\ IntBits \in Nat /\ IntBits - 1 \in Nat
        /\ IntBits <= WordBits + LongBits
    BY BitsFacts
  <1>1. n \in Nat /\ n < 2 ^ IntBits
    BY <1>0 DEF UInts
  <1>2. CASE n = 0
    <2>1. Bits(FromInteger(0)) = 0 * Hidden
      BY FormatFacts DEF Bits, FromInteger, Zero
    <2>2. 0 * Hidden <= Bias * Hidden
      BY FormatFacts, ProductFacts
    <2> QED BY <1>2, <2>1, <2>2 DEF ToUnsigned
  <1>3. CASE n = 1
    <2>1. FromInteger(1) = [s |-> 0, e |-> 0 + Bias, m |-> 0]
      BY OneAsDouble, FormatFacts
    <2>2. Bits(FromInteger(1)) = Bias * Hidden
      <3>1. Bias * Hidden \in Nat
        BY FormatFacts, ProductFacts
      <3> QED BY <2>1, <3>1, FormatFacts DEF Bits
    <2>3. Bias * Hidden <= Bias * Hidden
      BY FormatFacts, ProductFacts
    <2> QED BY <1>3, <2>2, <2>3 DEF ToUnsigned
  <1>4. CASE n # 0 /\ n # 1
    <2>1. Abs(n) = n /\ n >= 1
      BY <1>1, <1>4 DEF Abs
    <2>2. k \in Nat /\ 2 ^ k <= n /\ n < 2 ^ (k + 1)
      BY <1>0, <1>1, <2>1, TopBitFacts
    <2>3. /\ r.s = 0 /\ r.e = k + Bias /\ r.m \in Nat
          /\ Exponent(r) = k /\ Magnitude(r) = KeptPart(n)
      <3>1. /\ r.s = (IF n < 0 THEN 1 ELSE 0) /\ r.e = k + Bias /\ r.m \in Nat
        BY <1>0, <1>1, <1>4, <2>1, MantissaOfInteger
      <3>2. Exponent(r) = k /\ Magnitude(r) = KeptPart(n)
        BY <1>0, <1>1, <1>4, <2>1, MagnitudeOfInteger
      <3> QED BY <1>1, <3>1, <3>2
    <2> HIDE DEF r
    <2>4. k # 0
      <3>1. 2 ^ (0 + 1) = 2
        OBVIOUS
      <3> HIDE DEF k
      <3>2. k = 0 => n < 2
        BY <2>2, <3>1
      <3> QED BY <1>1, <1>4, <3>2
    <2>5. k <= IntBits - 1
      <3>1. ASSUME IntBits - 1 < k PROVE FALSE
        <4>1. 2 * h <= 2 ^ k
          BY <1>0, <2>2, <3>1, PowerGrows
        <4>2. 2 ^ k \in Nat
          BY <2>2, PowerIsNat
        <4> HIDE DEF h, k
        <4> QED BY <1>0, <1>1, <2>2, <4>1, <4>2
      <3> QED BY <1>0, <2>2, <3>1
    <2>6. KeptPart(n) = n
      BY <2>2, <2>5, WidthFacts DEF KeptPart
    <2> HIDE DEF k
    <2>7. ~(Bits(r) <= Bias * Hidden)
      <3>1. (Bias + 1) * Hidden <= (k + Bias) * Hidden
        BY <2>2, <2>4, FormatFacts, ProductFacts
      <3>2. (Bias + 1) * Hidden = Bias * Hidden + Hidden
        BY FormatFacts
      <3>3. Bias * Hidden \in Nat /\ (k + Bias) * Hidden \in Nat
        BY <2>2, FormatFacts, ProductFacts
      <3> QED BY <2>3, <3>1, <3>2, <3>3, FormatFacts DEF Bits
    <2>8. ToUnsigned(r, IntBits) = n
      BY <1>0, <2>2, <2>3, <2>5, <2>6, <2>7 DEF ToUnsigned
    <2> QED BY <1>4, <2>8 DEF r
  <1> QED BY <1>2, <1>3, <1>4

\* The mantissa moved by the exponent is the whole part of the number.
LEMMA WholePart ==
  ASSUME NEW x \in Double
  PROVE  /\ Exponent(x) \in Int
         /\ Exponent(x) < 0 => Whole(Val(x)) = 0
         /\ Exponent(x) >= 0 =>
              /\ Magnitude(x) \in Nat
              /\ 2 ^ Exponent(x) <= Magnitude(x)
              /\ Magnitude(x) < 2 ^ (Exponent(x) + 1)
              /\ Whole(Val(x)) = IF x.s = 0 THEN Magnitude(x) ELSE -Magnitude(x)
  <1> DEFINE E == Exponent(x)
             P == 2 ^ (x.e - 1)
             w == WithHidden(x)
  <1>1. /\ x.s \in {0, 1} /\ x.e \in Nat /\ x.m \in Nat /\ x.m < Hidden
        /\ Hidden \in Nat /\ Bias \in Nat /\ Bias >= 1
    BY DoubleFacts, FormatFacts
  <1>2. E \in Int /\ E = x.e - Bias
    BY <1>1 DEF Exponent
  <1>3. One \in Nat /\ One >= 1
    <2>1. Bias + MantBits - 1 \in Nat
      BY <1>1, WidthFacts
    <2> QED BY <2>1, PowerIsNat DEF One
  <1>4. Whole(Val(x)) = IF x.s = 0 THEN Size(x) \div One ELSE -(Size(x) \div One)
    <2>1. Size(x) \in Nat /\ Val(x) = (IF x.s = 0 THEN Size(x) ELSE -Size(x))
      BY SizeFacts
    <2>2. 0 \div One = 0
      BY <1>3
    <2>3. \A k \in Nat : k = 0 => -k = 0
      BY NegatedZero
    <2>4. CASE x.s = 0
      BY <2>1, <2>4 DEF Whole
    <2>5. CASE x.s # 0 /\ Size(x) = 0
      <3>1. Val(x) = 0
        BY <2>1, <2>3, <2>5
      <3>2. Whole(0) = 0
        BY <2>2 DEF Whole
      <3>3. -(Size(x) \div One) = 0
        BY <2>2, <2>3, <2>5
      <3> QED BY <2>5, <3>1, <3>2, <3>3
    <2>6. CASE x.s # 0 /\ Size(x) # 0
      <3>1. Val(x) < 0 /\ Abs(Val(x)) = Size(x)
        BY <2>1, <2>6 DEF Abs
      <3> QED BY <2>6, <3>1 DEF Whole
    <2> QED BY <2>4, <2>5, <2>6
  <1>5. ASSUME E < 0 PROVE Size(x) \div One = 0
    <2>1. Size(x) < One
      <3>1. CASE x.e = 0
        <4>1. 2 ^ MantBits <= 2 ^ (Bias + MantBits - 1)
          <5>1. Bias + MantBits - 1 \in Nat /\ MantBits <= Bias + MantBits - 1
            BY <1>1, WidthFacts
          <5> QED BY <5>1, PowerGrows, WidthFacts
        <4>2. 2 ^ (AddExp(x) - 1) = 1 /\ Significand(x) = x.m
          BY <3>1 DEF AddExp, Significand
        <4>3. Size(x) = x.m
          BY <1>1, <4>2 DEF Size
        <4> QED BY <1>1, <1>3, <4>1, <4>3 DEF Hidden, One
      <3>2. CASE x.e # 0
        <4>1. Significand(x) < 2 * Hidden /\ AddExp(x) = x.e /\ Significand(x) \in Nat
          BY <3>2, SizeFacts DEF AddExp
        <4>2. P \in Nat /\ P >= 1 /\ x.e - 1 \in Nat
          BY <1>1, <3>2, PowerIsNat
        <4>3. (2 * Hidden) * P <= One
          <5>1. 2 ^ (x.e - 1 + (MantBits + 1)) <= 2 ^ (Bias + MantBits - 1)
            <6>1. /\ x.e - 1 + (MantBits + 1) \in Nat /\ Bias + MantBits - 1 \in Nat
                  /\ x.e - 1 + (MantBits + 1) <= Bias + MantBits - 1
              BY <1>1, <1>2, <1>5, <4>2, WidthFacts
            <6> QED BY <6>1, PowerGrows
          <5>2. 2 ^ (x.e - 1 + (MantBits + 1)) = P * 2 ^ (MantBits + 1)
            <6>1. MantBits + 1 \in Nat
              BY WidthFacts
            <6> QED BY <4>2, <6>1, PowerAdds
          <5>3. 2 ^ (MantBits + 1) = 2 * Hidden
            BY PowerDoubles, WidthFacts DEF Hidden
          <5>4. P * (2 * Hidden) = (2 * Hidden) * P
            BY <1>1, <4>2
          <5> QED BY <5>1, <5>2, <5>3, <5>4 DEF One
        <4> HIDE DEF P
        <4>4. Significand(x) * P < (2 * Hidden) * P
          BY <1>1, <4>1, <4>2, ProductFacts
        <4>5. Significand(x) * P \in Nat /\ (2 * Hidden) * P \in Nat
          BY <1>1, <4>1, <4>2, ProductFacts
        <4> QED BY <1>3, <4>1, <4>3, <4>4, <4>5 DEF Size, P
      <3> QED BY <3>1, <3>2
    <2>2. Size(x) \in Nat
      BY SizeFacts
    <2> QED BY <1>3, <2>1, <2>2, QuotientIs
  <1>6. ASSUME E >= 0
        PROVE  /\ Magnitude(x) \in Nat
               /\ 2 ^ E <= Magnitude(x) /\ Magnitude(x) < 2 ^ (E + 1)
               /\ Size(x) \div One = Magnitude(x)
    <2>1. x.e >= 1 /\ x.e - 1 \in Nat /\ E \in Nat
      BY <1>1, <1>2, <1>6
    <2>2. Size(x) = w * P
      BY <2>1 DEF Size, Significand, AddExp
    <2>3. w \in Nat /\ Hidden <= w /\ w < 2 * Hidden /\ w >= 1
      BY <1>1, FormatFacts DEF WithHidden
    <2>4. P \in Nat /\ P >= 1
      BY <2>1, PowerIsNat
    <2>5. 2 ^ E \in Nat /\ 2 ^ E >= 1 /\ 2 ^ (E + 1) = 2 * 2 ^ E
      BY <2>1, PowerIsNat, PowerDoubles
    <2>6. CASE E > MantBits
      <3> DEFINE D == 2 ^ (E - MantBits)
      <3>1. D \in Nat /\ D >= 1 /\ 2 ^ E = Hidden * D
        <4>1. MantBits <= E
          BY <2>1, <2>6, WidthFacts
        <4> QED BY <2>1, <4>1, WidthFacts, PowerSplits, Zenon DEF Hidden
      <3>2. P = D * One
        <4> DEFINE b == Bias + MantBits - 1
        <4>1. b \in Nat /\ E - MantBits \in Nat /\ x.e - 1 = (E - MantBits) + b
          BY <1>1, <1>2, <2>1, <2>6, WidthFacts
        <4> HIDE DEF b, E
        <4>2. 2 ^ ((E - MantBits) + b) = D * 2 ^ b
          BY <4>1, PowerAdds
        <4>3. One = 2 ^ b
          BY DEF One, b
        <4> QED BY <4>1, <4>2, <4>3
      <3>3. Magnitude(x) = w * D
        BY <2>6 DEF Magnitude
      <3> HIDE DEF D, E, w, P
      <3>4. w * D \in Nat /\ Hidden * D <= w * D /\ w * D < (2 * Hidden) * D
        BY <1>1, <2>3, <3>1, ProductFacts
      <3>5. (2 * Hidden) * D = 2 * (Hidden * D)
        BY <1>1, <3>1, ProductFacts
      <3>6. (w * D) * One = w * (D * One)
        BY <1>3, <2>3, <3>1, ProductFacts
      <3>7. ((w * D) * One) \div One = w * D
        BY <1>3, <3>4, CutFacts
      <3> QED BY <2>2, <2>5, <3>1, <3>2, <3>3, <3>4, <3>5, <3>6, <3>7
    <2>7. CASE ~(E > MantBits)
      <3> DEFINE D == 2 ^ (MantBits - E)
      <3>1. D \in Nat /\ D >= 1 /\ Hidden = 2 ^ E * D
        <4>1. E <= MantBits
          BY <2>1, <2>7, WidthFacts
        <4> QED BY <2>1, <4>1, WidthFacts, PowerSplits, Zenon DEF Hidden
      <3>2. One = D * P
        <4> DEFINE a == MantBits - E
                   b == x.e - 1
        <4>1. a \in Nat /\ b \in Nat /\ Bias + MantBits - 1 = a + b
          BY <1>1, <1>2, <2>1, <2>7, WidthFacts
        <4> HIDE DEF a, b
        <4>2. 2 ^ (a + b) = 2 ^ a * 2 ^ b
          BY <4>1, PowerAdds
        <4>3. One = 2 ^ (a + b)
          BY <4>1 DEF One
        <4> QED BY <4>2, <4>3 DEF a, b
      <3>3. Magnitude(x) = w \div D
        BY <2>7 DEF Magnitude
      <3> HIDE DEF D, E, w, P
      <3>4. w \div D \in Nat
        BY <2>3, <3>1, QuotientFacts
      <3>5. 2 ^ E <= w \div D
        <4>1. 2 ^ E * D <= w
          BY <2>3, <3>1
        <4> QED BY <2>3, <2>5, <3>1, <4>1, CutFacts
      <3>6. w \div D < 2 * 2 ^ E
        <4>1. (2 * 2 ^ E) * D = 2 * (2 ^ E * D)
          BY <2>5, <3>1, ProductFacts
        <4>2. w < (2 * 2 ^ E) * D /\ 2 * 2 ^ E \in Nat
          BY <2>3, <2>5, <3>1, <4>1
        <4> QED BY <2>3, <3>1, <4>2, CutFacts
      <3>7. (w * P) \div (D * P) = w \div D
        <4>1. D # 0
          BY <3>1
        <4> QED BY <2>3, <2>4, <3>1, <4>1, CutCommon, Zenon
      <3>8. Size(x) \div One = Magnitude(x)
        BY <2>2, <3>2, <3>3, <3>7, Zenon
      <3> QED BY <2>5, <3>3, <3>4, <3>5, <3>6, <3>8, Zenon
    <2> QED BY <2>6, <2>7
  <1>7. E < 0 => Whole(Val(x)) = 0
    <2>1. \A k \in Nat : k = 0 => -k = 0
      BY NegatedZero
    <2>2. ASSUME E < 0 PROVE Size(x) \div One = 0 /\ -(Size(x) \div One) = 0
      BY <1>5, <2>1, <2>2
    <2> QED BY <1>4, <2>2, Zenon
  <1>8. E >= 0 => Whole(Val(x)) = IF x.s = 0 THEN Magnitude(x) ELSE -Magnitude(x)
    BY <1>4, <1>6, Zenon
  <1> QED BY <1>2, <1>6, <1>7, <1>8, Zenon

LEMMA TruncateFacts ==
  ASSUME NEW bits \in {IntBits, LongBits}, NEW x \in Double
  PROVE  ToSigned(x, bits) = InSigned(Whole(Val(x)), 2 ^ (bits - 1))
  <1> DEFINE top == 2 ^ (bits - 1)
             w == Whole(Val(x))
             r == ToSigned(x, bits)
             E == Exponent(x)
             g == Magnitude(x)
  <1>1. top \in Nat /\ top >= 1 /\ 2 ^ bits = 2 * top /\ bits \in Nat /\ bits - 1 \in Nat
        /\ (bits - 1) + 1 = bits /\ bits >= 1
    BY BitsFacts
  <1>2. E \in Int /\ x.s \in {0, 1}
    BY WholePart, DoubleFacts
  <1>3. CASE E < 0
    <2>1. w = 0
      BY <1>3, WholePart
    <2>2. r = 0
      BY <1>3 DEF ToSigned
    <2> HIDE DEF w, r, top
    <2>3. r = InSigned(w, top)
      BY <1>1, <2>1, <2>2, InSignedFacts
    <2> QED BY <2>3 DEF w, r, top
  <1>4. CASE E >= 0
    <2>1. /\ g \in Nat /\ 2 ^ E <= g /\ g < 2 ^ (E + 1) /\ E \in Nat
          /\ w = IF x.s = 0 THEN g ELSE -g
      BY <1>2, <1>4, WholePart
    <2>2. 2 ^ E \in Nat /\ 2 ^ (E + 1) \in Nat
      BY <2>1, PowerIsNat
    <2>3. CASE E > bits - 1
      <3>1. 2 * top <= 2 ^ E
        BY <1>1, <2>1, <2>3, PowerGrows
      <3>2. r = IF x.s = 0 THEN top - 1 ELSE -top
        BY <2>1, <2>3 DEF ToSigned
      <3> HIDE DEF w, r, top, E, g
      <3>3. g >= 2 * top
        BY <1>1, <2>1, <2>2, <3>1
      <3>4. w \in Int /\ (x.s = 0 => w >= 2 * top) /\ (x.s # 0 => w <= -(2 * top))
        BY <1>1, <2>1, <3>3
      <3>5. r = InSigned(w, top)
        BY <1>1, <3>2, <3>4, InSignedFacts
      <3> QED BY <3>5 DEF w, r, top
    <2>4. CASE ~(E > bits - 1)
      <3>1. E <= bits - 1 /\ E + 1 <= bits /\ E + 1 \in Nat
        BY <1>1, <2>1, <2>4
      <3>2. 2 ^ (E + 1) <= 2 * top
        BY <1>1, <3>1, PowerGrows
      <3>3. g < 2 * top
        <4> HIDE DEF top, E, g
        <4> QED BY <1>1, <2>1, <2>2, <3>2
      <3>4. r = InSigned(IF x.s = 0 THEN g ELSE -g, top)
        BY <1>1, <1>2, <2>1, <3>1, <3>3, SignedFacts
      <3> HIDE DEF w, r, top, E, g
      <3>5. r = InSigned(w, top)
        BY <2>1, <3>4, Zenon
      <3> QED BY <3>5 DEF w, r, top
    <2> QED BY <2>3, <2>4
  <1> QED BY <1>2, <1>3, <1>4

\* The bits of 1.0 are the border of the unsigned conversions.
LEMMA BorderFacts ==
  ASSUME NEW x \in Double
  PROVE  /\ One \in Nat
         /\ Bits(x) <= Bias * Hidden <=> Size(x) <= One
  <1> DEFINE o == [s |-> 0, e |-> Bias, m |-> 0]
  <1>1. o \in Double /\ Bits(o) = Bias * Hidden /\ Bits(o) \in Nat
    <2>1. o \in Double
      BY FormatFacts DEF Double
    <2>2. Bits(o) = Bias * Hidden + 0
      BY DEF Bits
    <2> QED BY <2>1, <2>2, FormatFacts, BitsAreInt
  <1>2. Size(o) = One /\ Size(o) \in Nat
    <2>1. AddExp(o) = Bias /\ Significand(o) = Hidden
      BY FormatFacts DEF AddExp, Significand, WithHidden
    <2>2. Size(o) = 2 ^ MantBits * 2 ^ (Bias - 1)
      BY <2>1, Zenon DEF Size, Hidden
    <2>3. MantBits \in Nat /\ Bias - 1 \in Nat /\ MantBits + (Bias - 1) = Bias + MantBits - 1
      BY WidthFacts, FormatFacts
    <2>4. 2 ^ (MantBits + (Bias - 1)) = 2 ^ MantBits * 2 ^ (Bias - 1)
      BY <2>3, PowerAdds
    <2>5. Size(o) = One
      BY <2>2, <2>3, <2>4, Zenon DEF One
    <2> QED BY <1>1, <2>5, SizeFacts
  <1> HIDE DEF o
  <1>3. Bits(x) \in Nat /\ Size(x) \in Nat
    BY BitsAreInt, SizeFacts
  <1>4. Bits(x) <= Bits(o) <=> Size(x) <= Size(o)
    BY <1>1, <1>2, <1>3, SizeOrder, SameSize
  <1> QED BY <1>1, <1>2, <1>4

LEMMA UnsignedFacts ==
  ASSUME NEW bits \in {IntBits, LongBits}, NEW x \in Double
  PROVE  ToUnsigned(x, bits) =
           IF Val(x) <= One THEN 0
           ELSE IF Whole(Val(x)) < 2 ^ bits THEN Whole(Val(x)) ELSE 2 ^ bits - 1
  <1> DEFINE w == Whole(Val(x))
             E == Exponent(x)
             g == Magnitude(x)
             top == 2 ^ bits
  <1>1. bits \in Nat /\ top \in Nat
    BY BitsFacts, PowerIsNat
  <1>2. /\ Size(x) \in Nat /\ Val(x) = (IF x.s = 0 THEN Size(x) ELSE -Size(x))
        /\ x.s \in {0, 1} /\ One \in Nat
    BY SizeFacts, DoubleFacts, BorderFacts
  <1>3. Val(x) <= One <=> x.s = 1 \/ Bits(x) <= Bias * Hidden
    BY <1>2, BorderFacts
  <1>4. CASE Val(x) <= One
    BY <1>3, <1>4 DEF ToUnsigned
  <1>5. CASE ~(Val(x) <= One)
    <2>1. x.s = 0 /\ ~(Bits(x) <= Bias * Hidden) /\ Size(x) > One
      BY <1>2, <1>3, <1>5
    <2>2. E \in Int /\ E >= 0
      <3>1. x.e >= Bias
        <4>1. ASSUME x.e <= Bias - 1 PROVE FALSE
          <5>0. x.e \in Nat /\ Bias - 1 \in Nat /\ Hidden \in Nat
            BY DoubleFacts, FormatFacts
          <5>1. x.e * Hidden <= (Bias - 1) * Hidden
            BY <4>1, <5>0, ProductFacts, Zenon
          <5>2. (Bias - 1) * Hidden = Bias * Hidden - Hidden
            BY FormatFacts
          <5>3. x.e * Hidden \in Nat /\ Bias * Hidden \in Nat
            BY DoubleFacts, FormatFacts, ProductFacts
          <5> QED BY <2>1, <5>1, <5>2, <5>3, DoubleFacts, FormatFacts DEF Bits
        <4> QED BY <4>1, DoubleFacts, FormatFacts
      <3> QED BY <3>1, DoubleFacts, FormatFacts DEF Exponent
    <2>3. /\ g \in Nat /\ 2 ^ E <= g /\ g < 2 ^ (E + 1) /\ E \in Nat /\ w = g
      BY <2>1, <2>2, WholePart
    <2>4. 2 ^ E \in Nat /\ 2 ^ (E + 1) \in Nat
      BY <2>3, PowerIsNat
    <2>5. ToUnsigned(x, bits) = IF E > bits - 1 THEN top - 1 ELSE g
      BY <2>1 DEF ToUnsigned
    <2>6. CASE E > bits - 1
      <3>1. bits <= E
        BY <1>1, <2>3, <2>6
      <3>2. top <= 2 ^ E
        BY <1>1, <2>3, <3>1, PowerGrows
      <3> HIDE DEF w, E, g, top
      <3>3. ~(w < top)
        BY <1>1, <2>3, <2>4, <3>2
      <3> QED BY <1>5, <2>5, <2>6, <3>3 DEF w, top
    <2>7. CASE ~(E > bits - 1)
      <3>1. E + 1 \in Nat /\ E + 1 <= bits
        BY <1>1, <2>3, <2>7
      <3>2. 2 ^ (E + 1) <= top
        BY <1>1, <3>1, PowerGrows
      <3> HIDE DEF w, E, g, top
      <3>3. w < top
        BY <1>1, <2>3, <2>4, <3>2
      <3> QED BY <1>5, <2>3, <2>5, <2>7, <3>3 DEF w, top
    <2> QED BY <2>6, <2>7
  <1> QED BY <1>4, <1>5

ConvertInv ==
  /\ op = "floatsidf" => \E n \in Ints : args = <<n>> /\ result = FromInteger(n)
  /\ op = "floatunsidf" => \E n \in UInts : args = <<n>> /\ result = FromInteger(n)
  /\ op = "floatdidf" => \E n \in Longs : args = <<n>> /\ result = FromInteger(n)
  /\ op = "fixdfsi" => \E x \in Double : args = <<x>> /\ result = ToSigned(x, IntBits)
  /\ op = "fixdfdi" => \E x \in Double : args = <<x>> /\ result = ToSigned(x, LongBits)
  /\ op = "fixunsdfsi" => \E x \in Double : args = <<x>> /\ result = ToUnsigned(x, IntBits)
  /\ op = "fixunsdfdi" => \E x \in Double : args = <<x>> /\ result = ToUnsigned(x, LongBits)

LEMMA ConvertInvHolds == Spec => []ConvertInv
  <1>1. Init => ConvertInv
    BY DEF Init, ConvertInv
  <1>2. ASSUME ConvertInv, [Next]_vars PROVE ConvertInv'
    <2>1. CASE Convert
      <3>1. CASE \E n \in Ints : Return("floatsidf", <<n>>, FromInteger(n))
        BY <3>1 DEF Return, ConvertInv
      <3>2. CASE \E n \in UInts : Return("floatunsidf", <<n>>, FromInteger(n))
        BY <3>2 DEF Return, ConvertInv
      <3>3. CASE \E n \in Longs : Return("floatdidf", <<n>>, FromInteger(n))
        BY <3>3 DEF Return, ConvertInv
      <3>4. CASE \E n \in ULongs : Return("floatundidf", <<n>>, FromInteger(n))
        BY <3>4 DEF Return, ConvertInv
      <3>5. CASE \E x \in Double :
                   \/ Return("fixdfsi", <<x>>, ToSigned(x, IntBits))
                   \/ Return("fixdfdi", <<x>>, ToSigned(x, LongBits))
                   \/ Return("fixunsdfsi", <<x>>, ToUnsigned(x, IntBits))
                   \/ Return("fixunsdfdi", <<x>>, ToUnsigned(x, LongBits))
                   \/ Return("truncdfsf2", <<x>>, Truncated(x))
        BY <3>5 DEF Return, ConvertInv
      <3>6. CASE \E f \in Single : Return("extendsfdf2", <<f>>, Extended(f))
        BY <3>6 DEF Return, ConvertInv
      <3> QED BY <2>1, <3>1, <3>2, <3>3, <3>4, <3>5, <3>6, Zenon DEF Convert
    <2>2. CASE Compare
      BY <2>2 DEF Compare, Return, ConvertInv
    <2>3. CASE Calculate
      BY <2>3 DEF Calculate, Return, ConvertInv
    <2>4. CASE UNCHANGED vars
      BY <1>2, <2>4, Zenon DEF ConvertInv, vars
    <2> QED BY <1>2, <2>1, <2>2, <2>3, <2>4 DEF Next
  <1> QED BY <1>1, <1>2, PTL DEF Spec

LEMMA IntegersReturnHolds == ConvertInv => IntegersReturn
  <1> SUFFICES ASSUME ConvertInv PROVE IntegersReturn
    OBVIOUS
  <1>1. ASSUME op = "floatsidf" PROVE ToSigned(result, IntBits) = args[1]
    <2>1. PICK n \in Ints : args = <<n>> /\ result = FromInteger(n)
      BY <1>1, Zenon DEF ConvertInv
    <2>2. n \in SignedRange(IntBits) /\ n \in Int
      BY <2>1, BitsFacts DEF Ints, SignedRange
    <2>3. ASSUME n # 0 PROVE KeptPart(Abs(n)) = Abs(n)
      <3>1. Abs(n) \in Nat /\ Abs(n) >= 1
        BY <2>2, <2>3 DEF Abs
      <3>2. Abs(n) < 2 ^ IntBits
        BY <2>2, BitsFacts DEF SignedRange, Abs
      <3>3. 2 ^ IntBits <= Hidden
        BY PowerGrows, WidthFacts DEF Hidden
      <3>4. Abs(n) <= 2 * Hidden
        BY <3>1, <3>2, <3>3, BitsFacts, FormatFacts
      <3> QED BY <3>1, <3>2, <3>4, BitsFacts, KeptFacts
    <2>4. ToSigned(result, IntBits) =
            IF n = 0 THEN 0 ELSE IF n < 0 THEN -KeptPart(Abs(n)) ELSE KeptPart(Abs(n))
      BY <2>1, <2>2, SignedReturns, Zenon
    <2>5. n # 0 => (IF n < 0 THEN -Abs(n) ELSE Abs(n)) = n
      BY <2>2 DEF Abs
    <2>6. ToSigned(result, IntBits) = n
      BY <2>3, <2>4, <2>5, Zenon
    <2> QED BY <2>1, <2>6
  <1>2. ASSUME op = "floatunsidf"
        PROVE  ToUnsigned(result, IntBits) = IF args[1] = 1 THEN 0 ELSE args[1]
    <2>1. PICK n \in UInts : args = <<n>> /\ result = FromInteger(n)
      BY <1>2, Zenon DEF ConvertInv
    <2>2. args[1] = n
      BY <2>1
    <2> QED BY <1>2, <2>1, <2>2, UnsignedReturns
  <1>3. ASSUME op = "floatdidf"
        PROVE  LET back == ToSigned(result, LongBits) IN
               IF Abs(args[1]) <= 2 * Hidden THEN back = args[1]
               ELSE /\ Abs(back) <= Abs(args[1])
                    /\ Abs(args[1] - back) * Hidden < Abs(args[1])
    <2>1. PICK n \in Longs : args = <<n>> /\ result = FromInteger(n)
      BY <1>3, Zenon DEF ConvertInv
    <2> DEFINE back == ToSigned(result, LongBits)
               v == Abs(n)
    <2>2. n \in SignedRange(LongBits) /\ n \in Int /\ args[1] = n
      BY <2>1, BitsFacts DEF Longs, SignedRange
    <2>3. back = IF n = 0 THEN 0 ELSE IF n < 0 THEN -KeptPart(v) ELSE KeptPart(v)
      BY <2>1, <2>2, SignedReturns, Zenon
    <2>4. v < 2 ^ LongBits
      BY <2>2, BitsFacts DEF SignedRange, Abs
    <2>5. v \in Nat /\ (n # 0 => v >= 1) /\ n = (IF n < 0 THEN -v ELSE v)
      BY <2>2 DEF Abs
    <2>6. n # 0 => /\ KeptPart(v) \in Nat /\ KeptPart(v) <= v
                   /\ v <= 2 * Hidden => KeptPart(v) = v
                   /\ (v - KeptPart(v)) * Hidden < v
      BY <2>4, <2>5, BitsFacts, KeptFacts
    <2>7. CASE n = 0
      <3>1. back = n /\ v <= 2 * Hidden
        BY <2>3, <2>7, FormatFacts DEF Abs
      <3> QED BY <2>2, <3>1
    <2>8. CASE n # 0
      <3>1. v <= 2 * Hidden => back = n
        <4> HIDE DEF back, v
        <4> QED BY <2>3, <2>5, <2>6, <2>8
      <3>2. Abs(back) = KeptPart(v) /\ Abs(n - back) = v - KeptPart(v)
        <4>1. v \in Nat /\ KeptPart(v) \in Nat /\ KeptPart(v) <= v
          BY <2>5, <2>6, <2>8
        <4>2. n = (IF n < 0 THEN -v ELSE v) /\ back = (IF n < 0 THEN -KeptPart(v) ELSE KeptPart(v))
          BY <2>3, <2>5, <2>8
        <4> HIDE DEF back, v
        <4>3. CASE n < 0
          <5>1. n = -v /\ back = -KeptPart(v)
            BY <4>2, <4>3
          <5> QED BY <4>1, <5>1 DEF Abs
        <4>4. CASE ~(n < 0)
          <5>1. n = v /\ back = KeptPart(v)
            BY <4>2, <4>4
          <5> QED BY <4>1, <5>1 DEF Abs
        <4> QED BY <4>3, <4>4
      <3>3. IF v <= 2 * Hidden THEN back = n
            ELSE Abs(back) <= v /\ Abs(n - back) * Hidden < v
        <4> HIDE DEF back, v
        <4> QED BY <2>6, <2>8, <3>1, <3>2
      <3> QED BY <2>2, <3>3
    <2> QED BY <2>7, <2>8
  <1> QED BY <1>1, <1>2, <1>3 DEF IntegersReturn

LEMMA ConversionsTruncateHolds == ConvertInv => ConversionsTruncate
  <1> SUFFICES ASSUME ConvertInv PROVE ConversionsTruncate
    OBVIOUS
  <1> DEFINE w == Whole(Val(args[1]))
  <1>1. ASSUME op = "fixdfsi" PROVE result = InSigned(w, 2 ^ (IntBits - 1))
    <2>1. PICK x \in Double : args = <<x>> /\ result = ToSigned(x, IntBits)
      BY <1>1, Zenon DEF ConvertInv
    <2>2. args[1] = x
      BY <2>1
    <2> QED BY <2>1, <2>2, TruncateFacts, Zenon
  <1>2. ASSUME op = "fixdfdi" PROVE result = InSigned(w, 2 ^ (LongBits - 1))
    <2>1. PICK x \in Double : args = <<x>> /\ result = ToSigned(x, LongBits)
      BY <1>2, Zenon DEF ConvertInv
    <2>2. args[1] = x
      BY <2>1
    <2> QED BY <2>1, <2>2, TruncateFacts, Zenon
  <1> DEFINE Cut(bits) == IF Val(args[1]) <= One THEN 0
                          ELSE IF w < 2 ^ bits THEN w ELSE 2 ^ bits - 1
  <1>3. ASSUME op = "fixunsdfsi" PROVE result = Cut(IntBits)
    <2>1. PICK x \in Double : args = <<x>> /\ result = ToUnsigned(x, IntBits)
      BY <1>3, Zenon DEF ConvertInv
    <2>2. args[1] = x
      BY <2>1
    <2> QED BY <2>1, <2>2, UnsignedFacts, Zenon
  <1>4. ASSUME op = "fixunsdfdi" PROVE result = Cut(LongBits)
    <2>1. PICK x \in Double : args = <<x>> /\ result = ToUnsigned(x, LongBits)
      BY <1>4, Zenon DEF ConvertInv
    <2>2. args[1] = x
      BY <2>1
    <2> QED BY <2>1, <2>2, UnsignedFacts, Zenon
  <1>5. ASSUME NEW f \in {<<"fixunsdfsi", IntBits>>, <<"fixunsdfdi", LongBits>>}, op = f[1]
        PROVE  result = Cut(f[2])
    <2>1. CASE f = <<"fixunsdfsi", IntBits>>
      <3>1. op = "fixunsdfsi" /\ f[2] = IntBits
        BY <1>5, <2>1
      <3> HIDE DEF Cut
      <3> QED BY <1>3, <3>1
    <2>2. CASE f = <<"fixunsdfdi", LongBits>>
      <3>1. op = "fixunsdfdi" /\ f[2] = LongBits
        BY <1>5, <2>2
      <3> HIDE DEF Cut
      <3> QED BY <1>4, <3>1
    <2> QED BY <1>5, <2>1, <2>2
  <1> QED BY <1>1, <1>2, <1>5, Zenon DEF ConversionsTruncate

\* What becomes of an integer on its way through a double, for every width of the
\* formats, and every integer and double: whole up to MantBits + 1 bits, the first
\* MantBits + 1 bits beyond.  On the way back every double becomes its whole part,
\* wrapped around or cut where the type has no room for it, and an unsigned 1
\* becomes 0.
THEOREM IntegersSurviveAlways == Spec => []IntegersSurvive
  <1>1. ConvertInv => IntegersSurvive
    BY IntegersReturnHolds, ConversionsTruncateHolds, Zenon DEF IntegersSurvive
  <1> QED BY <1>1, ConvertInvHolds, PTL

-----------------------------------------------------------------------------
(* Packing, sums and differences *)

\* A result within the range of the exponents is packed as it is, and no other
\* result is a normal number.
LEMMA PackedFacts ==
  ASSUME NEW s \in {0, 1}, NEW exp \in Int, NEW f \in Nat, NEW r \in Packed(s, exp, f)
  PROVE  /\ Normal(r) => 1 <= exp /\ exp < MaxExp
         /\ 1 <= exp /\ exp < MaxExp => r = [s |-> s, e |-> exp, m |-> f % Hidden]
  <1>1. CASE exp >= MaxExp
    <2>1. r = Inf(s)
      BY <1>1 DEF Packed
    <2> QED BY <1>1, <2>1, FormatFacts DEF Inf, Normal, Finite
  <1>2. CASE exp <= 0
    <2>1. r.e = 0
      BY <1>2, FormatFacts DEF Packed
    <2> QED BY <1>2, <2>1 DEF Normal
  <1>3. CASE 1 <= exp /\ exp < MaxExp
    BY <1>3, FormatFacts DEF Packed
  <1> QED BY <1>1, <1>2, <1>3, FormatFacts

\* A mantissa with its hidden bit, packed, is the mantissa times the unit.
LEMMA PackedValue ==
  ASSUME NEW s \in {0, 1}, NEW exp \in Int, 1 <= exp, exp < MaxExp,
         NEW c \in Nat, Hidden <= c, c < 2 * Hidden,
         NEW r, r = [s |-> s, e |-> exp, m |-> c - Hidden]
  PROVE  /\ r \in Double /\ Normal(r) /\ r.s = s /\ r.e = exp
         /\ Significand(r) = c /\ Ulp(r) = 2 ^ (exp - 1) /\ Size(r) = c * 2 ^ (exp - 1)
  <1>1. r.s = s /\ r.e = exp /\ r.m = c - Hidden
    OBVIOUS
  <1>2. r \in Double /\ Normal(r)
    BY FormatFacts DEF Double, Normal, Finite
  <1>3. Significand(r) = c /\ AddExp(r) = exp
    BY <1>1, FormatFacts DEF Significand, WithHidden, AddExp
  <1> QED BY <1>1, <1>2, <1>3 DEF Ulp, Size

LEMMA RemainderOfHidden ==
  ASSUME NEW c \in Nat, Hidden <= c, c < 2 * Hidden
  PROVE  c % Hidden = c - Hidden /\ (c - Hidden) % Hidden = c - Hidden
  <1>1. c - Hidden \in 0 .. Hidden - 1 /\ Hidden \in Nat /\ Hidden >= 1
    BY FormatFacts
  <1>2. \A u \in Nat, d \in Nat : d >= 1 /\ u < d => u % d = u
    OBVIOUS
  <1>3. \A u \in Nat, d \in Nat : d >= 1 /\ u < d => (u + d) % d = u
    OBVIOUS
  <1>4. (c - Hidden) + Hidden = c
    BY <1>1
  <1> QED BY <1>1, <1>2, <1>3, <1>4

\* r is a normal number of this sign, exponent and size.
IsNumber(r, s, e, size) ==
  r \in Double /\ Normal(r) /\ r.s = s /\ r.e = e /\ Size(r) = size

LEMMA SumFacts ==
  ASSUME NEW s \in {0, 1}, NEW exp \in Int, 1 <= exp, exp < MaxExp,
         NEW c \in Nat, Hidden <= c, c < 4 * Hidden, NEW r \in SumOf(s, exp, c)
  PROVE  /\ c < 2 * Hidden => IsNumber(r, s, exp, c * 2 ^ (exp - 1))
         /\ c >= 2 * Hidden /\ (Normal(r) \/ exp + 1 < MaxExp) =>
              IsNumber(r, s, exp + 1, (c \div 2) * 2 ^ exp)
  <1>1. ASSUME c < 2 * Hidden
        PROVE  IsNumber(r, s, exp, c * 2 ^ (exp - 1))
    <2>1. r \in Packed(s, exp, c)
      BY <1>1, FormatFacts DEF SumOf
    <2>2. r = [s |-> s, e |-> exp, m |-> c - Hidden]
      BY <1>1, <2>1, PackedFacts, RemainderOfHidden
    <2> QED BY <1>1, <2>2, PackedValue DEF IsNumber
  <1>2. ASSUME c >= 2 * Hidden, Normal(r) \/ exp + 1 < MaxExp
        PROVE  IsNumber(r, s, exp + 1, (c \div 2) * 2 ^ exp)
    <2> DEFINE h == c \div 2
    <2>1. r \in Packed(s, exp + 1, h)
      BY <1>2, FormatFacts DEF SumOf
    <2>2. h \in Nat /\ Hidden <= h /\ h < 2 * Hidden
      BY <1>2, FormatFacts
    <2> HIDE DEF h
    <2> DEFINE next == exp + 1
    <2>3. r \in Packed(s, next, h) /\ next \in Int /\ 1 <= next
          /\ (Normal(r) \/ next < MaxExp) /\ next - 1 = exp
      BY <1>2, <2>1
    <2> HIDE DEF next
    <2>4. next < MaxExp /\ r = [s |-> s, e |-> next, m |-> h - Hidden]
      BY <2>2, <2>3, PackedFacts, RemainderOfHidden
    <2>5. /\ r \in Double /\ Normal(r) /\ r.s = s /\ r.e = next
          /\ Size(r) = h * 2 ^ (next - 1)
      BY <2>2, <2>3, <2>4, PackedValue
    <2>6. Size(r) = h * 2 ^ exp
      BY <2>3, <2>5, Zenon
    <2> QED BY <2>5, <2>6 DEF h, next, IsNumber
  <1> QED BY <1>1, <1>2

\* How far a difference of mantissas is moved up.
MovedUp(c) == MantBits - TopBit(c)

LEMMA MovedUpFacts ==
  ASSUME NEW c \in Nat, c >= 1, c < 2 * Hidden
  PROVE  /\ MovedUp(c) \in Nat
         /\ TopBit(c) \in Nat /\ 2 ^ TopBit(c) <= c /\ c < 2 ^ (TopBit(c) + 1)
         /\ c * 2 ^ MovedUp(c) \in Nat
         /\ Hidden <= c * 2 ^ MovedUp(c) /\ c * 2 ^ MovedUp(c) < 2 * Hidden
  <1> DEFINE k == TopBit(c)
             D == 2 ^ (MantBits - k)
  <1>1. 2 * Hidden = 2 ^ (MantBits + 1) /\ MantBits + 1 \in Nat
        /\ MantBits + 1 <= WordBits + LongBits
    <2>1. MantBits + 1 \in Nat /\ MantBits + 1 <= WordBits + LongBits
      BY FormatAssumption DEF WordBits
    <2> QED BY <2>1, WidthFacts, PowerDoubles DEF Hidden
  <1>2. k \in Nat /\ 2 ^ k <= c /\ c < 2 ^ (k + 1)
    BY <1>1, TopBitFacts
  <1>3. 2 ^ (k + 1) = 2 * 2 ^ k /\ 2 ^ k \in Nat
    BY <1>2, PowerDoubles, PowerIsNat
  <1>4. k <= MantBits
    <2>1. ASSUME MantBits < k PROVE FALSE
      <3>1. 2 * Hidden <= 2 ^ k
        BY <1>2, <2>1, PowerGrows, WidthFacts DEF Hidden
      <3> HIDE DEF k
      <3> QED BY <1>2, <1>3, <3>1, FormatFacts
    <2> QED BY <1>2, <2>1, WidthFacts
  <1>5. D \in Nat /\ D >= 1 /\ Hidden = 2 ^ k * D /\ MantBits - k \in Nat
    BY <1>2, <1>4, WidthFacts, PowerSplits, Zenon DEF Hidden
  <1> HIDE DEF k, D
  <1>6. c * D \in Nat /\ 2 ^ k * D <= c * D /\ c * D < (2 * 2 ^ k) * D
    BY <1>2, <1>3, <1>5, ProductFacts
  <1>7. (2 * 2 ^ k) * D = 2 * (2 ^ k * D)
    BY <1>3, <1>5, ProductFacts
  <1>8. c * D \in Nat /\ Hidden <= c * D /\ c * D < 2 * Hidden
    BY <1>5, <1>6, <1>7
  <1> QED BY <1>2, <1>5, <1>8 DEF MovedUp, k, D

LEMMA DifferenceFacts ==
  ASSUME NEW s \in {0, 1}, NEW exp \in Int, 1 <= exp, exp < MaxExp,
         NEW c \in Nat, c >= 1, c < 2 * Hidden, NEW r \in DifferenceOf(s, exp, c),
         Normal(r) \/ exp - MovedUp(c) >= 1
  PROVE  IsNumber(r, s, exp - MovedUp(c), c * 2 ^ (exp - 1))
  <1> DEFINE up == MovedUp(c)
             b == c * 2 ^ up
  <1>1. up \in Nat /\ b \in Nat /\ Hidden <= b /\ b < 2 * Hidden
    BY MovedUpFacts
  <1>2. r \in Packed(s, exp - up, b - Hidden)
    <2>1. c # 0
      OBVIOUS
    <2> QED BY <2>1, Zenon DEF DifferenceOf, MovedUp
  <1> HIDE DEF up, b
  <1>3. exp - up \in Int /\ b - Hidden \in Nat
    BY <1>1, FormatFacts
  <1>4. 1 <= exp - up /\ exp - up < MaxExp
    <2>1. Normal(r) => 1 <= exp - up
      BY <1>2, <1>3, PackedFacts
    <2> QED BY <1>1, <2>1, FormatFacts DEF up
  <1>5. r = [s |-> s, e |-> exp - up, m |-> b - Hidden]
    BY <1>1, <1>2, <1>3, <1>4, PackedFacts, RemainderOfHidden
  <1>6. r \in Double /\ Normal(r) /\ r.s = s /\ r.e = exp - up
        /\ Size(r) = b * 2 ^ (exp - up - 1)
    BY <1>1, <1>3, <1>4, <1>5, PackedValue
  <1>7. b * 2 ^ (exp - up - 1) = c * 2 ^ (exp - 1)
    <2> DEFINE a == exp - up - 1
    <2>1. a \in Nat /\ a + up = exp - 1
      BY <1>1, <1>4
    <2> HIDE DEF a
    <2>2. 2 ^ (a + up) = 2 ^ a * 2 ^ up /\ 2 ^ a \in Nat /\ 2 ^ up \in Nat
      BY <1>1, <2>1, PowerAdds, PowerIsNat
    <2>3. (c * 2 ^ up) * 2 ^ a = c * (2 ^ up * 2 ^ a) /\ 2 ^ up * 2 ^ a = 2 ^ a * 2 ^ up
      BY <2>2, ProductFacts
    <2> QED BY <2>1, <2>2, <2>3 DEF a, b
  <1> QED BY <1>6, <1>7 DEF IsNumber, up

-----------------------------------------------------------------------------
(* Sums of normal numbers *)

LEMMA NormalFacts ==
  ASSUME NEW x \in Double, Normal(x)
  PROVE  /\ x.s \in {0, 1} /\ x.e \in Nat /\ 1 <= x.e /\ x.e < MaxExp
         /\ AddExp(x) = x.e
         /\ Significand(x) \in Nat /\ Hidden <= Significand(x)
         /\ Significand(x) < 2 * Hidden
         /\ Ulp(x) = 2 ^ (x.e - 1) /\ Ulp(x) \in Nat /\ Ulp(x) >= 1
         /\ Size(x) = Significand(x) * Ulp(x) /\ Size(x) \in Nat
         /\ Val(x) = IF x.s = 0 THEN Size(x) ELSE -Size(x)
         /\ ~df_isnan(x) /\ ~df_isinf(x) /\ ~df_iszero(x)
  <1>1. x.s \in {0, 1} /\ x.e \in Nat /\ 1 <= x.e /\ x.e < MaxExp
        /\ x.e # 0 /\ x.e # MaxExp
    BY DoubleFacts, FormatFacts DEF Normal, Finite
  <1>2. AddExp(x) = x.e /\ Significand(x) = Hidden + x.m
    BY <1>1 DEF AddExp, Significand, WithHidden
  <1>3. Ulp(x) = 2 ^ (x.e - 1) /\ Size(x) = Significand(x) * Ulp(x)
    BY <1>2 DEF Ulp, Size
  <1>4. Hidden <= Significand(x)
    BY <1>2, DoubleFacts, FormatFacts
  <1>5. Ulp(x) \in Nat /\ Ulp(x) >= 1
    BY SizeFacts DEF Ulp
  <1>6. ~df_isnan(x) /\ ~df_isinf(x) /\ ~df_iszero(x)
    BY <1>1 DEF df_isnan, df_isinf, df_iszero
  <1> QED BY <1>1, <1>2, <1>3, <1>4, <1>5, <1>6, SizeFacts

\* The smaller operand, moved to the exponent of the larger, loses less than a unit
\* of the larger, and is not more than it.
LEMMA AlignFacts ==
  ASSUME NEW b \in Double, NEW t \in Double, Normal(b), Normal(t), ~Smaller(b, t),
         b.e - t.e < WordBits, NEW k \in Aligned(b, t)
  PROVE  /\ b.e - t.e \in Nat
         /\ 2 ^ (b.e - t.e) \in Nat /\ 2 ^ (b.e - t.e) >= 1
         /\ Ulp(b) = 2 ^ (b.e - t.e) * Ulp(t)
         /\ k \in Nat /\ k = Significand(t) \div 2 ^ (b.e - t.e)
         /\ k <= Significand(b)
         /\ k * Ulp(b) \in Nat /\ k * Ulp(b) <= Size(t) /\ Size(t) < k * Ulp(b) + Ulp(b)
  <1> DEFINE d == b.e - t.e
             D == 2 ^ d
             m == Significand(t)
             U == Ulp(b)
             V == Ulp(t)
  <1>1. /\ b.e \in Nat /\ t.e \in Nat /\ 1 <= t.e /\ AddExp(b) = b.e /\ AddExp(t) = t.e
        /\ m \in Nat /\ m < 2 * Hidden /\ Hidden <= Significand(b)
        /\ Significand(b) \in Nat /\ V \in Nat /\ V >= 1 /\ U \in Nat /\ Size(t) = m * V
        /\ U = 2 ^ (b.e - 1) /\ V = 2 ^ (t.e - 1)
    BY NormalFacts
  <1>2. d \in Nat /\ (d = 0 => m <= Significand(b))
    BY <1>1 DEF Smaller
  <1>3. D \in Nat /\ D >= 1
    BY <1>2, PowerIsNat
  <1>4. U = D * V
    <2> DEFINE a == t.e - 1
    <2>1. a \in Nat /\ b.e - 1 = d + a
      BY <1>1, <1>2
    <2> HIDE DEF a, d
    <2>2. 2 ^ (d + a) = 2 ^ d * 2 ^ a
      BY <1>2, <2>1, PowerAdds
    <2> QED BY <1>1, <2>1, <2>2 DEF a
  <1>5. k = m \div D
    <2>1. Aligned(b, t) = ShiftedRight(m, d)
      BY <1>1 DEF Aligned
    <2>2. d < WordBits
      OBVIOUS
    <2> HIDE DEF d, m
    <2> QED BY <2>1, <2>2 DEF ShiftedRight
  <1>6. k \in Nat /\ k * D <= m /\ m < k * D + D
    BY <1>1, <1>3, <1>5, QuotientFacts
  <1>7. k <= Significand(b)
    <2>1. CASE d = 0
      <3>1. D = 1
        <4>1. 2 ^ 0 = 1
          OBVIOUS
        <4> QED BY <2>1, <4>1, Zenon
      <3>2. k * D = k
        BY <1>6, <3>1
      <3> HIDE DEF d, D, m
      <3> QED BY <1>1, <1>2, <1>6, <2>1, <3>2
    <2>2. CASE d # 0
      <3>1. D >= 2
        <4>1. 2 ^ 0 = 1
          OBVIOUS
        <4>2. 0 < d /\ 0 \in Nat
          BY <1>2, <2>2
        <4> HIDE DEF d
        <4>3. 2 * 2 ^ 0 <= 2 ^ d
          BY <1>2, <4>2, PowerGrows
        <4> QED BY <4>1, <4>3
      <3>2. k * 2 <= k * D
        <4> HIDE DEF D
        <4> QED BY <1>3, <1>6, <3>1
      <3> HIDE DEF d, D, m
      <3>3. k * D \in Nat
        BY <1>3, <1>6, ProductFacts
      <3> QED BY <1>1, <1>6, <3>2, <3>3, FormatFacts
    <2> QED BY <2>1, <2>2
  <1>8. k * U \in Nat /\ k * U <= Size(t) /\ Size(t) < k * U + U
    <2> HIDE DEF d, D, m, U, V
    <2>1. k * U = (k * D) * V
      BY <1>1, <1>3, <1>4, <1>6, ProductFacts
    <2>2. k * D \in Nat
      BY <1>3, <1>6, ProductFacts
    <2>3. (k * D) * V <= m * V
      BY <1>1, <1>6, <2>2, ProductFacts
    <2>4. m * V < (k * D + D) * V
      BY <1>1, <1>3, <1>6, <2>2, ProductFacts
    <2>5. (k * D + D) * V = (k * D) * V + D * V
      <3>1. \A p, q, v \in Nat : (p + q) * v = p * v + q * v
        OBVIOUS
      <3> QED BY <1>1, <1>3, <2>2, <3>1
    <2> QED BY <1>1, <1>4, <1>6, <2>1, <2>3, <2>4, <2>5, ProductFacts
  <1> QED BY <1>2, <1>3, <1>4, <1>5, <1>6, <1>7, <1>8

\* Signs, put on the sizes of two numbers and of what came out.
Signed(s, v) == IF s = 0 THEN v ELSE -v

LEMMA SignedDistance ==
  ASSUME NEW p \in Nat, NEW q \in Nat, NEW r \in Nat, NEW e \in Nat,
         NEW s \in {0, 1}, NEW u \in {0, 1},
         s = u => r <= p + q /\ p + q - r < e,
         s # u => q - (p - r) < e /\ 0 <= q - (p - r)
  PROVE  Abs(Signed(s, r) - (Signed(s, p) + Signed(u, q))) < e
  BY DEF Abs, Signed

LEMMA SumClose ==
  ASSUME NEW b \in Double, NEW t \in Double, Normal(b), Normal(t), ~Smaller(b, t),
         b.e - t.e < WordBits, NEW r \in FiniteSums(b, t), Normal(r)
  PROVE  \E z \in {r, b} : Abs(Val(r) - (Val(b) + Val(t))) < Ulp(z)
  <1>1. PICK k \in Aligned(b, t) :
          r \in IF b.s = t.s THEN SumOf(b.s, AddExp(b), Significand(b) + k)
                ELSE DifferenceOf(b.s, AddExp(b), Distance(Significand(b), k))
    BY DEF FiniteSums
  <1> DEFINE m == Significand(b)
             U == Ulp(b)
             e == b.e
  <1>2. /\ e \in Int /\ 1 <= e /\ e < MaxExp /\ AddExp(b) = e
        /\ b.s \in {0, 1} /\ t.s \in {0, 1}
        /\ m \in Nat /\ Hidden <= m /\ m < 2 * Hidden
        /\ U = 2 ^ (e - 1) /\ U \in Nat /\ U >= 1
        /\ Size(b) = m * U /\ Size(b) \in Nat /\ Size(t) \in Nat
        /\ Val(b) = Signed(b.s, Size(b)) /\ Val(t) = Signed(t.s, Size(t))
    BY NormalFacts DEF Signed
  <1>3. k \in Nat /\ k <= m /\ k * U \in Nat /\ k * U <= Size(t) /\ Size(t) < k * U + U
    BY AlignFacts
  <1>4. \A p, q, v \in Nat : /\ (p + q) * v = p * v + q * v
                             /\ q <= p => (p - q) * v = p * v - q * v
    OBVIOUS
  <1>5. CASE b.s = t.s
    <2> DEFINE c == m + k
    <2>1. c \in Nat /\ Hidden <= c /\ c < 4 * Hidden
      BY <1>2, <1>3, FormatFacts
    <2>2. r \in SumOf(b.s, e, c)
      BY <1>1, <1>2, <1>5
    <2>3. c * U = Size(b) + k * U
      BY <1>2, <1>3, <1>4
    <2> HIDE DEF c, m, U, e
    <2>4. CASE c < 2 * Hidden
      <3>1. r \in Double /\ r.s = b.s /\ Size(r) = c * U
        <4>1. IsNumber(r, b.s, e, c * 2 ^ (e - 1))
          BY <1>2, <2>1, <2>2, <2>4, SumFacts, Zenon
        <4> QED BY <1>2, <4>1, Zenon DEF IsNumber
      <3>2. Size(r) \in Nat /\ Val(r) = Signed(b.s, Size(r))
        BY <3>1, SizeFacts DEF Signed
      <3>3. Size(r) <= Size(b) + Size(t) /\ Size(b) + Size(t) - Size(r) < U
        BY <1>2, <1>3, <2>3, <3>1, <3>2
      <3>4. Abs(Val(r) - (Val(b) + Val(t))) < U
        <4>1. Abs(Signed(b.s, Size(r)) - (Signed(b.s, Size(b)) + Signed(t.s, Size(t)))) < U
          BY <1>2, <1>5, <3>2, <3>3, SignedDistance
        <4> QED BY <1>2, <1>5, <3>2, <3>3, <4>1, Zenon
      <3> QED BY <3>4 DEF U
    <2>5. CASE c >= 2 * Hidden
      <3> DEFINE h == c \div 2
      <3>1. r \in Double /\ r.s = b.s /\ r.e = e + 1 /\ Size(r) = h * 2 ^ e
        <4>1. IsNumber(r, b.s, e + 1, (c \div 2) * 2 ^ e)
          BY <1>2, <2>1, <2>2, <2>5, SumFacts, Zenon
        <4> QED BY <4>1, Zenon DEF IsNumber
      <3>2. 2 ^ e = 2 * U
        <4>1. e - 1 \in Nat /\ (e - 1) + 1 = e
          BY <1>2
        <4> QED BY <1>2, <4>1, PowerDoubles
      <3>3. Ulp(r) = 2 * U
        <4>1. Ulp(r) = 2 ^ (r.e - 1)
          BY <3>1, NormalFacts
        <4>2. r.e - 1 = e
          BY <1>2, <3>1
        <4> QED BY <3>2, <4>1, <4>2, Zenon
      <3>4. h \in Nat /\ 2 * h <= c /\ c <= 2 * h + 1
        BY <2>1
      <3> HIDE DEF h
      <3>5. Size(r) = (2 * h) * U
        BY <1>2, <3>1, <3>2, <3>4
      <3>6. (2 * h) * U <= c * U /\ c * U <= (2 * h) * U + U
        <4>1. (2 * h) * U <= c * U /\ c * U <= (2 * h + 1) * U
          BY <1>2, <2>1, <3>4, ProductFacts
        <4>2. (2 * h + 1) * U = (2 * h) * U + U
          BY <1>2, <3>4
        <4> QED BY <4>1, <4>2
      <3>7. Size(r) \in Nat /\ Val(r) = Signed(b.s, Size(r))
        BY <3>1, SizeFacts DEF Signed
      <3>8. Size(r) <= Size(b) + Size(t) /\ Size(b) + Size(t) - Size(r) < 2 * U
        BY <1>2, <1>3, <2>3, <3>5, <3>6, <3>7
      <3>9. 2 * U \in Nat
        BY <1>2
      <3>10. Abs(Val(r) - (Val(b) + Val(t))) < 2 * U
        <4>1. Abs(Signed(b.s, Size(r)) - (Signed(b.s, Size(b)) + Signed(t.s, Size(t)))) < 2 * U
          BY <1>2, <1>5, <3>7, <3>8, <3>9, SignedDistance
        <4> QED BY <1>2, <1>5, <3>7, <3>8, <3>9, <4>1, Zenon
      <3> QED BY <3>3, <3>10
    <2> QED BY <2>1, <2>4, <2>5, FormatFacts
  <1>6. CASE b.s # t.s
    <2> DEFINE c == m - k
    <2>1. c \in Nat /\ c < 2 * Hidden /\ Distance(m, k) = c
      BY <1>2, <1>3, FormatFacts DEF Distance
    <2>2. r \in DifferenceOf(b.s, e, c)
      BY <1>1, <1>2, <1>6, <2>1
    <2>3. c # 0
      <3>1. ASSUME c = 0 PROVE FALSE
        <4>1. r = Zero(0)
          BY <2>2, <3>1 DEF DifferenceOf
        <4> QED BY <4>1 DEF Zero, Normal
      <3> QED BY <3>1
    <2>4. c * U = Size(b) - k * U
      BY <1>2, <1>3, <1>4
    <2> HIDE DEF c, m, U, e
    <2>5. r \in Double /\ r.s = b.s /\ Size(r) = c * U
      <3>1. c >= 1
        BY <2>1, <2>3
      <3>2. IsNumber(r, b.s, e - MovedUp(c), c * 2 ^ (e - 1))
        BY <1>2, <2>1, <2>2, <3>1, DifferenceFacts, Zenon
      <3> QED BY <1>2, <3>2, Zenon DEF IsNumber
    <2>6. Size(r) \in Nat /\ Val(r) = Signed(b.s, Size(r))
      BY <2>5, SizeFacts DEF Signed
    <2>7. 0 <= Size(t) - (Size(b) - Size(r)) /\ Size(t) - (Size(b) - Size(r)) < U
      BY <1>2, <1>3, <2>4, <2>5, <2>6
    <2>8. Abs(Val(r) - (Val(b) + Val(t))) < U
      <3>1. Abs(Signed(b.s, Size(r)) - (Signed(b.s, Size(b)) + Signed(t.s, Size(t)))) < U
        BY <1>2, <1>6, <2>6, <2>7, SignedDistance
      <3> QED BY <1>2, <1>6, <2>6, <2>7, <3>1, Zenon
    <2> QED BY <2>8 DEF U
  <1> QED BY <1>5, <1>6

-----------------------------------------------------------------------------
(* Sums of integers *)

LEMMA ProductCancels ==
  ASSUME NEW a \in Nat, NEW b \in Nat, NEW d \in Nat, d >= 1
  PROVE  /\ a * d = b * d => a = b
         /\ a * d <= b * d => a <= b
         /\ a * d < b * d => a < b
  <1>1. a < b => a * d < b * d
    BY ProductFacts
  <1>2. b < a => b * d < a * d
    BY ProductFacts
  <1>3. a * d \in Nat /\ b * d \in Nat
    BY ProductFacts
  <1> QED BY <1>1, <1>2, <1>3

LEMMA OneFacts == One \in Nat /\ One >= 1 /\ Bias + MantBits - 1 \in Nat
  <1>1. Bias + MantBits - 1 \in Nat
    BY FormatFacts, WidthFacts
  <1> QED BY <1>1, PowerIsNat DEF One

LEMMA Multiples ==
  ASSUME NEW v \in Nat, NEW s \in {0, 1}, NEW d \in Nat, d >= 1, Signed(s, v) % d = 0
  PROVE  \E j \in Nat : v = j * d
  <1> DEFINE w == Signed(s, v)
             q == w \div d
  <1>1. w \in Int
    BY DEF Signed
  <1> HIDE DEF w
  <1>2. q \in Int /\ w = q * d + (w % d)
    BY <1>1
  <1>3. w = q * d
    BY <1>1, <1>2 DEF w
  <1> HIDE DEF q
  <1>4. CASE s = 0
    <2>1. v = q * d
      BY <1>3, <1>4 DEF w, Signed
    <2>2. \A k \in Int : k <= -1 => k * d <= -d
      OBVIOUS
    <2>3. q >= 0
      BY <1>2, <2>1, <2>2
    <2> QED BY <1>2, <2>1, <2>3
  <1>5. CASE s = 1
    <2>1. -v = q * d
      BY <1>3, <1>5 DEF w, Signed
    <2>2. v = (-q) * d
      BY <1>2, <2>1
    <2>3. \A k \in Int : k >= 1 => k * d >= d
      OBVIOUS
    <2>4. q <= 0
      BY <1>2, <2>1, <2>3
    <2>5. -q \in Nat
      BY <1>2, <2>4
    <2> QED BY <2>2, <2>5
  <1> QED BY <1>4, <1>5

\* The place of 1.0 in the mantissa of an integer: what is below it is zero.
Place(x) == Bias + MantBits - x.e

LEMMA SafeFacts ==
  ASSUME NEW x \in Double, SafeInteger(x), ~df_iszero(x)
  PROVE  /\ Normal(x) /\ Bias <= x.e /\ x.e <= Bias + MantBits
         /\ Place(x) \in Nat /\ 2 ^ Place(x) \in Nat /\ 2 ^ Place(x) >= 1
         /\ 2 ^ Place(x) * Ulp(x) = One
         /\ \E j \in Nat : /\ 1 <= j /\ Size(x) = j * One
                           /\ Significand(x) = j * 2 ^ Place(x)
  <1> DEFINE S == Size(x)
             v == Val(x)
  <1>1. S \in Nat /\ S # 0 /\ x.s \in {0, 1} /\ v = Signed(x.s, S)
        /\ x.e \in Nat /\ x.e <= MaxExp
    BY SizeFacts, DoubleFacts DEF Signed
  <1>2. x.e # MaxExp /\ v % One = 0 /\ Abs(v) < 2 * Hidden * One
    BY DEF SafeInteger, Finite
  <1>3. PICK j \in Nat : S = j * One
    <2> HIDE DEF S
    <2> DEFINE d == One
    <2>1. d \in Nat /\ d >= 1 /\ Signed(x.s, S) % d = 0
      BY <1>1, <1>2, OneFacts
    <2> HIDE DEF d
    <2>2. \E j \in Nat : S = j * d
      BY <1>1, <2>1, Multiples
    <2> QED BY <2>2 DEF d
  <1>4. Abs(v) = S
    BY <1>1 DEF Abs, Signed
  <1> HIDE DEF S, v
  <1>5. j >= 1
    BY <1>1, <1>3, OneFacts
  <1>6. S < 2 * Hidden * One
    BY <1>2, <1>4
  <1>7. Bias <= x.e
    <2>1. ASSUME Exponent(x) < 0 PROVE FALSE
      <3>1. Whole(v) = 0
        BY <2>1, WholePart DEF v
      <3>2. S \div One = j
        BY <1>3, CutFacts, OneFacts
      <3>3. v < 0 => Whole(v) = -j
        BY <1>4, <3>2, Zenon DEF Whole
      <3>4. ~(v < 0) => Whole(v) = j
        <4>1. ~(v < 0) => v = S
          BY <1>1 DEF Signed
        <4> QED BY <3>2, <4>1, Zenon DEF Whole
      <3> QED BY <1>5, <3>1, <3>3, <3>4
    <2> QED BY <1>1, <2>1, FormatFacts DEF Exponent
  <1>8. Normal(x) /\ x.e # 0
    BY <1>2, <1>7, FormatFacts DEF Normal, Finite
  <1>9. /\ Significand(x) \in Nat /\ Hidden <= Significand(x)
        /\ Ulp(x) = 2 ^ (x.e - 1) /\ Ulp(x) \in Nat /\ Ulp(x) >= 1
        /\ S = Significand(x) * Ulp(x)
    BY <1>8, NormalFacts DEF S
  <1>10. x.e <= Bias + MantBits
    <2>1. ASSUME Bias + MantBits < x.e PROVE FALSE
      <3>1. 2 * 2 ^ (Bias + MantBits - 1) <= 2 ^ (x.e - 1)
        <4>1. Bias + MantBits - 1 < x.e - 1 /\ x.e - 1 \in Nat
          BY <1>1, <2>1, FormatFacts, WidthFacts
        <4> QED BY <4>1, OneFacts, PowerGrows
      <3>2. 2 * One <= Ulp(x)
        BY <1>9, <3>1 DEF One
      <3>3. Hidden * Ulp(x) <= S
        BY <1>9, FormatFacts, ProductFacts
      <3>4. Hidden * (2 * One) <= Hidden * Ulp(x)
        <4>1. (2 * One) * Hidden <= Ulp(x) * Hidden
          BY <1>9, <3>2, FormatFacts, OneFacts, ProductFacts
        <4>2. 2 * One \in Nat
          BY OneFacts
        <4> QED BY <1>9, <4>1, <4>2, FormatFacts, ProductFacts
      <3>5. Hidden * (2 * One) = 2 * Hidden * One
        BY FormatFacts, OneFacts
      <3>6. Hidden * (2 * One) \in Nat /\ Hidden * Ulp(x) \in Nat
        BY <1>9, FormatFacts, OneFacts, ProductFacts
      <3> QED BY <1>1, <1>6, <3>3, <3>4, <3>5, <3>6
    <2> QED BY <1>1, <2>1, FormatFacts, WidthFacts
  <1>11. Place(x) \in Nat
    BY <1>1, <1>10, FormatFacts, WidthFacts DEF Place
  <1> DEFINE G == 2 ^ Place(x)
  <1>12. G \in Nat /\ G >= 1
    BY <1>11, PowerIsNat
  <1>13. G * Ulp(x) = One
    <2> DEFINE a == Place(x)
               b == x.e - 1
    <2>1. a \in Nat /\ b \in Nat /\ Bias + MantBits - 1 = a + b
      BY <1>1, <1>8, <1>11, FormatFacts, WidthFacts DEF Place
    <2> HIDE DEF a, b
    <2>2. 2 ^ (a + b) = 2 ^ a * 2 ^ b
      BY <2>1, PowerAdds
    <2>3. One = 2 ^ (a + b)
      BY <2>1 DEF One
    <2> QED BY <1>9, <2>2, <2>3 DEF a, b
  <1> HIDE DEF G
  <1>14. Significand(x) = j * G
    <2>1. Significand(x) * Ulp(x) = (j * G) * Ulp(x)
      BY <1>3, <1>9, <1>12, <1>13, ProductFacts
    <2>2. j * G \in Nat
      BY <1>12, ProductFacts
    <2> QED BY <1>9, <2>1, <2>2, ProductCancels
  <1> QED BY <1>3, <1>5, <1>7, <1>8, <1>10, <1>11, <1>12, <1>13, <1>14 DEF S, G

\* Of two integers no bit is cut off when the smaller is moved to the exponent of
\* the larger.
LEMMA IntegersAligned ==
  ASSUME NEW b \in Double, NEW t \in Double, SafeInteger(b), SafeInteger(t),
         ~df_iszero(b), ~df_iszero(t), ~Smaller(b, t), NEW k \in Aligned(b, t)
  PROVE  /\ b.e + 1 < MaxExp
         /\ k \in Nat /\ k <= Significand(b) /\ k * Ulp(b) = Size(t)
         /\ \E j \in Nat : k = j * 2 ^ Place(b)
  <1> DEFINE d == b.e - t.e
             D == 2 ^ d
             G == 2 ^ Place(b)
  <1>1. /\ Normal(b) /\ Normal(t) /\ Bias <= b.e /\ b.e <= Bias + MantBits
        /\ Bias <= t.e /\ Place(b) \in Nat /\ G \in Nat /\ G >= 1
    BY SafeFacts
  <1>2. /\ b.e \in Nat /\ t.e \in Nat /\ AddExp(b) = b.e /\ AddExp(t) = t.e
        /\ Ulp(b) \in Nat /\ Ulp(t) \in Nat /\ Size(t) = Significand(t) * Ulp(t)
    BY <1>1, NormalFacts
  <1>3. d \in Nat /\ d < WordBits
    <2>1. WordBits \in Nat /\ MantBits < WordBits
      BY FormatAssumption DEF WordBits
    <2>2. t.e <= b.e
      BY <1>2 DEF Smaller
    <2> QED BY <1>1, <1>2, <2>1, <2>2, FormatFacts, WidthFacts
  <1>4. b.e + 1 < MaxExp
    <2>1. MantBits < Bias
      BY FormatAssumption
    <2> QED BY <1>1, <1>2, <2>1, FormatFacts, WidthFacts
  <1>5. /\ D \in Nat /\ D >= 1 /\ Ulp(b) = D * Ulp(t)
        /\ k \in Nat /\ k = Significand(t) \div D /\ k <= Significand(b)
    BY <1>1, <1>3, AlignFacts
  <1>6. PICK j \in Nat : Significand(t) = j * 2 ^ Place(t)
    BY SafeFacts
  <1>7. 2 ^ Place(t) = G * D
    <2>1. Place(t) = Place(b) + d
      BY <1>1, <1>2, FormatFacts, WidthFacts DEF Place
    <2> HIDE DEF d
    <2>2. 2 ^ (Place(b) + d) = 2 ^ Place(b) * 2 ^ d
      BY <1>1, <1>3, PowerAdds
    <2> QED BY <2>1, <2>2
  <1> HIDE DEF d, D, G
  <1>8. j * G \in Nat /\ Significand(t) = (j * G) * D
    BY <1>1, <1>5, <1>6, <1>7, ProductFacts
  <1>9. k = j * G
    BY <1>5, <1>8, CutFacts
  <1>10. k * Ulp(b) = Size(t)
    <2>1. k * (D * Ulp(t)) = (k * D) * Ulp(t)
      BY <1>2, <1>5, ProductFacts
    <2>2. Significand(t) = k * D
      BY <1>8, <1>9, Zenon
    <2> QED BY <1>2, <1>5, <2>1, <2>2, Zenon
  <1> QED BY <1>4, <1>5, <1>9, <1>10 DEF G

LEMMA SignedSum ==
  ASSUME NEW p \in Nat, NEW q \in Nat, NEW r \in Nat, NEW s \in {0, 1}, NEW u \in {0, 1},
         s = u => r = p + q, s # u => r = p - q
  PROVE  Signed(s, r) = Signed(s, p) + Signed(u, q)
  BY DEF Signed

\* Where the carry of a sum of integers moves it down by a bit, that bit is zero.
LEMMA CarryIsEven ==
  ASSUME NEW a \in Nat, NEW n \in Nat, NEW U \in Nat, U >= 1,
         2 ^ n * U = One, NEW c \in Nat, c = a * 2 ^ n, c >= 2 * Hidden,
         c * U <= 2 * Hidden * One
  PROVE  2 * (c \div 2) = c
  <1>1. \A h \in Nat : 2 * ((2 * h) \div 2) = 2 * h
    OBVIOUS
  <1>2. CASE n = 0
    <2>1. 2 ^ n = 1
      <3>1. 2 ^ 0 = 1
        OBVIOUS
      <3> QED BY <1>2, <3>1, Zenon
    <2>2. One = U
      BY <2>1
    <2>3. 2 * Hidden \in Nat
      BY FormatFacts
    <2>4. c <= 2 * Hidden
      BY <2>2, <2>3, ProductCancels
    <2>5. c = 2 * Hidden
      BY <2>3, <2>4
    <2> QED BY <1>1, <2>5, FormatFacts
  <1>3. CASE n # 0
    <2> DEFINE P == 2 ^ (n - 1)
    <2>1. 2 ^ n = 2 * P /\ P \in Nat
      <3>1. n - 1 \in Nat /\ (n - 1) + 1 = n
        BY <1>3
      <3> QED BY <3>1, PowerDoubles, PowerIsNat
    <2> HIDE DEF P
    <2>2. c = 2 * (a * P) /\ a * P \in Nat
      BY <2>1, ProductFacts
    <2> QED BY <1>1, <2>2
  <1> QED BY <1>2, <1>3

\* The sum of integers is exact.
LEMMA SumExact ==
  ASSUME NEW b \in Double, NEW t \in Double, SafeInteger(b), SafeInteger(t),
         ~df_iszero(b), ~df_iszero(t), ~Smaller(b, t), NEW r \in FiniteSums(b, t),
         Abs(Val(b) + Val(t)) <= 2 * Hidden * One
  PROVE  Val(r) = Val(b) + Val(t)
  <1>1. PICK k \in Aligned(b, t) :
          r \in IF b.s = t.s THEN SumOf(b.s, AddExp(b), Significand(b) + k)
                ELSE DifferenceOf(b.s, AddExp(b), Distance(Significand(b), k))
    BY DEF FiniteSums
  <1> DEFINE m == Significand(b)
             U == Ulp(b)
             e == b.e
             n == Place(b)
             G == 2 ^ n
  <1>2. /\ Normal(b) /\ Normal(t) /\ Bias <= e
        /\ n \in Nat /\ G \in Nat /\ G >= 1 /\ G * U = One
    BY SafeFacts
  <1>3. /\ e \in Int /\ 1 <= e /\ e < MaxExp /\ AddExp(b) = e
        /\ b.s \in {0, 1} /\ t.s \in {0, 1}
        /\ m \in Nat /\ Hidden <= m /\ m < 2 * Hidden
        /\ U = 2 ^ (e - 1) /\ U \in Nat /\ U >= 1
        /\ Size(b) = m * U /\ Size(b) \in Nat /\ Size(t) \in Nat
        /\ Val(b) = Signed(b.s, Size(b)) /\ Val(t) = Signed(t.s, Size(t))
    BY <1>2, NormalFacts DEF Signed
  <1>4. e + 1 < MaxExp /\ k \in Nat /\ k <= m /\ k * U = Size(t)
    BY IntegersAligned
  <1>5. PICK j \in Nat : k = j * G
    BY IntegersAligned
  <1>6. PICK i \in Nat : m = i * G
    BY SafeFacts
  <1>7. \A p, q, v \in Nat : /\ (p + q) * v = p * v + q * v
                             /\ q <= p => (p - q) * v = p * v - q * v
    OBVIOUS
  <1>8. CASE b.s = t.s
    <2> DEFINE c == m + k
    <2>1. c \in Nat /\ Hidden <= c /\ c < 4 * Hidden
      BY <1>3, <1>4, FormatFacts
    <2>2. r \in SumOf(b.s, e, c)
      BY <1>1, <1>3, <1>8
    <2>3. c * U = Size(b) + Size(t)
      BY <1>3, <1>4, <1>7
    <2>4. c = (i + j) * G /\ i + j \in Nat
      <3> HIDE DEF G
      <3> QED BY <1>2, <1>5, <1>6, <1>7
    <2> HIDE DEF c, m, U, e, G
    <2>5. CASE c < 2 * Hidden
      <3>1. r \in Double /\ r.s = b.s /\ Size(r) = c * U
        <4>1. IsNumber(r, b.s, e, c * 2 ^ (e - 1))
          BY <1>3, <2>1, <2>2, <2>5, SumFacts, Zenon
        <4> QED BY <1>3, <4>1, Zenon DEF IsNumber
      <3>2. Size(r) \in Nat /\ Val(r) = Signed(b.s, Size(r))
        BY <3>1, SizeFacts DEF Signed
      <3>3. Signed(b.s, Size(r)) = Signed(b.s, Size(b)) + Signed(t.s, Size(t))
        BY <1>3, <1>8, <2>3, <3>1, <3>2, SignedSum
      <3> QED BY <1>3, <3>2, <3>3, Zenon
    <2>6. CASE c >= 2 * Hidden
      <3> DEFINE h == c \div 2
      <3>1. r \in Double /\ r.s = b.s /\ Size(r) = h * 2 ^ e
        <4>1. IsNumber(r, b.s, e + 1, (c \div 2) * 2 ^ e)
          BY <1>3, <1>4, <2>1, <2>2, <2>6, SumFacts, Zenon
        <4> QED BY <4>1, Zenon DEF IsNumber
      <3>2. 2 ^ e = 2 * U
        <4>1. e - 1 \in Nat /\ (e - 1) + 1 = e
          BY <1>3
        <4> QED BY <1>3, <4>1, PowerDoubles
      <3>3. Size(b) + Size(t) <= 2 * Hidden * One
        BY <1>3, <1>8 DEF Signed, Abs
      <3>4. h \in Nat /\ 2 * h = c
        <4>1. c * U <= 2 * Hidden * One
          BY <2>3, <3>3, Zenon
        <4>2. 2 ^ n * U = One /\ c = (i + j) * 2 ^ n
          BY <1>2, <2>4, Zenon DEF G
        <4> HIDE DEF n
        <4>3. 2 * (c \div 2) = c
          BY <1>2, <1>3, <2>1, <2>4, <2>6, <4>1, <4>2, CarryIsEven
        <4> QED BY <2>1, <4>3
      <3> HIDE DEF h
      <3>5. Size(r) = (2 * h) * U
        BY <1>3, <3>1, <3>2, <3>4
      <3>6. Size(r) \in Nat /\ Val(r) = Signed(b.s, Size(r))
        BY <3>1, SizeFacts DEF Signed
      <3>7. Signed(b.s, Size(r)) = Signed(b.s, Size(b)) + Signed(t.s, Size(t))
        BY <1>3, <1>8, <2>3, <3>4, <3>5, <3>6, SignedSum
      <3> QED BY <1>3, <3>6, <3>7, Zenon
    <2> QED BY <2>1, <2>5, <2>6, FormatFacts
  <1>9. CASE b.s # t.s
    <2> DEFINE c == m - k
    <2>1. c \in Nat /\ c < 2 * Hidden /\ Distance(m, k) = c
      BY <1>3, <1>4, FormatFacts DEF Distance
    <2>2. r \in DifferenceOf(b.s, e, c)
      BY <1>1, <1>3, <1>9, <2>1
    <2>3. c * U = Size(b) - Size(t) /\ c * U \in Nat
      BY <1>3, <1>4, <1>7, <2>1, ProductFacts
    <2>4. CASE c = 0
      <3>1. r = Zero(0)
        BY <2>2, <2>4 DEF DifferenceOf
      <3>2. Val(r) = 0
        <4>1. Significand(r) = 0 /\ r.s = 0 /\ AddExp(r) - 1 = 0
          BY <3>1 DEF Zero, Significand, AddExp
        <4>2. \A v \in Int : 0 * v = 0
          OBVIOUS
        <4>3. 2 ^ (AddExp(r) - 1) \in Int
          BY <4>1
        <4> QED BY <4>1, <4>2, <4>3, Zenon DEF Val
      <3>3. Size(b) = Size(t)
        <4>1. c * U = 0
          BY <1>3, <2>4
        <4> QED BY <1>3, <2>3, <4>1
      <3>4. Val(b) + Val(t) = 0
        BY <1>3, <1>9, <3>3 DEF Signed
      <3> QED BY <3>2, <3>4, Zenon
    <2>5. CASE c # 0
      <3>1. c >= 1
        BY <2>1, <2>5
      <3>2. c = (i - j) * G /\ i - j \in Nat /\ i - j >= 1
        <4> HIDE DEF G
        <4>1. j <= i
          BY <1>2, <1>4, <1>5, <1>6, ProductCancels
        <4>2. c = (i - j) * G
          BY <1>2, <1>5, <1>6, <1>7, <4>1
        <4>3. i - j # 0
          BY <1>2, <2>5, <4>2
        <4> QED BY <4>1, <4>2, <4>3
      <3>3. G <= c
        <4> HIDE DEF G, c
        <4>1. 1 * G <= (i - j) * G
          BY <1>2, <3>2, ProductFacts
        <4> QED BY <1>2, <3>2, <4>1
      <3>4. /\ MovedUp(c) \in Nat /\ TopBit(c) \in Nat
            /\ c < 2 ^ (TopBit(c) + 1)
        BY <2>1, <3>1, MovedUpFacts
      <3>5. n <= TopBit(c)
        <4>1. ASSUME TopBit(c) < n PROVE FALSE
          <5>1. TopBit(c) + 1 \in Nat /\ TopBit(c) + 1 <= n
            BY <1>2, <3>4, <4>1
          <5>2. 2 ^ (TopBit(c) + 1) <= G /\ 2 ^ (TopBit(c) + 1) \in Nat
            BY <1>2, <5>1, PowerGrows, PowerIsNat
          <5> HIDE DEF G, c
          <5> QED BY <1>2, <2>1, <3>3, <3>4, <5>2
        <4> QED BY <1>2, <3>4, <4>1
      <3>6. e - MovedUp(c) >= 1
        BY <1>2, <1>3, <3>4, <3>5, FormatFacts, WidthFacts DEF MovedUp, Place
      <3> HIDE DEF c, m, U, e, G
      <3>7. r \in Double /\ r.s = b.s /\ Size(r) = c * U
        <4>1. IsNumber(r, b.s, e - MovedUp(c), c * 2 ^ (e - 1))
          BY <1>3, <2>1, <2>2, <3>1, <3>6, DifferenceFacts, Zenon
        <4> QED BY <1>3, <4>1, Zenon DEF IsNumber
      <3>8. Size(r) \in Nat /\ Val(r) = Signed(b.s, Size(r))
        BY <3>7, SizeFacts DEF Signed
      <3>9. Signed(b.s, Size(r)) = Signed(b.s, Size(b)) + Signed(t.s, Size(t))
        BY <1>3, <1>9, <2>3, <3>7, <3>8, SignedSum
      <3> QED BY <1>3, <3>8, <3>9, Zenon
    <2> QED BY <2>4, <2>5
  <1> QED BY <1>8, <1>9

-----------------------------------------------------------------------------
(* Sums and differences *)

\* __subdf3 adds the second operand with its sign turned.
Flip(y) == [y EXCEPT !.s = 1 - y.s]

LEMMA RemainderOfNegative ==
  ASSUME NEW v \in Int, NEW d \in Nat, d >= 1, v % d = 0
  PROVE  (-v) % d = 0
  <1> DEFINE q == v \div d
             p == (-v) \div d
             m == (-v) % d
  <1>1. q \in Int /\ p \in Int /\ m \in Nat /\ m < d /\ v = q * d + 0 /\ -v = p * d + m
    OBVIOUS
  <1> HIDE DEF q, p, m
  <1>2. m = (-(q + p)) * d
    BY <1>1
  <1>3. \A k \in Int : (k >= 1 => k * d >= d) /\ (k <= -1 => k * d <= -d) /\ 0 * d = 0
    OBVIOUS
  <1>4. -(q + p) \in Int
    BY <1>1
  <1>5. -(q + p) = 0
    BY <1>1, <1>2, <1>3, <1>4
  <1>6. m = 0
    BY <1>2, <1>3, <1>5, Zenon
  <1> QED BY <1>6 DEF m

LEMMA FlipFacts ==
  ASSUME NEW y \in Double
  PROVE  /\ Flip(y) \in Double /\ Flip(y).e = y.e /\ Val(Flip(y)) = -Val(y)
         /\ Normal(y) => Normal(Flip(y))
         /\ SafeInteger(y) => SafeInteger(Flip(y))
         /\ Ulp(Flip(y)) = Ulp(y)
  <1> DEFINE z == Flip(y)
  <1>1. z \in Double /\ z.e = y.e /\ z.m = y.m /\ z.s = 1 - y.s /\ y.s \in {0, 1}
    BY DEF Double, Flip
  <1> HIDE DEF z
  <1>2. Significand(z) = Significand(y) /\ AddExp(z) = AddExp(y)
    BY <1>1, Zenon DEF Significand, WithHidden, AddExp
  <1>3. Size(z) = Size(y) /\ Ulp(z) = Ulp(y)
    BY <1>2, Zenon DEF Size, Ulp
  <1>4. /\ Size(y) \in Nat /\ Val(y) = IF y.s = 0 THEN Size(y) ELSE -Size(y)
        /\ Val(z) = IF z.s = 0 THEN Size(z) ELSE -Size(z)
    BY <1>1, SizeFacts
  <1>5. Val(z) = -Val(y) /\ Val(y) \in Int
    BY <1>1, <1>3, <1>4
  <1>6. Normal(y) => Normal(z)
    BY <1>1 DEF Normal, Finite
  <1>7. ASSUME SafeInteger(y) PROVE SafeInteger(z)
    <2>1. y.e # MaxExp /\ Val(y) % One = 0 /\ Abs(Val(y)) < 2 * Hidden * One
      BY <1>7 DEF SafeInteger, Finite
    <2>2. Val(z) % One = 0
      BY <1>5, <2>1, OneFacts, RemainderOfNegative
    <2>3. Abs(Val(z)) = Abs(Val(y))
      BY <1>5 DEF Abs
    <2>4. z.e # MaxExp
      BY <1>1, <2>1
    <2> QED BY <2>1, <2>2, <2>3, <2>4, Zenon DEF SafeInteger, Finite
  <1> QED BY <1>1, <1>3, <1>5, <1>6, <1>7 DEF z

\* Of two numbers one is not Smaller, and the sum starts from it.
LEMMA SumOrdered ==
  ASSUME NEW x \in Double, NEW y \in Double, Finite(x), Finite(y),
         ~df_iszero(x), ~df_iszero(y), NEW r \in adddf3(x, y)
  PROVE  \/ ~Smaller(y, x) /\ r \in FiniteSums(y, x) /\ Smaller(x, y)
         \/ ~Smaller(x, y) /\ r \in FiniteSums(x, y)
  <1>1. ~df_isnan(x) /\ ~df_isinf(x) /\ ~df_isnan(y) /\ ~df_isinf(y)
    BY DEF Finite, df_isnan, df_isinf
  <1>2. adddf3(x, y) = IF Smaller(x, y) THEN FiniteSums(y, x) ELSE FiniteSums(x, y)
    BY <1>1, Zenon DEF adddf3
  <1>3. /\ AddExp(x) \in Int /\ AddExp(y) \in Int
        /\ Significand(x) \in Nat /\ Significand(y) \in Nat
    BY SizeFacts, DoubleFacts DEF AddExp
  <1>4. Smaller(x, y) => ~Smaller(y, x)
    BY <1>3 DEF Smaller
  <1> QED BY <1>2, <1>4, Zenon

LEMMA AddClose ==
  ASSUME NEW x \in Double, NEW y \in Double, Normal(x), Normal(y),
         Abs(x.e - y.e) < WordBits, NEW r \in adddf3(x, y), Normal(r)
  PROVE  \E z \in {r, x, y} : Abs(Val(r) - (Val(x) + Val(y))) < Ulp(z)
  <1>1. /\ x.e \in Nat /\ y.e \in Nat /\ ~df_iszero(x) /\ ~df_iszero(y)
        /\ Finite(x) /\ Finite(y) /\ Val(x) \in Int /\ Val(y) \in Int
    BY NormalFacts DEF Normal
  <1>2. x.e - y.e < WordBits /\ y.e - x.e < WordBits
    <2>1. WordBits \in Nat
      BY FormatAssumption DEF WordBits
    <2> QED BY <1>1, <2>1 DEF Abs
  <1>3. CASE ~Smaller(x, y) /\ r \in FiniteSums(x, y)
    <2>1. \E z \in {r, x} : Abs(Val(r) - (Val(x) + Val(y))) < Ulp(z)
      BY <1>2, <1>3, SumClose
    <2> QED BY <2>1
  <1>4. CASE ~Smaller(y, x) /\ r \in FiniteSums(y, x)
    <2>1. \E z \in {r, y} : Abs(Val(r) - (Val(y) + Val(x))) < Ulp(z)
      BY <1>2, <1>4, SumClose
    <2>2. Val(y) + Val(x) = Val(x) + Val(y)
      BY <1>1
    <2>3. \E z \in {r, y} : Abs(Val(r) - (Val(x) + Val(y))) < Ulp(z)
      BY <2>1, <2>2, Zenon
    <2> QED BY <2>3
  <1> QED BY <1>1, <1>3, <1>4, SumOrdered

LEMMA AddExact ==
  ASSUME NEW x \in Double, NEW y \in Double, SafeInteger(x), SafeInteger(y),
         NEW r \in adddf3(x, y), Abs(Val(x) + Val(y)) <= 2 * Hidden * One
  PROVE  Val(r) = Val(x) + Val(y)
  <1>1. /\ Finite(x) /\ Finite(y) /\ ~df_isnan(x) /\ ~df_isnan(y)
        /\ ~df_isinf(x) /\ ~df_isinf(y)
    BY DEF SafeInteger, Finite, df_isnan, df_isinf
  <1>2. Val(x) \in Int /\ Val(y) \in Int /\ \A k \in Int : 0 + k = k /\ k + 0 = k
    BY SizeFacts
  <1>3. /\ df_iszero(x) => Val(x) = 0
        /\ df_iszero(y) => Val(y) = 0
    BY SizeFacts, NegatedZero
  <1>4. CASE df_iszero(x)
    <2>1. r = y
      BY <1>1, <1>4 DEF adddf3
    <2> QED BY <1>2, <1>3, <1>4, <2>1, Zenon
  <1>5. CASE ~df_iszero(x) /\ df_iszero(y)
    <2>1. r = x
      BY <1>1, <1>5 DEF adddf3
    <2> QED BY <1>2, <1>3, <1>5, <2>1, Zenon
  <1>6. CASE ~df_iszero(x) /\ ~df_iszero(y)
    <2>1. CASE ~Smaller(x, y) /\ r \in FiniteSums(x, y)
      BY <1>6, <2>1, SumExact
    <2>2. CASE ~Smaller(y, x) /\ r \in FiniteSums(y, x)
      <3>1. Val(y) + Val(x) = Val(x) + Val(y)
        BY <1>2
      <3>2. Abs(Val(y) + Val(x)) <= 2 * Hidden * One
        BY <3>1, Zenon
      <3>3. Val(r) = Val(y) + Val(x)
        BY <1>6, <2>2, <3>2, SumExact
      <3> QED BY <3>1, <3>3, Zenon
    <2> QED BY <1>1, <1>6, <2>1, <2>2, SumOrdered
  <1> QED BY <1>4, <1>5, <1>6

-----------------------------------------------------------------------------
(* Quotients *)

\* That a function holds the states of the division loop, from before its first
\* turn to after turn w.
IsDivision(g, m, n, w) ==
  g = [k \in 0 .. w |-> IF k = 0 THEN [q |-> 0, rv |-> m] ELSE DivisionTurn(g[k - 1], n)]

LEMMA DivisionExists ==
  ASSUME NEW m, NEW n, NEW w \in Nat
  PROVE  \E g : IsDivision(g, m, n, w)
  <1> DEFINE start == [q |-> 0, rv |-> m]
             S == {u \in Nat : \E g : IsDivision(g, m, n, u)}
  <1> HIDE DEF start
  <1>1. 0 \in S
    <2> DEFINE g == [k \in 0 .. 0 |-> start]
    <2>1. g = [k \in 0 .. 0 |-> IF k = 0 THEN start ELSE DivisionTurn(g[k - 1], n)]
      OBVIOUS
    <2>2. IsDivision(g, m, n, 0)
      BY <2>1 DEF IsDivision, start
    <2> QED BY <2>2
  <1>2. ASSUME NEW u \in Nat, u \in S PROVE u + 1 \in S
    <2>1. PICK g : IsDivision(g, m, n, u)
      BY <1>2
    <2> DEFINE h == [k \in 0 .. u + 1 |-> IF k <= u THEN g[k] ELSE DivisionTurn(g[u], n)]
    <2>2. g = [k \in 0 .. u |-> IF k = 0 THEN start ELSE DivisionTurn(g[k - 1], n)]
      BY <2>1 DEF IsDivision, start
    <2>3. ASSUME NEW k \in 0 .. u + 1
          PROVE  h[k] = IF k = 0 THEN start ELSE DivisionTurn(h[k - 1], n)
      <3>1. CASE k = 0
        BY <2>2, <3>1
      <3>2. CASE k \in 1 .. u
        <4>1. k \in 0 .. u /\ k - 1 \in 0 .. u /\ k - 1 \in 0 .. u + 1
          BY <3>2
        <4>2. h[k] = g[k] /\ h[k - 1] = g[k - 1]
          BY <4>1
        <4>3. g[k] = DivisionTurn(g[k - 1], n)
          BY <2>2, <3>2, <4>1
        <4> QED BY <3>2, <4>2, <4>3
      <3>3. CASE k = u + 1
        <4>1. h[u + 1] = DivisionTurn(g[u], n) /\ h[u] = g[u]
          OBVIOUS
        <4>2. k - 1 = u /\ k # 0
          BY <3>3
        <4> QED BY <3>3, <4>1, <4>2
      <3> QED BY <3>1, <3>2, <3>3
    <2>4. h = [k \in 0 .. u + 1 |-> IF k = 0 THEN start ELSE DivisionTurn(h[k - 1], n)]
      <3> DEFINE hh == [k \in 0 .. u + 1 |->
                          IF k = 0 THEN start ELSE DivisionTurn(h[k - 1], n)]
      <3>1. \A k \in 0 .. u + 1 : h[k] = hh[k]
        BY <2>3
      <3>2. h = [k \in 0 .. u + 1 |-> h[k]] /\ hh = [k \in 0 .. u + 1 |-> hh[k]]
        OBVIOUS
      <3> HIDE DEF h, hh
      <3>3. h = hh
        BY <3>1, <3>2
      <3> QED BY <3>3 DEF hh
    <2>5. IsDivision(h, m, n, u + 1)
      BY <2>4 DEF IsDivision, start
    <2> QED BY <2>5
  <1> HIDE DEF S
  <1>3. w \in S
    BY <1>1, <1>2, NatSetInduction
  <1> QED BY <1>3 DEF S

\* What the loop keeps: the bits of the quotient so far, and what is left of the
\* dividend, twice over.
DivisionKeeps(now, m, n, k) ==
  /\ now.q \in Nat /\ now.rv \in Nat /\ now.rv < 2 * n
  /\ m * 2 ^ k = 2 * (now.q * n) + now.rv

LEMMA TurnKeeps ==
  ASSUME NEW m \in Nat, NEW n \in Nat, n >= 1, n < 2 * Hidden, NEW k \in Nat,
         NEW now, DivisionKeeps(now, m, n, k)
  PROVE  DivisionKeeps(DivisionTurn(now, n), m, n, k + 1)
  <1> DEFINE q == now.q
             rv == now.rv
             z == DivisionTurn(now, n)
             W == 2 ^ WordBits
  <1>1. q \in Nat /\ rv \in Nat /\ rv < 2 * n /\ m * 2 ^ k = 2 * (q * n) + rv
    BY DEF DivisionKeeps
  <1>2. W \in Nat /\ W >= 1 /\ 2 * n <= W
    <2>1. MantBits + 1 \in Nat /\ WordBits \in Nat /\ MantBits + 1 < WordBits
      BY FormatAssumption DEF WordBits
    <2>2. 2 ^ (MantBits + 1) = 2 * Hidden
      BY WidthFacts, PowerDoubles DEF Hidden
    <2>3. 2 * 2 ^ (MantBits + 1) <= W
      BY <2>1, PowerGrows
    <2>4. W \in Nat /\ W >= 1
      BY <2>1, PowerIsNat
    <2> HIDE DEF W
    <2> QED BY <2>2, <2>3, <2>4, FormatFacts
  <1>3. 2 ^ k \in Nat /\ 2 ^ (k + 1) = 2 * 2 ^ k
    BY PowerIsNat, PowerDoubles
  <1>4. m * 2 ^ (k + 1) = 2 * (m * 2 ^ k)
    BY <1>3, ProductFacts
  <1>5. \A v \in Nat : v < W => v % W = v
    <2> HIDE DEF W
    <2> QED BY <1>2
  <1>6. q * n \in Nat
    BY <1>1, ProductFacts
  <1>7. CASE rv >= n
    <2>1. 2 * (rv - n) \in Nat /\ 2 * (rv - n) < 2 * n
      BY <1>1, <1>7
    <2>2. (2 * (rv - n)) % W = 2 * (rv - n)
      <3> HIDE DEF W
      <3> QED BY <1>2, <1>5, <2>1
    <2>3. z.q = 2 * q + 1 /\ z.rv = (2 * (rv - n)) % W
      BY <1>7 DEF DivisionTurn
    <2>4. (2 * q + 1) * n = 2 * (q * n) + n
      BY <1>1
    <2> HIDE DEF z, q, rv, W
    <2>5. z.q \in Nat /\ z.rv \in Nat /\ z.rv < 2 * n
      BY <1>1, <2>1, <2>2, <2>3
    <2>6. z.q * n = 2 * (q * n) + n /\ z.rv = 2 * (rv - n)
      BY <2>2, <2>3, <2>4, Zenon
    <2>7. m * 2 ^ (k + 1) = 2 * (z.q * n) + z.rv
      BY <1>1, <1>4, <1>6, <2>6
    <2> QED BY <2>5, <2>7 DEF DivisionKeeps, z
  <1>8. CASE ~(rv >= n)
    <2>1. 2 * rv \in Nat /\ 2 * rv < 2 * n
      BY <1>1, <1>8
    <2>2. (2 * rv) % W = 2 * rv
      <3> HIDE DEF W
      <3> QED BY <1>2, <1>5, <2>1
    <2>3. z.q = 2 * q /\ z.rv = (2 * rv) % W
      BY <1>8 DEF DivisionTurn
    <2>4. (2 * q) * n = 2 * (q * n)
      BY <1>1
    <2> HIDE DEF z, q, rv, W
    <2>5. z.q \in Nat /\ z.rv \in Nat /\ z.rv < 2 * n
      BY <1>1, <2>1, <2>2, <2>3
    <2>6. z.q * n = 2 * (q * n) /\ z.rv = 2 * rv
      BY <2>2, <2>3, <2>4, Zenon
    <2>7. m * 2 ^ (k + 1) = 2 * (z.q * n) + z.rv
      BY <1>1, <1>4, <1>6, <2>6
    <2> QED BY <2>5, <2>7 DEF DivisionKeeps, z
  <1> QED BY <1>7, <1>8

\* The loop of __divdf3 is division: MantBits + 1 bits, cut off after the last.
LEMMA LongDivisionFacts ==
  ASSUME NEW m \in Nat, NEW n \in Nat, n >= 1, n < 2 * Hidden, n <= m, m < 2 * n
  PROVE  /\ LongDivision(m, n) \in Nat
         /\ Hidden <= LongDivision(m, n) /\ LongDivision(m, n) < 2 * Hidden
         /\ LongDivision(m, n) * n <= m * Hidden
         /\ m * Hidden < LongDivision(m, n) * n + n
  <1> DEFINE w == MantBits + 1
             g == CHOOSE f : IsDivision(f, m, n, w)
  <1>1. w \in Nat
    BY WidthFacts
  <1>2. LongDivision(m, n) = g[w].q
    BY DEF LongDivision, IsDivision
  <1> HIDE DEF w
  <1>3. IsDivision(g, m, n, w)
    BY <1>1, DivisionExists, Zenon
  <1> HIDE DEF g
  <1>4. g = [k \in 0 .. w |-> IF k = 0 THEN [q |-> 0, rv |-> m]
                              ELSE DivisionTurn(g[k - 1], n)]
    BY <1>3 DEF IsDivision
  <1> DEFINE S == {k \in Nat : k <= w => DivisionKeeps(g[k], m, n, k)}
  <1>5. 0 \in S
    <2>1. g[0] = [q |-> 0, rv |-> m]
      BY <1>1, <1>4
    <2>2. g[0].q = 0 /\ g[0].rv = m
      BY <2>1
    <2>3. 2 ^ 0 = 1 /\ m * 1 = 2 * (0 * n) + m /\ 0 \in Nat
      OBVIOUS
    <2>4. m * 2 ^ 0 = 2 * (g[0].q * n) + g[0].rv
      BY <2>2, <2>3, Zenon
    <2>5. DivisionKeeps(g[0], m, n, 0)
      BY <2>2, <2>4 DEF DivisionKeeps
    <2> QED BY <2>5
  <1>6. ASSUME NEW k \in Nat, k \in S PROVE k + 1 \in S
    <2>1. ASSUME k + 1 <= w PROVE DivisionKeeps(g[k + 1], m, n, k + 1)
      <3>1. k <= w /\ k + 1 \in 0 .. w /\ k + 1 # 0 /\ (k + 1) - 1 = k
        BY <1>1, <2>1
      <3>2. DivisionKeeps(g[k], m, n, k)
        BY <1>6, <3>1
      <3>3. g[k + 1] = DivisionTurn(g[k], n)
        BY <1>4, <3>1
      <3>4. DivisionKeeps(DivisionTurn(g[k], n), m, n, k + 1)
        BY <3>2, TurnKeeps
      <3> QED BY <3>3, <3>4, Zenon
    <2> QED BY <2>1
  <1> HIDE DEF S
  <1>7. w \in S
    BY <1>1, <1>5, <1>6, NatSetInduction
  <1>8. DivisionKeeps(g[w], m, n, w)
    BY <1>1, <1>7 DEF S
  <1> DEFINE q == g[w].q
             rv == g[w].rv
  <1>9. q \in Nat /\ rv \in Nat /\ rv < 2 * n /\ m * 2 ^ w = 2 * (q * n) + rv
    BY <1>8 DEF DivisionKeeps
  <1>10. 2 ^ w = 2 * Hidden
    BY WidthFacts, PowerDoubles DEF w, Hidden
  <1> HIDE DEF q, rv
  <1>11. m * 2 ^ w = 2 * (m * Hidden) /\ m * Hidden \in Nat /\ q * n \in Nat
    BY <1>9, <1>10, FormatFacts, ProductFacts
  <1>12. q * n <= m * Hidden /\ m * Hidden < q * n + n
    BY <1>9, <1>11
  <1>13. Hidden <= q
    <2>1. n * Hidden <= m * Hidden /\ n * Hidden = Hidden * n
      BY FormatFacts, ProductFacts
    <2>2. (q + 1) * n = q * n + n /\ q + 1 \in Nat
      BY <1>9
    <2>3. Hidden * n < (q + 1) * n
      BY <1>11, <1>12, <2>1, <2>2, FormatFacts, ProductFacts
    <2>4. Hidden < q + 1
      BY <2>2, <2>3, FormatFacts, ProductCancels
    <2> QED BY <1>9, <2>4, FormatFacts
  <1>14. q < 2 * Hidden
    <2>1. m * Hidden < (2 * n) * Hidden
      BY FormatFacts, ProductFacts
    <2>2. (2 * n) * Hidden = (2 * Hidden) * n /\ 2 * Hidden \in Nat
      BY FormatFacts
    <2>3. q * n < (2 * Hidden) * n
      BY <1>11, <1>12, <2>1, <2>2, ProductFacts
    <2> QED BY <1>9, <2>2, <2>3, ProductCancels
  <1> QED BY <1>2, <1>9, <1>12, <1>13, <1>14 DEF q

\* The quotient of the mantissas, at the exponent the code gives it, is the quotient
\* of the numbers.  The dividend's mantissa is doubled h times before the loop.
LEMMA QuotientScale ==
  ASSUME NEW x \in Double, NEW y \in Double, Normal(x), Normal(y), NEW h \in {0, 1},
         NEW exp \in Int, exp >= 1, exp = x.e - y.e + Bias - h, NEW q \in Nat,
         q * Significand(y) <= (Significand(x) * 2 ^ h) * Hidden,
         (Significand(x) * 2 ^ h) * Hidden < q * Significand(y) + Significand(y),
         NEW V, V = 2 ^ (exp - 1)
  PROVE  /\ (q * V) * Size(y) <= Size(x) * One
         /\ Size(x) * One < (q * V + V) * Size(y)
  <1> DEFINE a == Significand(x)
             b == Significand(y)
             Ux == Ulp(x)
             Uy == Ulp(y)
             P == V * Uy
             H == 2 ^ h
             T == (a * H) * Hidden
  <1>1. /\ a \in Nat /\ b \in Nat /\ Ux \in Nat /\ Uy \in Nat /\ Uy >= 1
        /\ Size(x) = a * Ux /\ Size(y) = b * Uy
        /\ Ux = 2 ^ (x.e - 1) /\ Uy = 2 ^ (y.e - 1)
        /\ x.e \in Nat /\ y.e \in Nat /\ 1 <= x.e /\ 1 <= y.e
    BY NormalFacts
  <1>2. exp - 1 \in Nat /\ x.e - 1 \in Nat /\ y.e - 1 \in Nat /\ h \in Nat
    BY <1>1
  <1>3. V \in Nat /\ V >= 1 /\ H \in Nat
    BY <1>2, PowerIsNat
  <1>4. Ux * One = (H * Hidden) * P
    <2> DEFINE c == Bias + MantBits - 1
               i == x.e - 1
               j == y.e - 1
               f == exp - 1
    <2>1. c \in Nat /\ i \in Nat /\ j \in Nat /\ f \in Nat /\ MantBits \in Nat
          /\ i + c = (h + MantBits) + (f + j)
      BY <1>1, <1>2, OneFacts, WidthFacts, FormatFacts
    <2>2. One = 2 ^ c
      BY DEF One
    <2> HIDE DEF c, i, j, f, H
    <2>3. 2 ^ (i + c) = 2 ^ i * 2 ^ c
      BY <2>1, PowerAdds
    <2>4. 2 ^ (f + j) = 2 ^ f * 2 ^ j /\ 2 ^ (h + MantBits) = 2 ^ h * 2 ^ MantBits
      BY <1>2, <2>1, PowerAdds
    <2>5. 2 ^ ((h + MantBits) + (f + j)) = 2 ^ (h + MantBits) * 2 ^ (f + j)
      <3>1. h + MantBits \in Nat /\ f + j \in Nat
        BY <1>2, <2>1
      <3> QED BY <3>1, PowerAdds
    <2>6. P = 2 ^ (f + j)
      BY <1>1, <2>4 DEF P, f, j
    <2>7. H * Hidden = 2 ^ (h + MantBits)
      BY <2>4 DEF H, Hidden
    <2>8. Ux = 2 ^ i
      BY <1>1 DEF i
    <2> HIDE DEF P, Ux
    <2> QED BY <2>1, <2>2, <2>3, <2>5, <2>6, <2>7, <2>8, Zenon
  <1> HIDE DEF a, b, Ux, Uy, H
  <1>5. P \in Nat /\ P >= 1
    <2>1. \A u, v \in Nat : u >= 1 /\ v >= 1 => u * v >= 1
      OBVIOUS
    <2> QED BY <1>1, <1>3, <2>1, ProductFacts
  <1>6. T \in Nat /\ q * b \in Nat /\ a * H \in Nat
    BY <1>1, <1>3, FormatFacts, ProductFacts
  <1>7. q * b <= T /\ T < q * b + b
    BY DEF a, b, H
  <1>8. Size(x) * One = T * P
    <2>1. (a * Ux) * One = a * (Ux * One)
      BY <1>1, OneFacts, ProductFacts
    <2>2. H * Hidden \in Nat
      BY <1>3, FormatFacts, ProductFacts
    <2>3. a * ((H * Hidden) * P) = (a * (H * Hidden)) * P
      BY <1>1, <1>5, <2>2, ProductFacts
    <2>4. a * (H * Hidden) = T
      BY <1>1, <1>3, FormatFacts, ProductFacts
    <2> QED BY <1>1, <1>4, <2>1, <2>3, <2>4, Zenon
  <1>9. \A v \in Nat : (v * V) * Size(y) = (v * b) * P
    <2> SUFFICES ASSUME NEW v \in Nat PROVE (v * V) * (b * Uy) = (v * b) * (V * Uy)
      BY <1>1
    <2>1. \A k, l, m, n \in Nat : (k * l) * (m * n) = (k * m) * (l * n)
      OBVIOUS
    <2> QED BY <1>1, <1>3, <2>1
  <1> HIDE DEF P, T
  <1>10. (q * b) * P <= T * P
    BY <1>5, <1>6, <1>7, ProductFacts
  <1>11. T * P < (q * b + b) * P
    <2>1. q * b + b \in Nat
      BY <1>1, <1>6
    <2> QED BY <1>5, <1>6, <1>7, <2>1, ProductFacts
  <1>12. (q * V + V) * Size(y) = (q * b + b) * P
    <2>1. ((q + 1) * V) * Size(y) = ((q + 1) * b) * P
      BY <1>9
    <2>2. (q + 1) * V = q * V + V /\ (q + 1) * b = q * b + b
      BY <1>1, <1>3
    <2> QED BY <2>1, <2>2, Zenon
  <1> QED BY <1>8, <1>9, <1>10, <1>11, <1>12

\* What QuotientTruncated says of a quotient.
CutOff(x, y, r) ==
  /\ Abs(Val(r)) * Abs(Val(y)) <= Abs(Val(x)) * One
  /\ (Abs(Val(r)) + Ulp(r)) * Abs(Val(y)) > Abs(Val(x)) * One
  /\ r.s = Xor(x.s, y.s)

LEMMA PackedQuotient ==
  ASSUME NEW x \in Double, NEW y \in Double, Normal(x), Normal(y), NEW h \in {0, 1},
         NEW m \in Nat, m = Significand(x) * 2 ^ h,
         Significand(y) <= m, m < 2 * Significand(y),
         NEW exp \in Int, exp = x.e - y.e + Bias - h,
         NEW r \in Packed(Xor(x.s, y.s), exp, LongDivision(m, Significand(y))), Normal(r)
  PROVE  CutOff(x, y, r)
  <1> DEFINE s == Xor(x.s, y.s)
             n == Significand(y)
             q == LongDivision(m, n)
             V == 2 ^ (exp - 1)
  <1>1. /\ n \in Nat /\ n >= 1 /\ n < 2 * Hidden
        /\ Size(x) \in Nat /\ Size(y) \in Nat
        /\ Val(x) = Signed(x.s, Size(x)) /\ Val(y) = Signed(y.s, Size(y))
        /\ x.s \in {0, 1} /\ y.s \in {0, 1}
    BY NormalFacts, FormatFacts DEF Signed
  <1>2. q \in Nat /\ Hidden <= q /\ q < 2 * Hidden /\ q * n <= m * Hidden
        /\ m * Hidden < q * n + n
    BY <1>1, LongDivisionFacts
  <1>3. s \in {0, 1}
    BY <1>1 DEF Xor
  <1> HIDE DEF s, q
  <1>4. r \in Packed(s, exp, q)
    BY DEF s, q
  <1>5. 1 <= exp /\ exp < MaxExp /\ r = [s |-> s, e |-> exp, m |-> q - Hidden]
    BY <1>2, <1>3, <1>4, PackedFacts, RemainderOfHidden
  <1>6. r \in Double /\ r.s = s /\ Ulp(r) = V /\ Size(r) = q * V
    BY <1>2, <1>3, <1>5, PackedValue
  <1>7. Size(r) \in Nat /\ Val(r) = Signed(s, Size(r))
    BY <1>6, SizeFacts DEF Signed
  <1>8. \A p \in Nat, t \in {0, 1} : Abs(Signed(t, p)) = p
    BY DEF Abs, Signed
  <1>9. Abs(Val(r)) = Size(r) /\ Abs(Val(x)) = Size(x) /\ Abs(Val(y)) = Size(y)
    BY <1>1, <1>3, <1>7, <1>8
  <1>10. (q * V) * Size(y) <= Size(x) * One /\ Size(x) * One < (q * V + V) * Size(y)
    <2>1. /\ q * Significand(y) <= (Significand(x) * 2 ^ h) * Hidden
          /\ (Significand(x) * 2 ^ h) * Hidden < q * Significand(y) + Significand(y)
      BY <1>2
    <2> QED BY <1>2, <1>5, <2>1, QuotientScale
  <1>11. (q * V + V) * Size(y) > Size(x) * One
    <2> HIDE DEF V
    <2>1. V \in Nat
      BY <1>5, PowerIsNat DEF V
    <2>2. (q * V + V) * Size(y) \in Nat /\ Size(x) * One \in Nat
      BY <1>1, <1>2, <2>1, OneFacts, ProductFacts
    <2> QED BY <1>10, <2>2
  <1> QED BY <1>6, <1>9, <1>10, <1>11, Zenon DEF CutOff, s

LEMMA QuotientCutOff ==
  ASSUME NEW x \in Double, NEW y \in Double, Normal(x), Normal(y),
         NEW r \in divdf3(x, y), Normal(r)
  PROVE  CutOff(x, y, r)
  <1> DEFINE a == Significand(x)
             b == Significand(y)
             exp == x.e - y.e + Bias
  <1>1. /\ a \in Nat /\ b \in Nat /\ Hidden <= a /\ Hidden <= b
        /\ a < 2 * Hidden /\ b < 2 * Hidden
        /\ ~df_isnan(x) /\ ~df_isinf(x) /\ ~df_iszero(x)
        /\ ~df_isnan(y) /\ ~df_isinf(y) /\ ~df_iszero(y)
        /\ exp \in Int /\ x.e \in Nat /\ y.e \in Nat
    BY NormalFacts, FormatFacts
  <1>2. r \in FiniteQuotients(x, y)
    BY <1>1, Zenon DEF divdf3
  <1>3. 2 ^ 0 = 1 /\ 2 ^ 1 = 2
    OBVIOUS
  <1>4. CASE a < b
    <2>1. r \in Packed(Xor(x.s, y.s), exp - 1, LongDivision(2 * a, b))
      BY <1>2, <1>4 DEF FiniteQuotients
    <2>2. 2 * a \in Nat /\ 2 * a = a * 2 ^ 1 /\ b <= 2 * a /\ 2 * a < 2 * b
          /\ exp - 1 \in Int /\ exp - 1 = x.e - y.e + Bias - 1
      BY <1>1, <1>3, <1>4, FormatFacts
    <2> QED BY <2>1, <2>2, PackedQuotient
  <1>5. CASE ~(a < b)
    <2>1. r \in Packed(Xor(x.s, y.s), exp, LongDivision(a, b))
      BY <1>2, <1>5 DEF FiniteQuotients
    <2>2. a = a * 2 ^ 0 /\ b <= a /\ a < 2 * b /\ exp = x.e - y.e + Bias - 0
      BY <1>1, <1>3, <1>5, FormatFacts
    <2> QED BY <1>1, <2>1, <2>2, PackedQuotient
  <1> QED BY <1>4, <1>5

-----------------------------------------------------------------------------
(* Every call *)

ArithInv ==
  /\ op = "adddf3" => \E x, y \in Double : args = <<x, y>> /\ result \in adddf3(x, y)
  /\ op = "subdf3" => \E x, y \in Double : args = <<x, y>> /\ result \in subdf3(x, y)
  /\ op = "divdf3" => \E x, y \in Double : args = <<x, y>> /\ result \in divdf3(x, y)

LEMMA ArithInvHolds == Spec => []ArithInv
  <1>1. Init => ArithInv
    BY DEF Init, ArithInv
  <1>2. ArithInv /\ [Next]_vars => ArithInv'
    <2> SUFFICES ASSUME ArithInv, [Next]_vars PROVE ArithInv'
      OBVIOUS
    <2> USE DEF Return
    <2>1. CASE Convert
      BY <2>1, Zenon DEF Convert, ArithInv
    <2>2. CASE Compare
      BY <2>2, Zenon DEF Compare, ArithInv
    <2>3. CASE Calculate
      <3>1. PICK x \in Double, y \in Double :
              \/ op' = "adddf3" /\ args' = <<x, y>> /\ result' \in adddf3(x, y)
              \/ op' = "subdf3" /\ args' = <<x, y>> /\ result' \in subdf3(x, y)
              \/ op' = "muldf3"
              \/ op' = "divdf3" /\ args' = <<x, y>> /\ result' \in divdf3(x, y)
        BY <2>3, FormatAssumption, Zenon DEF Calculate
      <3> QED BY <3>1, Zenon DEF ArithInv
    <2>4. CASE UNCHANGED vars
      BY <2>4, Zenon DEF vars, ArithInv
    <2> QED BY <2>1, <2>2, <2>3, <2>4, Zenon DEF Next
  <1> QED BY <1>1, <1>2, PTL DEF Spec

LEMMA SumsHold == ArithInv => IntegerSumsExact /\ SumsAreClose
  <1> SUFFICES ASSUME ArithInv PROVE IntegerSumsExact /\ SumsAreClose
    OBVIOUS
  <1> DEFINE exact == Val(args[1]) + (IF op = "adddf3" THEN 1 ELSE -1) * Val(args[2])
             Exact == SafeInteger(args[1]) /\ SafeInteger(args[2])
                        /\ Abs(exact) <= 2 * Hidden * One => Val(result) = exact
             Close == Normal(args[1]) /\ Normal(args[2]) /\ Normal(result)
                        /\ Abs(args[1].e - args[2].e) < WordBits =>
                        \E z \in {result, args[1], args[2]} :
                          Abs(Val(result) - exact) < Ulp(z)
  <1>1. ASSUME op = "adddf3" PROVE Exact /\ Close
    <2>1. PICK x \in Double, y \in Double : args = <<x, y>> /\ result \in adddf3(x, y)
      BY <1>1, Zenon DEF ArithInv
    <2>2. args[1] = x /\ args[2] = y
      BY <2>1
    <2>3. exact = Val(x) + Val(y)
      <3>1. Val(y) \in Int /\ \A v \in Int : 1 * v = v
        BY SizeFacts
      <3>2. exact = Val(x) + 1 * Val(y)
        BY <1>1, <2>2, Zenon
      <3> QED BY <3>1, <3>2, Zenon
    <2> HIDE DEF exact
    <2>4. Exact
      BY <2>1, <2>2, <2>3, AddExact
    <2>5. Close
      BY <2>1, <2>2, <2>3, AddClose
    <2> QED BY <2>4, <2>5
  <1>2. ASSUME op = "subdf3" PROVE Exact /\ Close
    <2>1. PICK x \in Double, y \in Double : args = <<x, y>> /\ result \in subdf3(x, y)
      BY <1>2, Zenon DEF ArithInv
    <2>2. args[1] = x /\ args[2] = y
      BY <2>1
    <2> DEFINE z == Flip(y)
    <2>3. result \in adddf3(x, z)
      BY <2>1 DEF subdf3, Flip
    <2>4. /\ z \in Double /\ z.e = y.e /\ Val(z) = -Val(y) /\ Ulp(z) = Ulp(y)
          /\ Normal(y) => Normal(z)
          /\ SafeInteger(y) => SafeInteger(z)
      BY FlipFacts
    <2> HIDE DEF z
    <2>5. exact = Val(x) + Val(z)
      <3>1. Val(y) \in Int /\ \A v \in Int : (-1) * v = -v
        BY SizeFacts
      <3>2. exact = Val(x) + (-1) * Val(y)
        <4>1. op # "adddf3"
          BY <1>2
        <4> QED BY <2>2, <4>1, Zenon
      <3> QED BY <2>4, <3>1, <3>2, Zenon
    <2> HIDE DEF exact
    <2>6. Exact
      BY <2>2, <2>3, <2>4, <2>5, AddExact
    <2>7. Close
      <3> SUFFICES ASSUME Normal(x), Normal(y), Normal(result), Abs(x.e - y.e) < WordBits
                   PROVE  \E u \in {result, x, y} : Abs(Val(result) - exact) < Ulp(u)
        BY <2>2, Zenon
      <3>1. Abs(x.e - z.e) < WordBits
        BY <2>4, Zenon
      <3>2. \E u \in {result, x, z} : Abs(Val(result) - (Val(x) + Val(z))) < Ulp(u)
        BY <2>3, <2>4, <3>1, AddClose
      <3>3. \E u \in {result, x, z} : Abs(Val(result) - exact) < Ulp(u)
        BY <2>5, <3>2, Zenon
      <3> QED BY <2>4, <3>3, Zenon
    <2> QED BY <2>6, <2>7
  <1>3. IntegerSumsExact
    BY <1>1, <1>2, Zenon DEF IntegerSumsExact
  <1>4. SumsAreClose
    BY <1>1, <1>2, Zenon DEF SumsAreClose
  <1> QED BY <1>3, <1>4

LEMMA QuotientsHold == ArithInv => QuotientTruncated
  <1> SUFFICES ASSUME ArithInv, op = "divdf3", Normal(args[1]), Normal(args[2]),
                      Normal(result)
               PROVE  CutOff(args[1], args[2], result)
    BY Zenon DEF QuotientTruncated, CutOff
  <1>1. PICK x \in Double, y \in Double : args = <<x, y>> /\ result \in divdf3(x, y)
    BY Zenon DEF ArithInv
  <1>2. args[1] = x /\ args[2] = y
    BY <1>1
  <1>3. CutOff(x, y, result)
    BY <1>1, <1>2, QuotientCutOff
  <1> QED BY <1>2, <1>3, Zenon

\* __adddf3, __subdf3 and __divdf3, for every format that meets the assumption:
\* sums and differences of integers up to 2^(MantBits + 1) are exact, sums and
\* differences of normal numbers are off by less than a unit in the last place of
\* the result or the larger operand, and quotients are cut off after their last bit.
THEOREM ArithmeticHoldsAlways == Spec => []ArithmeticHolds
  <1>1. ArithInv => ArithmeticHolds
    BY SumsHold, QuotientsHold, Zenon DEF ArithmeticHolds
  <1> QED BY <1>1, ArithInvHolds, PTL

-----------------------------------------------------------------------------
(* Every function returns a value of its type *)

LEMMA ShiftedType ==
  ASSUME NEW m \in Nat, NEW k \in Nat, NEW r \in ShiftedRight(m, k)
  PROVE  r \in Nat /\ r <= m
  <1>1. PICK j \in Nat : r = m \div 2 ^ j
    <2>1. WordBits \in Nat
      BY FormatAssumption DEF WordBits
    <2> QED BY <2>1 DEF ShiftedRight
  <1>2. 2 ^ j \in Nat /\ 2 ^ j >= 1
    BY PowerIsNat
  <1> DEFINE d == 2 ^ j
             q == m \div d
  <1>3. q \in Nat /\ q * d <= m
    BY <1>2, QuotientFacts
  <1>4. r = q /\ d \in Nat /\ d >= 1
    BY <1>1, <1>2
  <1> HIDE DEF q, d
  <1>5. q <= q * d /\ q * d \in Nat
    BY <1>3, <1>4
  <1> QED BY <1>3, <1>4, <1>5

\* Whatever exponent and mantissa an operation ends with, it packs a double.
LEMMA PackedType ==
  ASSUME NEW s \in {0, 1}, NEW exp \in Int, NEW f \in Nat, NEW r \in Packed(s, exp, f)
  PROVE  r \in Double
  <1>1. \A k \in Nat : k % Hidden \in 0 .. Hidden - 1
    BY FormatFacts
  <1>2. CASE exp >= MaxExp
    BY <1>2, FormatFacts DEF Packed, Inf, Double
  <1>3. CASE exp <= 0
    <2>1. 1 - exp \in Nat
      BY <1>3
    <2>2. PICK k \in ShiftedRight(f, 1 - exp) : r = [s |-> s, e |-> 0, m |-> k % Hidden]
      BY <1>3, FormatFacts DEF Packed
    <2>3. k \in Nat
      BY <2>1, ShiftedType
    <2> QED BY <1>1, <2>2, <2>3, FormatFacts DEF Double
  <1>4. CASE 1 <= exp /\ exp < MaxExp
    <2>1. r = [s |-> s, e |-> exp, m |-> f % Hidden]
      BY <1>4, PackedFacts
    <2> QED BY <1>1, <1>4, <2>1, FormatFacts DEF Double
  <1> QED BY <1>2, <1>3, <1>4, FormatFacts

LEMMA ConstantsTyped ==
  /\ QuietNan \in Double
  /\ \A s \in {0, 1} : Zero(s) \in Double /\ Inf(s) \in Double
  BY FormatFacts DEF QuietNan, Zero, Inf, Double

LEMMA XorType == \A s, t \in {0, 1} : Xor(s, t) \in {0, 1}
  BY DEF Xor

\* The integer with the most bits still has an exponent.
LEMMA FromIntegerType ==
  ASSUME NEW n \in Int, Abs(n) < 2 ^ LongBits
  PROVE  FromInteger(n) \in Double
  <1>1. CASE n = 0
    BY <1>1, ConstantsTyped DEF FromInteger
  <1>2. CASE n # 0
    <2> DEFINE v == Abs(n)
               k == TopBit(v)
               P == 2 ^ k
               fraction == IF k <= MantBits THEN (v - 2 ^ k) * 2 ^ (MantBits - k)
                           ELSE (v - 2 ^ k) \div 2 ^ (k - MantBits)
               sign == IF n < 0 THEN 1 ELSE 0
    <2>1. v \in Nat /\ v >= 1
      BY <1>2 DEF Abs
    <2>2. LongBits \in Nat /\ LongBits <= WordBits + LongBits
      BY FormatAssumption DEF WordBits
    <2>3. k \in Nat /\ P <= v /\ v < 2 ^ (k + 1)
      BY <2>1, <2>2, TopBitFacts
    <2>4. FromInteger(n) = [s |-> sign, e |-> k + Bias, m |-> fraction % Hidden]
      BY <1>2, Zenon DEF FromInteger, Abs
    <2>5. LongBits <= k => 2 ^ LongBits <= P
      BY <2>2, <2>3, PowerGrows
    <2>6. P \in Nat /\ 2 ^ LongBits \in Nat
      BY <2>2, <2>3, PowerIsNat
    <2> HIDE DEF k
    <2>7. fraction \in Nat
      <3>1. CASE k <= MantBits
        <4>1. MantBits - k \in Nat
          BY <2>3, <3>1, WidthFacts
        <4> DEFINE D == 2 ^ (MantBits - k)
        <4>2. D \in Nat /\ v - P \in Nat /\ fraction = (v - P) * D
          BY <2>1, <2>3, <2>6, <3>1, <4>1, PowerIsNat
        <4> HIDE DEF D, P, fraction
        <4> QED BY <4>2, ProductFacts
      <3>2. CASE ~(k <= MantBits)
        <4>1. k - MantBits \in Nat
          BY <2>3, <3>2, WidthFacts
        <4> DEFINE D == 2 ^ (k - MantBits)
        <4>2. D \in Nat /\ D >= 1 /\ v - P \in Nat /\ fraction = (v - P) \div D
          BY <2>1, <2>3, <2>6, <3>2, <4>1, PowerIsNat
        <4> HIDE DEF D, P, fraction
        <4> QED BY <4>2, QuotientFacts
      <3> QED BY <3>1, <3>2
    <2> HIDE DEF P, fraction, v
    <2>8. k < LongBits
      BY <2>1, <2>2, <2>3, <2>5, <2>6 DEF v
    <2>9. k + Bias \in 0 .. MaxExp /\ fraction % Hidden \in 0 .. Hidden - 1
      BY <2>2, <2>3, <2>7, <2>8, FormatFacts, IntegersAssumption
    <2> QED BY <2>4, <2>9 DEF Double
  <1> QED BY <1>1, <1>2

\* What is cut to an integer is one of its type, for every bit pattern.
LEMMA ToSignedType ==
  ASSUME NEW bits \in {IntBits, LongBits}, NEW x \in Double
  PROVE  ToSigned(x, bits) \in SignedRange(bits)
  <1> DEFINE h == 2 ^ (bits - 1)
             g == Magnitude(x)
             E == Exponent(x)
  <1>1. /\ h \in Nat /\ h >= 1 /\ 2 ^ bits = 2 * h /\ bits \in Nat /\ bits - 1 \in Nat
    BY BitsFacts
  <1>2. E \in Int
    BY WholePart
  <1>3. CASE E < 0
    BY <1>1, <1>3 DEF ToSigned, SignedRange
  <1>4. CASE E > bits - 1
    BY <1>1, <1>2, <1>4 DEF ToSigned, SignedRange
  <1>5. CASE 0 <= E /\ E <= bits - 1
    <2>1. g \in Nat /\ g < 2 ^ (E + 1)
      BY <1>2, <1>5, WholePart
    <2>2. E + 1 \in Nat /\ E + 1 <= bits
      BY <1>1, <1>2, <1>5
    <2>3. 2 ^ (E + 1) <= 2 ^ bits /\ 2 ^ (E + 1) \in Nat
      BY <1>1, <2>2, PowerGrows, PowerIsNat
    <2>4. ToSigned(x, bits) = IF x.s = 0 THEN AsSigned(g, bits)
                              ELSE Negated(AsSigned(g, bits), bits)
      BY <1>1, <1>2, <1>5 DEF ToSigned
    <2>5. AsSigned(g, bits) = IF g < h THEN g ELSE g - 2 * h
      BY <1>1 DEF AsSigned
    <2>6. \A v : Negated(v, bits) = IF v = -h THEN v ELSE -v
      BY DEF Negated
    <2>7. SignedRange(bits) = -h .. h - 1
      BY DEF SignedRange
    <2> HIDE DEF h, g
    <2>8. g < 2 * h
      BY <1>1, <2>1, <2>3
    <2> QED BY <1>1, <2>1, <2>4, <2>5, <2>6, <2>7, <2>8
  <1> QED BY <1>1, <1>2, <1>3, <1>4, <1>5

LEMMA ToUnsignedType ==
  ASSUME NEW bits \in {IntBits, LongBits}, NEW x \in Double
  PROVE  ToUnsigned(x, bits) \in 0 .. 2 ^ bits - 1
  <1> DEFINE E == Exponent(x)
             top == 2 ^ bits
  <1>1. bits \in Nat /\ bits >= 1 /\ top \in Nat /\ top >= 1
    BY BitsFacts, PowerIsNat
  <1>2. CASE x.s = 1 \/ Bits(x) <= Bias * Hidden
    <2>1. ToUnsigned(x, bits) = 0
      BY <1>2 DEF ToUnsigned
    <2> QED BY <1>1, <2>1
  <1>3. CASE ~(x.s = 1 \/ Bits(x) <= Bias * Hidden)
    <2>1. E \in Int /\ E = x.e - Bias
      BY WholePart DEF Exponent
    <2>2. E >= 0
      <3>1. ASSUME x.e < Bias PROVE Bits(x) <= Bias * Hidden
        <4>1. x.e + 1 \in Nat /\ x.e + 1 <= Bias /\ x.e \in Nat /\ x.m \in Nat /\ x.m < Hidden
          BY <3>1, DoubleFacts, FormatFacts
        <4>2. (x.e + 1) * Hidden <= Bias * Hidden
          BY <4>1, FormatFacts, ProductFacts
        <4>3. (x.e + 1) * Hidden = x.e * Hidden + Hidden
          BY <4>1, FormatFacts
        <4>4. x.e * Hidden \in Nat /\ Bias * Hidden \in Nat
          BY <4>1, FormatFacts, ProductFacts
        <4> QED BY <4>1, <4>2, <4>3, <4>4, FormatFacts DEF Bits
      <3> QED BY <1>3, <2>1, <3>1, DoubleFacts, FormatFacts
    <2>3. Magnitude(x) \in Nat /\ Magnitude(x) < 2 ^ (E + 1)
      BY <2>1, <2>2, WholePart
    <2>4. CASE E > bits - 1
      <3>1. ToUnsigned(x, bits) = top - 1
        BY <1>3, <2>4 DEF ToUnsigned
      <3> HIDE DEF top
      <3>2. ToUnsigned(x, bits) \in 0 .. top - 1
        BY <1>1, <3>1
      <3> QED BY <3>2 DEF top
    <2>5. CASE ~(E > bits - 1)
      <3>1. ToUnsigned(x, bits) = Magnitude(x)
        BY <1>3, <2>5 DEF ToUnsigned
      <3>2. E + 1 \in Nat /\ E + 1 <= bits
        BY <1>1, <2>1, <2>2, <2>5
      <3>3. 2 ^ (E + 1) <= top /\ 2 ^ (E + 1) \in Nat
        BY <1>1, <3>2, PowerGrows, PowerIsNat
      <3> HIDE DEF top
      <3>4. Magnitude(x) \in 0 .. top - 1
        BY <1>1, <2>3, <3>3
      <3> QED BY <3>1, <3>4 DEF top
    <2> QED BY <2>4, <2>5
  <1> QED BY <1>2, <1>3

\* The fields of a single fit those of a double.
LEMMA SingleFacts ==
  /\ SingleBias \in Nat /\ SingleBias < Bias /\ SingleMaxExp = 2 * SingleBias + 1
  /\ MantBits - SingleMant \in Nat /\ SingleMant \in Nat
  /\ 2 ^ SingleMant \in Nat /\ 2 ^ (MantBits - SingleMant) \in Nat
  /\ 2 ^ (MantBits - SingleMant) >= 1
  /\ Hidden = 2 ^ SingleMant * 2 ^ (MantBits - SingleMant)
  /\ 2 ^ (SingleMant - 1) \in 0 .. 2 ^ SingleMant - 1
  <1>1. /\ SingleMant \in Nat /\ SingleMant >= 1 /\ SingleMant < MantBits
        /\ SingleExp \in Nat /\ SingleExp >= 1 /\ SingleExp < ExpBits
        /\ MantBits \in Nat /\ ExpBits \in Nat
    BY FormatAssumption
  <1>2. /\ SingleExp - 1 \in Nat /\ (SingleExp - 1) + 1 = SingleExp
        /\ ExpBits - 1 \in Nat /\ SingleExp - 1 < ExpBits - 1
        /\ SingleMant - 1 \in Nat /\ (SingleMant - 1) + 1 = SingleMant
    BY <1>1
  <1>3. 2 ^ SingleExp = 2 * 2 ^ (SingleExp - 1) /\ 2 ^ SingleMant = 2 * 2 ^ (SingleMant - 1)
    BY <1>2, PowerDoubles
  <1>4. 2 * 2 ^ (SingleExp - 1) <= 2 ^ (ExpBits - 1)
    BY <1>2, PowerGrows
  <1>5. /\ 2 ^ (SingleExp - 1) \in Nat /\ 2 ^ (SingleExp - 1) >= 1
        /\ 2 ^ (ExpBits - 1) \in Nat
        /\ 2 ^ (SingleMant - 1) \in Nat /\ 2 ^ (SingleMant - 1) >= 1
        /\ 2 ^ SingleMant \in Nat
    BY <1>1, <1>2, PowerIsNat
  <1>6. /\ MantBits - SingleMant \in Nat /\ 2 ^ (MantBits - SingleMant) \in Nat
        /\ 2 ^ (MantBits - SingleMant) >= 1
        /\ Hidden = 2 ^ SingleMant * 2 ^ (MantBits - SingleMant)
    BY <1>1, PowerSplits DEF Hidden
  <1>7. SingleBias \in Nat /\ SingleBias < Bias /\ SingleMaxExp = 2 * SingleBias + 1
    BY <1>3, <1>4, <1>5 DEF SingleBias, SingleMaxExp, Bias
  <1>8. 2 ^ (SingleMant - 1) \in 0 .. 2 ^ SingleMant - 1
    BY <1>3, <1>5
  <1> QED BY <1>1, <1>5, <1>6, <1>7, <1>8

LEMMA ExtendedType == ASSUME NEW f \in Single PROVE Extended(f) \in Double
  <1> DEFINE D == 2 ^ (MantBits - SingleMant)
             M == 2 ^ SingleMant
  <1>1. /\ D \in Nat /\ D >= 1 /\ M \in Nat /\ Hidden = M * D
        /\ SingleBias \in Nat /\ SingleBias < Bias /\ SingleMaxExp = 2 * SingleBias + 1
    BY SingleFacts
  <1>2. f.s \in {0, 1} /\ f.e \in 0 .. SingleMaxExp /\ f.m \in 0 .. M - 1
    BY DEF Single
  <1>3. CASE f.e = SingleMaxExp
    <2>1. [QuietNan EXCEPT !.s = f.s] \in Double
      BY <1>2, ConstantsTyped DEF Double
    <2> QED BY <1>2, <1>3, <2>1, ConstantsTyped DEF Extended
  <1>4. CASE f.e # SingleMaxExp /\ f.e = 0
    BY <1>2, <1>4, ConstantsTyped DEF Extended
  <1>5. CASE f.e # SingleMaxExp /\ f.e # 0
    <2>1. Extended(f) = [s |-> f.s, e |-> f.e - SingleBias + Bias, m |-> f.m * D]
      BY <1>5 DEF Extended
    <2> HIDE DEF D, M
    <2>2. f.m \in Nat /\ f.m < M
      BY <1>1, <1>2
    <2>3. f.m * D \in Nat /\ f.m * D < M * D
      BY <1>1, <2>2, ProductFacts
    <2>4. f.m * D \in 0 .. Hidden - 1
      BY <1>1, <2>3, FormatFacts
    <2>5. f.e - SingleBias + Bias \in 0 .. MaxExp
      BY <1>1, <1>2, FormatFacts
    <2> QED BY <1>2, <2>1, <2>4, <2>5 DEF Double
  <1> QED BY <1>3, <1>4, <1>5

LEMMA TruncatedType == ASSUME NEW x \in Double PROVE Truncated(x) \in Single
  <1> DEFINE D == 2 ^ (MantBits - SingleMant)
             M == 2 ^ SingleMant
             e == x.e - Bias + SingleBias
             c == x.m \div D
  <1>1. /\ D \in Nat /\ D >= 1 /\ M \in Nat /\ M >= 1 /\ Hidden = M * D
        /\ SingleBias \in Nat /\ SingleMaxExp = 2 * SingleBias + 1
        /\ 2 ^ (SingleMant - 1) \in 0 .. M - 1
    BY SingleFacts, PowerIsNat
  <1>2. x.s \in {0, 1} /\ x.e \in Nat /\ x.m \in Nat /\ x.m < Hidden
    BY DoubleFacts
  <1>3. e \in Int
    BY <1>1, <1>2, FormatFacts
  <1>4. c \in Nat /\ c < M
    <2> HIDE DEF D, M
    <2> QED BY <1>1, <1>2, CutFacts, QuotientFacts
  <1>5. \/ Truncated(x) = [s |-> 0, e |-> SingleMaxExp, m |-> 2 ^ (SingleMant - 1)]
        \/ Truncated(x) = [s |-> x.s, e |-> SingleMaxExp, m |-> 0]
        \/ Truncated(x) = [s |-> x.s, e |-> 0, m |-> 0]
        \/ /\ ~(e <= 0) /\ (df_iszero(x) \/ ~(e >= SingleMaxExp))
           /\ Truncated(x) = [s |-> x.s, e |-> e, m |-> c]
    BY Zenon DEF Truncated
  <1>6. df_iszero(x) => e <= 0
    BY <1>1, SingleFacts, FormatFacts DEF df_iszero
  <1> HIDE DEF M, c, e
  <1>7. SingleMaxExp \in 0 .. SingleMaxExp /\ 0 \in 0 .. SingleMaxExp /\ 0 \in 0 .. M - 1
    BY <1>1
  <1>8. ~(e <= 0) /\ (df_iszero(x) \/ ~(e >= SingleMaxExp)) => e \in 0 .. SingleMaxExp
    BY <1>1, <1>3, <1>6
  <1>9. c \in 0 .. M - 1
    BY <1>1, <1>4
  <1> QED BY <1>1, <1>2, <1>5, <1>7, <1>8, <1>9 DEF Single, M

\* A sum that starts from the larger operand packs a mantissa that is no less than 0.
LEMMA FiniteSumsType ==
  ASSUME NEW x \in Double, NEW y \in Double, ~Smaller(x, y), NEW r \in FiniteSums(x, y)
  PROVE  r \in Double
  <1> DEFINE a == Significand(x)
             exp == AddExp(x)
  <1>1. /\ a \in Nat /\ a < 2 * Hidden /\ Significand(y) \in Nat
        /\ Significand(y) < 2 * Hidden /\ exp \in Int /\ AddExp(y) \in Int
        /\ x.s \in {0, 1}
    BY SizeFacts, DoubleFacts DEF AddExp
  <1>2. exp - AddExp(y) \in Nat
    BY <1>1 DEF Smaller
  <1>3. PICK k \in Aligned(x, y) :
          r \in IF x.s = y.s THEN SumOf(x.s, exp, a + k)
                ELSE DifferenceOf(x.s, exp, Distance(a, k))
    BY Zenon DEF FiniteSums
  <1>4. k \in Nat /\ k < 2 * Hidden
    <2>1. k \in Nat /\ k <= Significand(y)
      BY <1>1, <1>2, <1>3, ShiftedType DEF Aligned
    <2> QED BY <1>1, <2>1, FormatFacts
  <1> HIDE DEF a, exp
  <1>5. CASE x.s = y.s
    <2>1. a + k \in Nat /\ (a + k) \div 2 \in Nat /\ exp + 1 \in Int
      BY <1>1, <1>4
    <2>2. r \in Packed(x.s, exp + 1, (a + k) \div 2) \/ r \in Packed(x.s, exp, a + k)
      BY <1>3, <1>5 DEF SumOf
    <2> QED BY <1>1, <2>1, <2>2, PackedType
  <1>6. CASE x.s # y.s
    <2> DEFINE c == Distance(a, k)
    <2>1. c \in Nat /\ c < 2 * Hidden
      BY <1>1, <1>4, FormatFacts DEF Distance
    <2>2. r \in DifferenceOf(x.s, exp, c)
      BY <1>3, <1>6
    <2> HIDE DEF c
    <2>3. CASE c = 0
      BY <2>2, <2>3, ConstantsTyped DEF DifferenceOf
    <2>4. CASE c # 0
      <3> DEFINE up == MovedUp(c)
                 b == c * 2 ^ up
      <3>1. up \in Nat /\ b \in Nat /\ Hidden <= b
        BY <2>1, <2>4, MovedUpFacts
      <3>2. r \in Packed(x.s, exp - up, b - Hidden)
        BY <2>2, <2>4, Zenon DEF DifferenceOf, MovedUp
      <3> HIDE DEF up, b
      <3>3. exp - up \in Int /\ b - Hidden \in Nat
        BY <1>1, <3>1, FormatFacts
      <3> QED BY <1>1, <3>2, <3>3, PackedType
    <2> QED BY <2>3, <2>4
  <1> QED BY <1>5, <1>6

LEMMA SumType ==
  ASSUME NEW x \in Double, NEW y \in Double, NEW r \in adddf3(x, y)
  PROVE  r \in Double
  <1>1. Smaller(x, y) => ~Smaller(y, x)
    <2>1. /\ AddExp(x) \in Int /\ AddExp(y) \in Int
          /\ Significand(x) \in Nat /\ Significand(y) \in Nat
      BY SizeFacts, DoubleFacts DEF AddExp
    <2> QED BY <2>1 DEF Smaller
  <1>2. r \in {x, y, QuietNan} \/ r \in IF Smaller(x, y) THEN FiniteSums(y, x)
                                        ELSE FiniteSums(x, y)
    BY Zenon DEF adddf3
  <1> QED BY <1>1, <1>2, ConstantsTyped, FiniteSumsType

LEMMA ProductType ==
  ASSUME NEW x \in Double, NEW y \in Double, NEW r \in muldf3(x, y)
  PROVE  r \in Double
  <1> DEFINE s == Xor(x.s, y.s)
             m == WithHidden(x)
             n == WithHidden(y)
             p == ProductWords(m, n)
             top == (p.hi \div 2 ^ (2 * MantBits + 1 - WordBits)) % 2
             cut == MantBits + top
             mant == p.hi * 2 ^ (WordBits - cut) + p.lo \div 2 ^ cut
  <1>1. s \in {0, 1} /\ x.e \in Nat /\ y.e \in Nat /\ m \in Nat /\ n \in Nat
    BY DoubleFacts, FormatFacts, XorType DEF WithHidden
  <1>2. r \in {x, y, QuietNan, Inf(s), Zero(s)}
          \/ r \in Packed(s, x.e + y.e - Bias + cut, mant)
    BY Zenon DEF muldf3, FiniteProducts
  <1>3. p.hi \in Nat /\ p.lo \in Nat
    <2> DEFINE h == Half
    <2>1. h \in Nat /\ h >= 1
      <3>1. LimbBits \in Nat
        BY FormatAssumption
      <3> QED BY <3>1, PowerIsNat DEF Half
    <2> HIDE DEF h
    <2>2. \A a \in Nat : a % h \in Nat /\ a \div h \in Nat
      BY <2>1, QuotientFacts
    <2> HIDE DEF m, n
    <2> DEFINE m0 == m % h  m1 == m \div h  n0 == n % h  n1 == n \div h
    <2>3. m0 \in Nat /\ m1 \in Nat /\ n0 \in Nat /\ n1 \in Nat
      BY <1>1, <2>2
    <2> DEFINE p00 == m0 * n0  p01 == m0 * n1  p10 == m1 * n0  p11 == m1 * n1
               mid == p01 + p10 + p00 \div h
               hi == p11 + p01 \div h + p10 \div h + mid \div h
               lo == (mid % h) * h + (p00 % h)
    <2>4. p = [hi |-> hi, lo |-> lo]
      BY DEF ProductWords, h
    <2> HIDE DEF m0, m1, n0, n1, p
    <2>5. p00 \in Nat /\ p01 \in Nat /\ p10 \in Nat /\ p11 \in Nat
      BY <2>3, ProductFacts
    <2> HIDE DEF p00, p01, p10, p11
    <2>6. mid \in Nat
      BY <2>2, <2>5
    <2> HIDE DEF mid
    <2>7. mid % h \in Nat /\ p00 % h \in Nat /\ (mid % h) * h \in Nat
      BY <2>1, <2>2, <2>5, <2>6, ProductFacts
    <2>8. hi \in Nat
      BY <2>2, <2>5, <2>6
    <2>9. lo \in Nat
      BY <2>7
    <2> QED BY <2>4, <2>8, <2>9
  <1>4. top \in {0, 1}
    <2>1. 2 * MantBits + 1 - WordBits \in Nat
      BY FormatAssumption DEF WordBits
    <2> DEFINE d == 2 ^ (2 * MantBits + 1 - WordBits)
               q == p.hi \div d
    <2>2. d \in Nat /\ d >= 1
      BY <2>1, PowerIsNat
    <2> HIDE DEF d
    <2>3. q \in Nat
      BY <1>3, <2>2, QuotientFacts
    <2>4. top = q % 2
      BY DEF d
    <2> HIDE DEF q
    <2> QED BY <2>3, <2>4
  <1> HIDE DEF top
  <1>5. cut \in Nat /\ WordBits - cut \in Nat
    BY <1>4, FormatAssumption DEF WordBits
  <1>6. mant \in Nat
    <2> DEFINE P == 2 ^ (WordBits - cut)
               Q == 2 ^ cut
    <2>1. P \in Nat /\ Q \in Nat /\ Q >= 1
      BY <1>5, PowerIsNat
    <2> HIDE DEF P, Q, p
    <2>2. p.hi * P \in Nat /\ p.lo \div Q \in Nat
      BY <1>3, <2>1, ProductFacts, QuotientFacts
    <2>3. p.hi * P + p.lo \div Q \in Nat
      BY <2>2
    <2> QED BY <2>3 DEF P, Q
  <1>7. x.e + y.e - Bias + cut \in Int
    BY <1>1, <1>5, FormatFacts
  <1> HIDE DEF s, mant, cut
  <1> QED BY <1>1, <1>2, <1>6, <1>7, PackedType, ConstantsTyped

\* The division loop ends with an integer, also where the remainder outgrows its word.
LEMMA LongDivisionType ==
  ASSUME NEW m \in Nat, NEW n \in Nat
  PROVE  LongDivision(m, n) \in Nat
  <1> DEFINE w == MantBits + 1
             g == CHOOSE f : IsDivision(f, m, n, w)
  <1>1. w \in Nat
    BY WidthFacts
  <1>2. LongDivision(m, n) = g[w].q
    BY DEF LongDivision, IsDivision
  <1> HIDE DEF w
  <1>3. IsDivision(g, m, n, w)
    BY <1>1, DivisionExists, Zenon
  <1> HIDE DEF g
  <1>4. g = [k \in 0 .. w |-> IF k = 0 THEN [q |-> 0, rv |-> m]
                              ELSE DivisionTurn(g[k - 1], n)]
    BY <1>3 DEF IsDivision
  <1>5. 2 ^ WordBits \in Nat /\ 2 ^ WordBits >= 1
    <2>1. WordBits \in Nat
      BY FormatAssumption DEF WordBits
    <2> QED BY <2>1, PowerIsNat
  <1> DEFINE Fine(now) == now.q \in Nat /\ now.rv \in Nat
             S == {k \in Nat : k <= w => Fine(g[k])}
  <1>6. 0 \in S
    <2>1. g[0] = [q |-> 0, rv |-> m]
      BY <1>1, <1>4
    <2> QED BY <2>1
  <1>7. ASSUME NEW k \in Nat, k \in S PROVE k + 1 \in S
    <2>1. ASSUME k + 1 <= w PROVE Fine(g[k + 1])
      <3>1. k <= w /\ k + 1 \in 0 .. w /\ k + 1 # 0 /\ (k + 1) - 1 = k
        BY <1>1, <2>1
      <3> DEFINE now == g[k]
                 W == 2 ^ WordBits
      <3>2. now.q \in Nat /\ now.rv \in Nat
        BY <1>7, <3>1
      <3>3. g[k + 1] = DivisionTurn(now, n)
        BY <1>4, <3>1
      <3> HIDE DEF now
      <3>4. DivisionTurn(now, n) =
              IF now.rv >= n THEN [q |-> 2 * now.q + 1, rv |-> (2 * (now.rv - n)) % W]
              ELSE [q |-> 2 * now.q, rv |-> (2 * now.rv) % W]
        BY DEF DivisionTurn
      <3>5. W \in Nat /\ W >= 1
        BY <1>5
      <3> HIDE DEF W
      <3>6. \A a \in Nat : a % W \in Nat
        BY <3>5
      <3>7. Fine(DivisionTurn(now, n))
        BY <3>2, <3>4, <3>6
      <3> QED BY <3>3, <3>7
    <2> QED BY <2>1
  <1> HIDE DEF S
  <1>8. w \in S
    BY <1>1, <1>6, <1>7, NatSetInduction
  <1> QED BY <1>1, <1>2, <1>8 DEF S

LEMMA QuotientType ==
  ASSUME NEW x \in Double, NEW y \in Double, NEW r \in divdf3(x, y)
  PROVE  r \in Double
  <1> DEFINE s == Xor(x.s, y.s)
             a == Significand(x)
             n == Significand(y)
             exp == x.e - y.e + Bias
  <1>1. /\ s \in {0, 1} /\ a \in Nat /\ 2 * a \in Nat /\ n \in Nat
        /\ exp \in Int /\ exp - 1 \in Int
    BY SizeFacts, DoubleFacts, FormatFacts, XorType
  <1>2. \/ r \in {x, y, QuietNan, Inf(s), Zero(s)}
        \/ r \in Packed(s, exp - 1, LongDivision(2 * a, n))
        \/ r \in Packed(s, exp, LongDivision(a, n))
    BY Zenon DEF divdf3, FiniteQuotients
  <1> HIDE DEF s, a, n, exp
  <1>3. LongDivision(2 * a, n) \in Nat /\ LongDivision(a, n) \in Nat
    BY <1>1, LongDivisionType
  <1> QED BY <1>1, <1>2, <1>3, PackedType, ConstantsTyped

LEMMA ConvertTyped == ASSUME Convert PROVE TypeOK'
  <1>1. ASSUME NEW n \in Ints \union UInts \union Longs \union ULongs
        PROVE  FromInteger(n) \in Double
    <2>1. /\ IntBits \in Nat /\ LongBits \in Nat /\ IntBits <= LongBits /\ IntBits >= 1
          /\ LongBits >= 1 /\ IntBits - 1 \in Nat /\ LongBits - 1 \in Nat
          /\ (IntBits - 1) + 1 = IntBits /\ (LongBits - 1) + 1 = LongBits
      BY WidthFacts
    <2>2. /\ 2 ^ IntBits = 2 * 2 ^ (IntBits - 1) /\ 2 ^ LongBits = 2 * 2 ^ (LongBits - 1)
          /\ 2 ^ (IntBits - 1) \in Nat /\ 2 ^ (LongBits - 1) \in Nat
          /\ 2 ^ (IntBits - 1) >= 1 /\ 2 ^ (LongBits - 1) >= 1
          /\ 2 ^ IntBits <= 2 ^ LongBits
      BY <2>1, PowerDoubles, PowerIsNat, PowerGrows
    <2> DEFINE I == 2 ^ (IntBits - 1)  L == 2 ^ (LongBits - 1)
    <2>3. Ints = -I .. I - 1 /\ Longs = -L .. L - 1
      BY DEF Ints, Longs
    <2>4. UInts = 0 .. 2 * I - 1 /\ ULongs = 0 .. 2 * L - 1 /\ 2 ^ LongBits = 2 * L
      BY <2>2 DEF UInts, ULongs
    <2>5. I \in Nat /\ L \in Nat /\ I >= 1 /\ L >= 1 /\ 2 * I <= 2 * L
      BY <2>2
    <2> HIDE DEF I, L
    <2>6. n \in Int /\ Abs(n) < 2 * L
      BY <2>3, <2>4, <2>5 DEF Abs
    <2> QED BY <2>4, <2>6, FromIntegerType
  <1>2. /\ \A x \in Double : /\ ToSigned(x, IntBits) \in Ints
                             /\ ToSigned(x, LongBits) \in Longs
                             /\ ToUnsigned(x, IntBits) \in UInts
                             /\ ToUnsigned(x, LongBits) \in ULongs
                             /\ Truncated(x) \in Single
        /\ \A f \in Single : Extended(f) \in Double
    BY ToSignedType, ToUnsignedType, TruncatedType, ExtendedType
       DEF Ints, Longs, UInts, ULongs, SignedRange
  <1>3. \/ /\ op' \in {"floatsidf", "floatunsidf", "floatdidf", "floatundidf", "extendsfdf2"}
           /\ result' \in Double
        \/ op' = "fixdfsi" /\ result' \in Ints
        \/ op' = "fixdfdi" /\ result' \in Longs
        \/ op' = "fixunsdfsi" /\ result' \in UInts
        \/ op' = "fixunsdfdi" /\ result' \in ULongs
        \/ op' = "truncdfsf2" /\ result' \in Single
    <2>1. CASE \E n \in Ints : Return("floatsidf", <<n>>, FromInteger(n))
      BY <1>1, <2>1 DEF Return
    <2>2. CASE \E n \in UInts : Return("floatunsidf", <<n>>, FromInteger(n))
      BY <1>1, <2>2 DEF Return
    <2>3. CASE \E n \in Longs : Return("floatdidf", <<n>>, FromInteger(n))
      BY <1>1, <2>3 DEF Return
    <2>4. CASE \E n \in ULongs : Return("floatundidf", <<n>>, FromInteger(n))
      BY <1>1, <2>4 DEF Return
    <2>5. CASE \E x \in Double :
                 \/ Return("fixdfsi", <<x>>, ToSigned(x, IntBits))
                 \/ Return("fixdfdi", <<x>>, ToSigned(x, LongBits))
                 \/ Return("fixunsdfsi", <<x>>, ToUnsigned(x, IntBits))
                 \/ Return("fixunsdfdi", <<x>>, ToUnsigned(x, LongBits))
                 \/ Return("truncdfsf2", <<x>>, Truncated(x))
      BY <1>2, <2>5, Zenon DEF Return
    <2>6. CASE \E f \in Single : Return("extendsfdf2", <<f>>, Extended(f))
      BY <1>2, <2>6 DEF Return
    <2> QED BY <2>1, <2>2, <2>3, <2>4, <2>5, <2>6, Zenon DEF Convert
  <1> QED BY <1>3 DEF TypeOK

LEMMA CalculateTyped == ASSUME Calculate PROVE TypeOK'
  <1>1. PICK x \in Double, y \in Double :
          \/ op' = "adddf3" /\ result' \in adddf3(x, y)
          \/ op' = "subdf3" /\ result' \in subdf3(x, y)
          \/ op' = "muldf3" /\ result' \in muldf3(x, y)
          \/ op' = "divdf3" /\ result' \in divdf3(x, y)
    BY FormatAssumption, Zenon DEF Calculate, Return
  <1>2. Flip(y) \in Double /\ subdf3(x, y) = adddf3(x, Flip(y))
    BY FlipFacts DEF subdf3, Flip
  <1>3. op' \in {"adddf3", "subdf3", "muldf3", "divdf3"} /\ result' \in Double
    BY <1>1, <1>2, SumType, ProductType, QuotientType
  <1> QED BY <1>3 DEF TypeOK

\* Every conversion, sum, product and quotient returns a value of its type, for every
\* format and whatever bits it is given: infinities, NaNs, subnormal numbers and
\* shifts by more than a word included.
THEOREM ResultsTyped == Spec => []TypeOK
  <1>1. Init => TypeOK
    BY DEF Init, TypeOK
  <1>2. TypeOK /\ [Next]_vars => TypeOK'
    <2> SUFFICES ASSUME TypeOK, [Next]_vars PROVE TypeOK'
      OBVIOUS
    <2>1. CASE Convert
      BY <2>1, ConvertTyped
    <2>2. CASE Compare
      BY <2>2 DEF Compare, Return, TypeOK
    <2>3. CASE Calculate
      BY <2>3, CalculateTyped
    <2>4. CASE UNCHANGED vars
      BY <2>4 DEF vars, TypeOK
    <2> QED BY <2>1, <2>2, <2>3, <2>4 DEF Next
  <1> QED BY <1>1, <1>2, PTL DEF Spec

-----------------------------------------------------------------------------
(* How wrong a product is *)

\* The words of the 128-bit product of two hidden bits: one bit, where it belongs.
LEMMA HiddenSquared ==
  /\ 2 * MantBits - WordBits \in Nat
  /\ ProductWords(Hidden, Hidden) = [hi |-> 2 ^ (2 * MantBits - WordBits), lo |-> 0]
  <1> DEFINE h == Half
             c == MantBits - LimbBits
             k == 2 ^ c
  <1>1. LimbBits \in Nat /\ MantBits \in Nat /\ LimbBits <= MantBits
    BY FormatAssumption
  <1>2. /\ c \in Nat /\ k \in Nat /\ k >= 1 /\ h \in Nat /\ h >= 1
        /\ Hidden = h * k
    BY <1>1, PowerSplits, PowerIsNat DEF Half, Hidden
  <1>3. 2 * MantBits - WordBits = c + c
    BY <1>1 DEF WordBits
  <1>4. 2 ^ (2 * MantBits - WordBits) = k * k
    BY <1>2, <1>3, PowerAdds
  <1> HIDE DEF c, k, h
  <1>5. Hidden \in Nat /\ k * h <= Hidden /\ Hidden < k * h + h
    BY <1>2, ProductFacts, FormatFacts
  <1>6. Hidden \div h = k
    BY <1>2, <1>5, QuotientIs
  <1>7. \A a \in Nat : a = (a \div h) * h + (a % h)
    BY <1>2
  <1>8. Hidden % h = 0
    <2>1. Hidden % h \in Nat /\ k * h \in Nat /\ k * h = Hidden
      BY <1>2, <1>5, ProductFacts
    <2>2. Hidden = k * h + (Hidden % h)
      BY <1>5, <1>6, <1>7
    <2> QED BY <2>1, <2>2
  <1>9. 0 % h = 0 /\ 0 \div h = 0 /\ 0 * 0 = 0 /\ 0 * k = 0 /\ k * 0 = 0 /\ 0 * h = 0
    <2>1. 0 * h <= 0 /\ 0 < 0 * h + h
      BY <1>2
    <2>2. 0 \div h = 0
      BY <1>2, <2>1, QuotientIs
    <2> QED BY <1>2, <2>2
  <1>10. k * k \in Nat
    BY <1>2, ProductFacts
  <1> DEFINE q == k * k
  <1>11. ProductWords(Hidden, Hidden) =
           [hi |-> q + 0 \div h + 0 \div h + (0 + 0 + 0 \div h) \div h,
            lo |-> ((0 + 0 + 0 \div h) % h) * h + (0 % h)]
    BY <1>6, <1>8, <1>9 DEF ProductWords, h
  <1> HIDE DEF q
  <1>12. ProductWords(Hidden, Hidden) = [hi |-> q, lo |-> 0]
    <2>1. q + 0 + 0 + 0 = q /\ 0 + 0 + 0 = 0 /\ 0 * h + 0 = 0
      BY <1>2, <1>10 DEF q
    <2> QED BY <1>9, <1>11, <2>1
  <1> QED BY <1>2, <1>3, <1>4, <1>12 DEF q

\* Of two powers of two nothing is cut off, and yet the exponent grows by MantBits.
LEMMA PowersPacked ==
  ASSUME NEW x \in Double, NEW y \in Double, Normal(x), Normal(y), x.m = 0, y.m = 0
  PROVE  muldf3(x, y) = Packed(Xor(x.s, y.s), x.e + y.e - Bias + MantBits, Hidden)
  <1> DEFINE d == 2 ^ (2 * MantBits + 1 - WordBits)
             k == 2 * MantBits - WordBits
             w == WordBits - MantBits
             a == 2 ^ k
             p == ProductWords(Hidden, Hidden)
             top == (p.hi \div d) % 2
  <1>1. WithHidden(x) = Hidden /\ WithHidden(y) = Hidden
    BY FormatFacts DEF WithHidden
  <1>2. muldf3(x, y) = FiniteProducts(x, y)
    BY DEF muldf3, df_isnan, df_isinf, df_iszero, Normal, Finite
  <1>3. k \in Nat /\ p = [hi |-> a, lo |-> 0]
    BY HiddenSquared
  <1>4. MantBits \in Nat /\ w \in Nat /\ k + w = MantBits
        /\ k + 1 = 2 * MantBits + 1 - WordBits
    BY <1>3, FormatAssumption DEF WordBits
  <1>5. a \in Nat /\ a >= 1 /\ d = 2 * a /\ a * 2 ^ w = Hidden
    BY <1>3, <1>4, PowerIsNat, PowerDoubles, PowerAdds DEF Hidden
  <1>6. 2 ^ MantBits \in Nat /\ 2 ^ MantBits >= 1
    BY <1>4, PowerIsNat
  <1>7. 0 \div 2 ^ MantBits = 0
    <2> DEFINE h == 2 ^ MantBits
    <2>1. h \in Nat /\ h >= 1
      BY <1>6
    <2> HIDE DEF h
    <2>2. 0 * h <= 0 /\ 0 < 0 * h + h
      BY <2>1
    <2>3. 0 \div h = 0
      BY <2>1, <2>2, QuotientIs
    <2> QED BY <2>3 DEF h
  <1> HIDE DEF a, d, w
  <1>8. top = 0
    <2>1. 0 * d <= a /\ a < 0 * d + d
      BY <1>5
    <2>2. a \div d = 0
      BY <1>5, <2>1, QuotientIs
    <2> QED BY <1>3, <2>2
  <1> DEFINE cut == MantBits + top
             mant == p.hi * 2 ^ (WordBits - cut) + p.lo \div 2 ^ cut
  <1>9. FiniteProducts(x, y) = Packed(Xor(x.s, y.s), x.e + y.e - Bias + cut, mant)
    BY <1>1, Zenon DEF FiniteProducts, d
  <1> HIDE DEF top
  <1>10. cut = MantBits
    BY <1>4, <1>8
  <1>11. mant = Hidden
    <2>1. mant = a * 2 ^ w + 0 \div 2 ^ MantBits
      BY <1>3, <1>10 DEF w
    <2> QED BY <1>5, <1>7, <2>1, FormatFacts
  <1> HIDE DEF cut, mant
  <1> QED BY <1>2, <1>9, <1>10, <1>11

\* In every format, for all powers of two whose product, taken this way, is still
\* finite: __muldf3 makes it 2^MantBits times too large.
THEOREM ProductsTooLarge ==
  \A x, y \in Double : \A r \in muldf3(x, y) :
    (/\ Normal(x) /\ Normal(y) /\ x.m = 0 /\ y.m = 0
     /\ x.e + y.e > Bias /\ x.e + y.e - Bias + MantBits < MaxExp) =>
      /\ r.s = Xor(x.s, y.s)
      /\ Abs(Val(r)) * One = (Abs(Val(x)) * Abs(Val(y))) * Hidden
  <1> SUFFICES ASSUME NEW x \in Double, NEW y \in Double, NEW r \in muldf3(x, y),
                      Normal(x), Normal(y), x.m = 0, y.m = 0,
                      x.e + y.e > Bias, x.e + y.e - Bias + MantBits < MaxExp
               PROVE  /\ r.s = Xor(x.s, y.s)
                      /\ Abs(Val(r)) * One = (Abs(Val(x)) * Abs(Val(y))) * Hidden
    OBVIOUS
  <1> DEFINE s == Xor(x.s, y.s)
             exp == x.e + y.e - Bias + MantBits
  <1>1. /\ x.s \in {0, 1} /\ y.s \in {0, 1} /\ x.e \in Nat /\ y.e \in Nat
        /\ 1 <= x.e /\ 1 <= y.e /\ x.e < MaxExp /\ y.e < MaxExp
    BY DoubleFacts, FormatFacts DEF Normal, Finite
  <1>2. s \in {0, 1} /\ exp \in Int /\ 1 <= exp /\ exp < MaxExp
    BY <1>1, XorType, FormatFacts, WidthFacts
  <1>3. r \in Packed(s, exp, Hidden)
    BY PowersPacked
  <1> HIDE DEF s, exp
  <1>4. Hidden % Hidden = 0
    BY FormatFacts
  <1>5. r.s = s /\ r.e = exp /\ r.m = 0 /\ r \in Double
    <2>1. r = [s |-> s, e |-> exp, m |-> 0]
      BY <1>2, <1>3, <1>4, FormatFacts, PackedFacts
    <2> QED BY <1>2, <2>1, FormatFacts DEF Double
  <1>6. Size(r) = Hidden * 2 ^ (exp - 1)
    <2>1. r.e # 0 /\ Hidden + 0 = Hidden
      BY <1>2, <1>5, FormatFacts
    <2>2. Significand(r) = Hidden /\ AddExp(r) = exp
      BY <1>5, <2>1 DEF Significand, WithHidden, AddExp
    <2> QED BY <2>2 DEF Size
  <1>7. Size(x) = Hidden * 2 ^ (x.e - 1) /\ Size(y) = Hidden * 2 ^ (y.e - 1)
    BY <1>1, FormatFacts DEF Size, Significand, WithHidden, AddExp
  <1>8. \A z \in Double : Abs(Val(z)) = Size(z)
    <2> TAKE z \in Double
    <2>1. Size(z) \in Nat /\ Val(z) = IF z.s = 0 THEN Size(z) ELSE -Size(z)
      BY SizeFacts
    <2> QED BY <2>1 DEF Abs
  <1>9. 2 ^ (exp - 1) * One = (2 ^ (x.e - 1) * 2 ^ (y.e - 1)) * (Hidden * Hidden)
    <2> DEFINE u == x.e - 1  v == y.e - 1
    <2>1. u \in Nat /\ v \in Nat /\ u + v \in Nat /\ MantBits \in Nat /\ MantBits + MantBits \in Nat
          /\ exp - 1 \in Nat /\ Bias + MantBits - 1 \in Nat
          /\ (exp - 1) + (Bias + MantBits - 1) = (u + v) + (MantBits + MantBits)
      BY <1>1, <1>2, FormatFacts, WidthFacts DEF exp
    <2> HIDE DEF u, v
    <2>2. 2 ^ (exp - 1) * One = 2 ^ ((exp - 1) + (Bias + MantBits - 1))
      BY <2>1, PowerAdds DEF One
    <2>3. 2 ^ ((u + v) + (MantBits + MantBits)) = 2 ^ (u + v) * 2 ^ (MantBits + MantBits)
      BY <2>1, PowerAdds
    <2>4. 2 ^ (u + v) = 2 ^ u * 2 ^ v /\ 2 ^ (MantBits + MantBits) = Hidden * Hidden
      BY <2>1, PowerAdds DEF Hidden
    <2> QED BY <2>1, <2>2, <2>3, <2>4 DEF u, v
  <1>10. (Hidden * 2 ^ (exp - 1)) * One
           = ((Hidden * 2 ^ (x.e - 1)) * (Hidden * 2 ^ (y.e - 1))) * Hidden
    <2> DEFINE p == 2 ^ (exp - 1)  q == 2 ^ (x.e - 1)  t == 2 ^ (y.e - 1)  h == Hidden
               one == One
    <2>1. p \in Nat /\ q \in Nat /\ t \in Nat /\ h \in Nat /\ one \in Nat
      <3>1. exp - 1 \in Nat /\ x.e - 1 \in Nat /\ y.e - 1 \in Nat
        BY <1>1, <1>2
      <3> QED BY <3>1, PowerIsNat, FormatFacts, OneFacts
    <2>2. p * one = (q * t) * (h * h)
      BY <1>9
    <2> HIDE DEF p, q, t, h, one
    <2>3. (h * p) * one = h * (p * one)
      BY <2>1
    <2>4. ((h * q) * (h * t)) * h = h * ((q * t) * (h * h))
      BY <2>1
    <2>5. (h * p) * one = ((h * q) * (h * t)) * h
      BY <2>2, <2>3, <2>4
    <2> QED BY <2>5 DEF p, q, t, h, one
  <1> QED BY <1>5, <1>6, <1>7, <1>8, <1>10 DEF s

\* So the product of 1 and 1 breaks what is expected of integers, on every target
\* that does without a floating-point unit.
THEOREM OneTimesOneIsWrong ==
  LET u == [s |-> 0, e |-> Bias, m |-> 0]
  IN  /\ u \in Double /\ Val(u) = One
      /\ (op = "muldf3" /\ args = <<u, u>> /\ result \in muldf3(u, u)) =>
           /\ Val(result) = One * Hidden
           /\ ~IntegerProductsExact
  <1> DEFINE u == [s |-> 0, e |-> Bias, m |-> 0]
             h == Hidden
             one == One
  <1>1. u \in Double /\ Normal(u) /\ u.m = 0 /\ u.e = Bias /\ u.s = 0
    BY FormatFacts DEF Double, Normal, Finite
  <1>2. Size(u) = One
    <2>1. Size(u) = Hidden * 2 ^ (Bias - 1)
      BY <1>1, FormatFacts DEF Size, Significand, WithHidden, AddExp
    <2>2. Bias - 1 \in Nat /\ MantBits \in Nat /\ MantBits + (Bias - 1) = Bias + MantBits - 1
      BY FormatFacts, WidthFacts
    <2> QED BY <2>1, <2>2, PowerAdds DEF Hidden, One
  <1>3. Val(u) = One
    BY <1>1, <1>2, SizeFacts
  <1>4. one \in Nat /\ one >= 1 /\ h \in Nat /\ h >= 2
    BY OneFacts, FormatFacts
  <1>5. ASSUME op = "muldf3", args = <<u, u>>, result \in muldf3(u, u)
        PROVE  Val(result) = One * Hidden /\ ~IntegerProductsExact
    <2>1. u.e + u.e > Bias /\ u.e + u.e - Bias + MantBits < MaxExp
      BY <1>1, FormatFacts, WidthFacts, FormatAssumption
    <2>2. result.s = Xor(0, 0) /\ Abs(Val(result)) * One = (Abs(One) * Abs(One)) * Hidden
      BY <1>1, <1>3, <1>5, <2>1, ProductsTooLarge
    <2>3. result \in Double
      BY <1>1, <1>5, ProductType
    <2>4. result.s = 0
      BY <2>2 DEF Xor
    <2>5. Size(result) \in Nat /\ Val(result) = Size(result) /\ Abs(Val(result)) = Size(result)
      BY <2>3, <2>4, SizeFacts DEF Abs
    <2> DEFINE v == Size(result)
    <2>6. Abs(one) = one /\ Whole(one) = 1 /\ one % one = 0
      <3>1. Abs(one) = one /\ one % one = 0
        BY <1>4 DEF Abs
      <3>2. 1 * one <= one /\ one < 1 * one + one
        BY <1>4
      <3>3. one \div one = 1
        BY <1>4, <3>2, QuotientIs
      <3> QED BY <1>4, <3>1, <3>3 DEF Whole
    <2>7. v * one = (one * one) * h /\ v \in Nat
      BY <2>2, <2>5, <2>6
    <2> HIDE DEF v, one, h
    <2>8. v = one * h
      <3>1. one * h \in Nat /\ (one * one) * h = (one * h) * one
        BY <1>4
      <3>2. v < one * h => v * one < (one * h) * one
        BY <1>4, <2>7, <3>1, ProductFacts
      <3>3. one * h < v => (one * h) * one < v * one
        BY <1>4, <2>7, <3>1, ProductFacts
      <3> DEFINE a == one * h  b == v * one  c == (one * h) * one
      <3>4. a \in Nat /\ b \in Nat /\ b = c
        BY <1>4, <2>7, <3>1, ProductFacts
      <3>5. (v < a => b < c) /\ (a < v => c < b)
        BY <3>2, <3>3
      <3> HIDE DEF a, b, c
      <3> QED BY <2>7, <3>4, <3>5 DEF a
    <2>9. one * h >= 2 * one
      BY <1>4
    <2>10. Abs(1 * one) <= 2 * h * one /\ Abs(one) < 2 * h * one
      BY <1>4, <2>6, <2>9
    <2>11. Val(result) = one * h /\ one * h # 1 * one
      BY <1>4, <2>5, <2>8, <2>9 DEF v
    <2>12. SafeInteger(u)
      BY <1>1, <1>3, <2>6, <2>10 DEF SafeInteger, Normal, one, h
    <2>13. Whole(Val(u)) = 1 /\ Val(u) = one
      BY <1>3, <2>6 DEF one
    <2>14. args[1] = u /\ args[2] = u
      BY <1>5
    <2>15. ~IntegerProductsExact
      BY <1>5, <2>10, <2>11, <2>12, <2>13, <2>14 DEF IntegerProductsExact, one, h
    <2> QED BY <2>11, <2>15 DEF one, h
  <1> QED BY <1>1, <1>3, <1>5

\* The unsigned conversions do not return 1 for 1.0, in any format: they test the
\* double against 1.0 by <= and answer 0.
THEOREM UnsignedOneIsZero ==
  LET u == [s |-> 0, e |-> Bias, m |-> 0]
  IN  u \in Double /\ FromInteger(1) = u /\ \A bits \in Nat : ToUnsigned(u, bits) = 0
  <1> DEFINE u == [s |-> 0, e |-> Bias, m |-> 0]
  <1>1. u \in Double
    BY FormatFacts DEF Double
  <1>2. Bits(u) = Bias * Hidden
    BY FormatFacts DEF Bits
  <1>3. \A bits \in Nat : ToUnsigned(u, bits) = 0
    <2>1. Bits(u) <= Bias * Hidden
      BY <1>1, <1>2, BitsAreInt
    <2> QED BY <2>1 DEF ToUnsigned
  <1>4. FromInteger(1) = u
    BY OneAsDouble
  <1> QED BY <1>1, <1>3, <1>4

\* Of a number below zero and one above, < and <= of the code have it the wrong way
\* round, whatever they are: the test "selected < 0" of the menu never holds.
THEOREM NegativeIsNotLess ==
  ASSUME NEW x \in Double, NEW y \in Double, ~Unordered(x, y), x.s = 1, y.s = 0
  PROVE  /\ Val(x) <= Val(y)
         /\ ~Holds("ltdf2", ltdf2(x, y)) /\ ~Holds("ledf2", ledf2(x, y))
         /\ Holds("ltdf2", ltdf2(y, x)) /\ Holds("ledf2", ledf2(y, x))
  <1>1. Val(x) <= Val(y)
    BY SizeFacts
  <1>2. ~Unordered(y, x)
    BY DEF Unordered
  <1>3. ltdf2(x, y) = 1 /\ ltdf2(y, x) = -1
    BY <1>2 DEF ltdf2
  <1>4. ledf2(x, y) = 1 /\ ledf2(y, x) = -1
    BY <1>2, <1>3 DEF ledf2
  <1> QED BY <1>1, <1>3, <1>4 DEF Holds

-----------------------------------------------------------------------------
(* Functions on 0 .. n that give each value from the one before *)

\* That g starts with start and goes on by next, which says what each turn does.
IsChain(g, n, start, next) ==
  g = [k \in 0 .. n |-> IF k = 0 THEN start ELSE next[k][g[k - 1]]]

LEMMA ChainExists ==
  ASSUME NEW D, NEW start \in D, NEW n \in Nat, NEW next \in [1 .. n -> [D -> D]]
  PROVE  \E g \in [0 .. n -> D] : IsChain(g, n, start, next)
  <1> DEFINE E(u) == \E g \in [0 .. u -> D] : IsChain(g, u, start, next)
             S == {u \in Nat : u <= n => E(u)}
  <1>1. 0 \in S
    <2> DEFINE g == [k \in 0 .. 0 |-> start]
    <2>1. g = [k \in 0 .. 0 |-> IF k = 0 THEN start ELSE next[k][g[k - 1]]]
      OBVIOUS
    <2>2. IsChain(g, 0, start, next) /\ g \in [0 .. 0 -> D]
      BY <2>1 DEF IsChain
    <2> QED BY <2>2
  <1>2. ASSUME NEW u \in Nat, u \in S PROVE u + 1 \in S
    <2>1. SUFFICES ASSUME u + 1 <= n PROVE E(u + 1)
      OBVIOUS
    <2>2. PICK g \in [0 .. u -> D] : IsChain(g, u, start, next)
      BY <1>2, <2>1
    <2> DEFINE h == [k \in 0 .. u + 1 |-> IF k <= u THEN g[k] ELSE next[u + 1][g[u]]]
    <2>3. g = [k \in 0 .. u |-> IF k = 0 THEN start ELSE next[k][g[k - 1]]]
      BY <2>2 DEF IsChain
    <2>4. h \in [0 .. u + 1 -> D]
      <3>1. next[u + 1] \in [D -> D] /\ g[u] \in D
        BY <2>1
      <3>2. next[u + 1][g[u]] \in D
        BY <3>1
      <3> QED BY <3>2
    <2>5. ASSUME NEW k \in 0 .. u + 1
          PROVE  h[k] = IF k = 0 THEN start ELSE next[k][h[k - 1]]
      <3>1. CASE k = 0
        BY <2>3, <3>1
      <3>2. CASE k \in 1 .. u
        <4>1. k \in 0 .. u /\ k - 1 \in 0 .. u /\ k - 1 \in 0 .. u + 1
          BY <3>2
        <4>2. h[k] = g[k] /\ h[k - 1] = g[k - 1]
          BY <4>1
        <4>3. g[k] = next[k][g[k - 1]]
          BY <2>3, <3>2, <4>1
        <4> QED BY <3>2, <4>2, <4>3
      <3>3. CASE k = u + 1
        <4>1. h[u + 1] = next[u + 1][g[u]] /\ h[u] = g[u]
          OBVIOUS
        <4>2. k - 1 = u /\ k # 0
          BY <3>3
        <4> QED BY <3>3, <4>1, <4>2
      <3> QED BY <3>1, <3>2, <3>3
    <2>6. h = [k \in 0 .. u + 1 |-> IF k = 0 THEN start ELSE next[k][h[k - 1]]]
      <3> DEFINE hh == [k \in 0 .. u + 1 |-> IF k = 0 THEN start ELSE next[k][h[k - 1]]]
      <3>1. \A k \in 0 .. u + 1 : h[k] = hh[k]
        BY <2>5
      <3>2. h = [k \in 0 .. u + 1 |-> h[k]] /\ hh = [k \in 0 .. u + 1 |-> hh[k]]
        OBVIOUS
      <3> HIDE DEF h, hh
      <3>3. h = hh
        BY <3>1, <3>2
      <3> QED BY <3>3 DEF hh
    <2>7. IsChain(h, u + 1, start, next)
      BY <2>6 DEF IsChain
    <2> HIDE DEF h
    <2> QED BY <2>4, <2>7
  <1> HIDE DEF S
  <1>3. n \in S
    BY <1>1, <1>2, NatSetInduction
  <1> QED BY <1>3 DEF S

-----------------------------------------------------------------------------
(* Numbers in digits *)

\* What is left of a number after each turn of the loop of int_to_str, and the powers
\* its digits are counted in.
IsLeft(g, u, base) ==
  g = [k \in 0 .. u |-> IF k = 0 THEN u ELSE g[k - 1] \div base]
IsPower(g, u, base) ==
  g = [k \in 0 .. u + 1 |-> IF k = 0 THEN 1 ELSE base * g[k - 1]]

LEMMA LeftExists ==
  ASSUME NEW u \in Nat, NEW base \in {10, 16}
  PROVE  \E g \in [0 .. u -> Nat] : IsLeft(g, u, base)
  <1> DEFINE next == [k \in 1 .. u |-> [v \in Nat |-> v \div base]]
  <1>1. \A v \in Nat : v \div base \in Nat
    BY QuotientFacts
  <1>2. next \in [1 .. u -> [Nat -> Nat]]
    BY <1>1
  <1>3. PICK g \in [0 .. u -> Nat] : IsChain(g, u, u, next)
    <2> HIDE DEF next
    <2> QED BY <1>2, ChainExists
  <1>4. g = [k \in 0 .. u |-> IF k = 0 THEN u ELSE next[k][g[k - 1]]]
    BY <1>3 DEF IsChain
  <1>5. \A k \in 0 .. u : k # 0 => next[k][g[k - 1]] = g[k - 1] \div base
    OBVIOUS
  <1> HIDE DEF next
  <1>6. g = [k \in 0 .. u |-> IF k = 0 THEN u ELSE g[k - 1] \div base]
    BY <1>4, <1>5
  <1> QED BY <1>6 DEF IsLeft

LEMMA PowerExists ==
  ASSUME NEW u \in Nat, NEW base \in {10, 16}
  PROVE  \E g \in [0 .. u + 1 -> Nat] : IsPower(g, u, base)
  <1> DEFINE n == u + 1
             next == [k \in 1 .. n |-> [v \in Nat |-> base * v]]
  <1>0. n \in Nat /\ 1 \in Nat
    OBVIOUS
  <1>2. next \in [1 .. n -> [Nat -> Nat]]
    OBVIOUS
  <1>3. PICK g \in [0 .. n -> Nat] : IsChain(g, n, 1, next)
    <2> HIDE DEF next, n
    <2> QED BY <1>0, <1>2, ChainExists
  <1>4. g = [k \in 0 .. n |-> IF k = 0 THEN 1 ELSE next[k][g[k - 1]]]
    BY <1>3 DEF IsChain
  <1>5. \A k \in 0 .. n : k # 0 => next[k][g[k - 1]] = base * g[k - 1]
    OBVIOUS
  <1> HIDE DEF next
  <1>6. g = [k \in 0 .. n |-> IF k = 0 THEN 1 ELSE base * g[k - 1]]
    BY <1>4, <1>5
  <1> QED BY <1>6 DEF IsPower

LEMMA QuotientOfQuotient ==
  ASSUME NEW a \in Nat, NEW b \in Nat, NEW d \in Nat, b >= 1, d >= 1
  PROVE  (a \div b) \div d = a \div (d * b)
  <1> DEFINE q == a \div b
             r == q \div d
  <1>1. q \in Nat /\ q * b <= a /\ a < q * b + b
    BY QuotientFacts
  <1> HIDE DEF q
  <1>2. r \in Nat /\ r * d <= q /\ q < r * d + d
    BY <1>1, QuotientFacts
  <1> HIDE DEF r
  <1>3. r * d \in Nat /\ r * d + d \in Nat /\ d * b \in Nat /\ q + 1 \in Nat
    BY <1>1, <1>2, ProductFacts
  <1>4. (r * d) * b <= q * b /\ (r * d) * b = r * (d * b)
    BY <1>1, <1>2, <1>3, ProductFacts
  <1>5. (q + 1) * b <= (r * d + d) * b
    BY <1>1, <1>2, <1>3, ProductFacts
  <1>6. (q + 1) * b = q * b + b /\ (r * d + d) * b = (r * d) * b + d * b
    BY <1>1, <1>3
  <1>7. r * (d * b) <= a /\ a < r * (d * b) + d * b
    <2>1. q * b \in Nat /\ r * (d * b) \in Nat
      BY <1>1, <1>2, <1>3, ProductFacts
    <2> QED BY <1>1, <1>3, <1>4, <1>5, <1>6, <2>1
  <1>8. d * b >= 1
    OBVIOUS
  <1>9. a \div (d * b) = r
    BY <1>2, <1>3, <1>7, <1>8, QuotientIs
  <1> QED BY <1>9 DEF q, r

\* After k turns what is left is the number without its last k digits.
LEMMA LeftIsQuotient ==
  ASSUME NEW u \in Nat, NEW base \in {10, 16}, NEW g, NEW p,
         IsLeft(g, u, base), IsPower(p, u, base)
  PROVE  /\ g \in [0 .. u -> Nat] /\ p \in [0 .. u + 1 -> Nat]
         /\ \A k \in 0 .. u + 1 : p[k] > k
         /\ \A k \in 0 .. u : g[k] = u \div p[k]
         /\ \A k \in 0 .. u : p[k] <= p[k + 1]
  <1>1. /\ p[0] = 1
        /\ \A k \in 0 .. u : p[k + 1] = base * p[k]
    BY DEF IsPower
  <1>2. /\ g[0] = u
        /\ \A k \in 0 .. u : k + 1 <= u => g[k + 1] = g[k] \div base
    BY DEF IsLeft
  <1> DEFINE P(k) == /\ p[k] \in Nat /\ p[k] > k
                     /\ k <= u => g[k] = u \div p[k]
             S == {k \in Nat : k <= u + 1 => P(k)}
  <1>3. 0 \in S
    <2>1. u \div 1 = u
      OBVIOUS
    <2> QED BY <1>1, <1>2, <2>1
  <1>4. ASSUME NEW k \in Nat, k \in S PROVE k + 1 \in S
    <2>1. SUFFICES ASSUME k + 1 <= u + 1
                   PROVE  /\ p[k + 1] \in Nat /\ p[k + 1] > k + 1
                          /\ k + 1 <= u => g[k + 1] = u \div p[k + 1]
      OBVIOUS
    <2>2. k \in 0 .. u /\ p[k] > k /\ g[k] = u \div p[k] /\ p[k] \in Nat
      BY <1>4, <2>1
    <2>3. p[k + 1] = base * p[k]
      BY <1>1, <2>2
    <2>4. p[k + 1] \in Nat /\ p[k + 1] > k + 1
      BY <2>2, <2>3
    <2>5. ASSUME k + 1 <= u PROVE g[k + 1] = u \div p[k + 1]
      <3>1. g[k + 1] = (u \div p[k]) \div base
        BY <1>2, <2>2, <2>5
      <3>2. (u \div p[k]) \div base = u \div (base * p[k])
        <4>1. p[k] >= 1 /\ base \in Nat /\ base >= 1
          BY <2>2
        <4> QED BY <2>2, <4>1, QuotientOfQuotient
      <3> QED BY <2>3, <3>1, <3>2, Zenon
    <2> QED BY <2>4, <2>5
  <1> HIDE DEF S
  <1>5. Nat \subseteq S
    BY <1>3, <1>4, NatSetInduction
  <1>6. \A k \in 0 .. u + 1 : p[k] \in Nat /\ p[k] > k
    BY <1>5 DEF S
  <1>7. \A k \in 0 .. u : g[k] = u \div p[k] /\ g[k] \in Nat
    <2>1. \A k \in 0 .. u : g[k] = u \div p[k]
      BY <1>5 DEF S
    <2>2. \A k \in 0 .. u : u \div p[k] \in Nat
      <3> SUFFICES ASSUME NEW k \in 0 .. u PROVE u \div p[k] \in Nat
        OBVIOUS
      <3>1. p[k] \in Nat /\ p[k] >= 1
        BY <1>6
      <3> QED BY <3>1, QuotientFacts
    <2> QED BY <2>1, <2>2
  <1>8. \A k \in 0 .. u : p[k] <= p[k + 1]
    <2>1. \A v \in Nat : v <= base * v
      OBVIOUS
    <2> QED BY <1>1, <1>6, <2>1
  <1>9. g \in [0 .. u -> Nat] /\ p \in [0 .. u + 1 -> Nat]
    <2>1. g = [k \in 0 .. u |-> g[k]] /\ p = [k \in 0 .. u + 1 |-> p[k]]
      BY DEF IsLeft, IsPower
    <2> QED BY <1>6, <1>7, <2>1
  <1> QED BY <1>6, <1>7, <1>8, <1>9

\* Powers grow, so a number has only one length.
LEMMA PowersGrow ==
  ASSUME NEW n \in Nat, NEW p \in [0 .. n -> Nat], \A k \in 0 .. n - 1 : p[k] <= p[k + 1],
         NEW i \in 0 .. n, NEW j \in 0 .. n, i <= j
  PROVE  p[i] <= p[j]
  <1> DEFINE S == {k \in Nat : i + k <= n => p[i] <= p[i + k]}
  <1>1. 0 \in S
    OBVIOUS
  <1>2. ASSUME NEW k \in Nat, k \in S PROVE k + 1 \in S
    <2>1. SUFFICES ASSUME i + (k + 1) <= n PROVE p[i] <= p[i + (k + 1)]
      OBVIOUS
    <2>2. i + k \in 0 .. n - 1 /\ (i + k) + 1 = i + (k + 1) /\ i + (k + 1) \in 0 .. n
      BY <2>1
    <2>3. p[i] <= p[i + k] /\ p[i + k] <= p[i + (k + 1)]
      BY <1>2, <2>2
    <2> QED BY <2>2, <2>3
  <1> HIDE DEF S
  <1>3. Nat \subseteq S
    BY <1>1, <1>2, NatSetInduction
  <1> DEFINE k == j - i
  <1>4. k \in Nat /\ i + k = j
    OBVIOUS
  <1> HIDE DEF k
  <1>5. k \in S
    BY <1>3, <1>4
  <1>6. p[i] <= p[i + k]
    BY <1>4, <1>5 DEF S
  <1> QED BY <1>4, <1>6

\* A character is a number, and a text a sequence of them.
Chars == Seq(Nat)

LEMMA DigitIsChar == \A k \in Nat : Digit(k) \in Nat
  BY DEF Digit

\* The loop of int_to_str finds the digits of the number, without a leading zero.
LEMMA DigitsAreNumeral ==
  ASSUME NEW u \in Nat, u >= 1, NEW base \in {10, 16}
  PROVE  Digits(u, base) = Numeral(u, base) /\ Digits(u, base) \in Chars
  <1> DEFINE g == CHOOSE f : IsLeft(f, u, base)
             p == CHOOSE f : IsPower(f, u, base)
             IsLength(k) == g[k] = 0 /\ \A i \in 0 .. k - 1 : g[i] > 0
             IsWidth(k) == u < p[k] /\ (k = 1 \/ u >= p[k - 1])
             n == CHOOSE k \in 0 .. u : IsLength(k)
             m == CHOOSE k \in 1 .. u + 1 : IsWidth(k)
  <1>1. Digits(u, base) = [i \in 1 .. n |-> Digit(g[n - i] % base)]
    BY DEF Digits, IsLeft
  <1>2. Numeral(u, base) = [k \in 1 .. m |-> Digit((u \div p[m - k]) % base)]
    BY DEF Numeral, IsPower
  <1>3. IsLeft(g, u, base) /\ IsPower(p, u, base)
    <2>1. \E f : IsLeft(f, u, base)
      BY LeftExists
    <2>2. \E f : IsPower(f, u, base)
      BY PowerExists
    <2> QED BY <2>1, <2>2, Zenon
  <1> HIDE DEF g, p
  <1>4. /\ g \in [0 .. u -> Nat] /\ p \in [0 .. u + 1 -> Nat]
        /\ \A k \in 0 .. u + 1 : p[k] > k
        /\ \A k \in 0 .. u : g[k] = u \div p[k]
        /\ \A k \in 0 .. u : p[k] <= p[k + 1]
    BY <1>3, LeftIsQuotient
  <1>5. /\ \A k \in 0 .. u : g[k] = 0 <=> u < p[k]
        /\ g[0] = u /\ g[u] = 0
    <2>1. ASSUME NEW k \in 0 .. u PROVE g[k] = 0 <=> u < p[k]
      <3> DEFINE d == p[k]
                 q == u \div d
      <3>1. d \in Nat /\ d >= 1 /\ g[k] = q
        BY <1>4, SMTT(20)
      <3> HIDE DEF d
      <3>2. q \in Nat /\ q * d <= u /\ u < q * d + d
        BY <3>1, QuotientFacts
      <3> HIDE DEF q
      <3>3. q >= 1 => d <= q * d
        BY <3>1, <3>2
      <3>4. q = 0 => q * d = 0
        BY <3>1
      <3>5. q * d \in Nat
        BY <3>1, <3>2, ProductFacts
      <3> QED BY <3>1, <3>2, <3>3, <3>4, <3>5 DEF d
    <2>2. g[0] = u
      BY <1>3 DEF IsLeft
    <2> QED BY <1>4, <2>1, <2>2
  <1>6. \E k \in 0 .. u : IsLength(k)
    <2> DEFINE Z == {k \in 0 .. u : g[k] = 0}
    <2>1. Z # {} /\ Z \subseteq Nat
      BY <1>5
    <2>2. PICK k \in Z : \A y \in Z : ~(y < k)
      BY <2>1, LeastExists
    <2>3. ASSUME NEW i \in 0 .. k - 1 PROVE g[i] > 0
      <3>1. i \in 0 .. u /\ i < k
        OBVIOUS
      <3>2. i \notin Z
        BY <2>2, <3>1
      <3>3. g[i] # 0 /\ g[i] \in Nat
        BY <1>4, <3>1, <3>2
      <3> QED BY <3>3
    <2> QED BY <2>2, <2>3
  <1>7. n \in 0 .. u /\ IsLength(n)
    BY <1>6, Zenon
  <1> HIDE DEF n
  <1>8. n >= 1 /\ n - 1 \in 0 .. u
    BY <1>5, <1>7
  <1>9. n \in 1 .. u + 1 /\ IsWidth(n)
    <2>1. g[n] = 0 /\ g[n - 1] > 0
      BY <1>7, <1>8
    <2>2. u < p[n] /\ ~(u < p[n - 1])
      BY <1>5, <1>7, <1>8, <2>1
    <2>3. p[n - 1] \in Nat
      BY <1>4, <1>8
    <2> QED BY <1>7, <1>8, <2>2, <2>3
  <1>10. m \in 1 .. u + 1 /\ IsWidth(m)
    BY <1>9, Zenon
  <1> HIDE DEF m
  <1>11. \A i, j \in 0 .. u + 1 : i <= j => p[i] <= p[j]
    <2> DEFINE w == u + 1
    <2>1. w \in Nat /\ p \in [0 .. w -> Nat] /\ \A k \in 0 .. w - 1 : p[k] <= p[k + 1]
      BY <1>4
    <2> HIDE DEF w
    <2>2. \A i, j \in 0 .. w : i <= j => p[i] <= p[j]
      BY <2>1, PowersGrow
    <2> QED BY <2>2 DEF w
  <1>12. m = n
    <2>1. ASSUME NEW i \in 1 .. u + 1, NEW j \in 1 .. u + 1, IsWidth(i), IsWidth(j), i < j
          PROVE  FALSE
      <3>1. i <= j - 1 /\ j - 1 \in 0 .. u + 1 /\ i \in 0 .. u + 1 /\ j # 1
        BY <2>1
      <3>2. p[i] <= p[j - 1] /\ p[i] \in Nat /\ p[j - 1] \in Nat
        BY <1>4, <1>11, <3>1
      <3> QED BY <2>1, <3>1, <3>2
    <2> HIDE DEF IsWidth
    <2> QED BY <1>9, <1>10, <2>1
  <1>13. \A i \in 1 .. n : /\ g[n - i] = u \div p[n - i] /\ g[n - i] \in Nat
    <2> SUFFICES ASSUME NEW i \in 1 .. n
                 PROVE  g[n - i] = u \div p[n - i] /\ g[n - i] \in Nat
      OBVIOUS
    <2>1. n - i \in 0 .. u
      BY <1>7
    <2> DEFINE k == n - i
    <2> HIDE DEF k
    <2>2. k \in 0 .. u => g[k] = u \div p[k] /\ g[k] \in Nat
      BY <1>4
    <2> QED BY <2>1, <2>2 DEF k
  <1>14. Digits(u, base) = [i \in 1 .. n |-> Digit((u \div p[n - i]) % base)]
    BY <1>1, <1>13
  <1>15. Digits(u, base) \in Chars
    <2>1. \A v \in Nat : Digit(v % base) \in Nat
      <3>1. \A v \in Nat : v % base \in Nat
        OBVIOUS
      <3> QED BY <3>1, DigitIsChar
    <2>2. n \in Nat
      BY <1>7
    <2>3. \A i \in 1 .. n : Digit(g[n - i] % base) \in Nat
      BY <1>13, <2>1
    <2>4. [i \in 1 .. n |-> Digit(g[n - i] % base)] \in [1 .. n -> Nat]
      BY <2>3
    <2> QED BY <1>1, <2>2, <2>4 DEF Chars
  <1> QED BY <1>2, <1>12, <1>14, <1>15, Zenon

-----------------------------------------------------------------------------
(* Counting the members of a set between two numbers *)

Within(T, m, n) == Cardinality(T \cap (m .. n))

LEMMA WithinFacts ==
  ASSUME NEW T, NEW m \in Int, NEW n \in Int
  PROVE  /\ IsFiniteSet(T \cap (m .. n)) /\ Within(T, m, n) \in Nat
         /\ n < m => Within(T, m, n) = 0
         /\ n = m => Within(T, m, n) = IF m \in T THEN 1 ELSE 0
  <1>1. IsFiniteSet(m .. n)
    BY FS_Interval
  <1>2. IsFiniteSet(T \cap (m .. n))
    BY <1>1, FS_Intersection
  <1>3. Cardinality(T \cap (m .. n)) \in Nat
    BY <1>2, FS_CardinalityType
  <1>4. n < m => T \cap (m .. n) = {}
    OBVIOUS
  <1>5. n = m => T \cap (m .. n) = IF m \in T THEN {m} ELSE {}
    OBVIOUS
  <1>6. Cardinality({m}) = 1 /\ Cardinality({}) = 0
    BY FS_Singleton, FS_EmptySet
  <1> QED BY <1>2, <1>3, <1>4, <1>5, <1>6 DEF Within

LEMMA WithinNat == \A T : \A m, n \in Int : Within(T, m, n) \in Nat
  BY WithinFacts

LEMMA WithinNothing == \A T : \A m, n \in Int : n < m => Within(T, m, n) = 0
  BY WithinFacts

LEMMA WithinOne == \A T : \A m \in Int : m \in T => Within(T, m, m) = 1
  BY WithinFacts

LEMMA WithinSplits ==
  ASSUME NEW T, NEW m \in Int, NEW k \in Int, NEW n \in Int, m <= k + 1, k <= n
  PROVE  Within(T, m, n) = Within(T, m, k) + Within(T, k + 1, n)
  <1> DEFINE A == T \cap (m .. k)
             B == T \cap (k + 1 .. n)
  <1>1. k + 1 \in Int
    OBVIOUS
  <1>2. IsFiniteSet(A) /\ IsFiniteSet(B)
    BY <1>1, WithinFacts
  <1>3. T \cap (m .. n) = A \union B /\ A \cap B = {}
    OBVIOUS
  <1> HIDE DEF A, B
  <1>4. Cardinality(A \union B) = Cardinality(A) + Cardinality(B) - Cardinality(A \cap B)
    BY <1>2, FS_Union
  <1>5. Cardinality(A \cap B) = 0
    BY <1>3, FS_EmptySet
  <1>6. Cardinality(A) \in Nat /\ Cardinality(B) \in Nat
    BY <1>2, FS_CardinalityType
  <1>7. Within(T, m, n) = Cardinality(A \union B)
    BY <1>3 DEF Within
  <1>8. Within(T, m, k) = Cardinality(A) /\ Within(T, k + 1, n) = Cardinality(B)
    BY DEF Within, A, B
  <1> QED BY <1>4, <1>5, <1>6, <1>7, <1>8

-----------------------------------------------------------------------------
(* Texts *)

LEMMA TextFacts ==
  /\ <<>> \in Chars /\ Len(<<>>) = 0
  /\ \A s \in Chars : Len(s) \in Nat /\ (s = <<>> <=> Len(s) = 0)
  /\ \A s \in Chars : \A k \in 1 .. Len(s) : s[k] \in Nat
  /\ \A s \in Chars : s # <<>> => /\ Head(s) \in Nat /\ Tail(s) \in Chars
                                   /\ Len(Tail(s)) = Len(s) - 1
                                   /\ Front(s) \in Chars /\ Len(Front(s)) = Len(s) - 1
  /\ \A s \in Chars : \A c \in Nat : Append(s, c) \in Chars /\ Len(Append(s, c)) = Len(s) + 1
  /\ \A s, t \in Chars : s \o t \in Chars /\ Len(s \o t) = Len(s) + Len(t)
  <1>1. /\ <<>> \in Chars /\ Len(<<>>) = 0
        /\ \A s \in Chars : Len(s) \in Nat /\ (s = <<>> <=> Len(s) = 0)
        /\ \A s \in Chars : \A k \in 1 .. Len(s) : s[k] \in Nat
    BY DEF Chars
  <1>2. ASSUME NEW s \in Chars, s # <<>>
        PROVE  /\ Head(s) \in Nat /\ Tail(s) \in Chars /\ Len(Tail(s)) = Len(s) - 1
               /\ Front(s) \in Chars /\ Len(Front(s)) = Len(s) - 1
    <2> DEFINE n == Len(s) - 1
    <2>1. s \in Seq(Nat) /\ n \in Nat /\ n <= Len(s)
      BY <1>2 DEF Chars
    <2>2. Head(s) \in Nat /\ Tail(s) \in Seq(Nat) /\ Len(Tail(s)) = n
      BY <1>2, <2>1
    <2> HIDE DEF n
    <2>3. SubSeq(s, 1, n) \in Seq(Nat) /\ Len(SubSeq(s, 1, n)) = n
      BY <2>1
    <2> QED BY <2>2, <2>3 DEF Chars, Front, n
  <1>3. \A s \in Chars : \A c \in Nat : Append(s, c) \in Chars /\ Len(Append(s, c)) = Len(s) + 1
    BY DEF Chars
  <1>4. \A s, t \in Chars : s \o t \in Chars /\ Len(s \o t) = Len(s) + Len(t)
    BY DEF Chars
  <1> QED BY <1>1, <1>2, <1>3, <1>4

LEMMA FrontIs ==
  \A s \in Chars : s # <<>> => \A i \in 1 .. Len(s) - 1 : Front(s)[i] = s[i]
  <1> SUFFICES ASSUME NEW s \in Chars, s # <<>>, NEW i \in 1 .. Len(s) - 1
               PROVE  Front(s)[i] = s[i]
    OBVIOUS
  <1> DEFINE m == Len(s) - 1
  <1>1. m \in Nat /\ m <= Len(s) /\ s \in Seq(Nat) /\ i \in 1 .. m
    BY TextFacts, SMTT(20) DEF Chars
  <1> HIDE DEF m
  <1>2. SubSeq(s, 1, m)[i] = s[i]
    BY <1>1
  <1> QED BY <1>2 DEF Front, m

LEMMA TextsAssociate == \A s, t, u \in Chars : (s \o t) \o u = s \o (t \o u)
  BY SMTT(20) DEF Chars

-----------------------------------------------------------------------------
(* A sequence of texts put together *)

Texts == Seq(Chars)

LEMMA FlattenEmpty == FlattenSeq(<<>>) = <<>>
  BY DEF FlattenSeq

IsFlat(g, ss) ==
  g = [i \in 1 .. Len(ss) |-> IF i = 1 THEN ss[i] ELSE g[i - 1] \o ss[i]]

LEMMA FlatFacts ==
  ASSUME NEW g, NEW ss, IsFlat(g, ss), NEW n \in Nat, Len(ss) = n, n >= 1
  PROVE  g[1] = ss[1] /\ \A i \in 2 .. n : g[i] = g[i - 1] \o ss[i]
  <1> DEFINE f == [i \in 1 .. n |-> IF i = 1 THEN ss[i] ELSE g[i - 1] \o ss[i]]
  <1>1. g = f
    BY DEF IsFlat
  <1>2. f[1] = ss[1] /\ \A i \in 2 .. n : f[i] = g[i - 1] \o ss[i]
    <2>1. 1 \in 1 .. n /\ \A i \in 2 .. n : i \in 1 .. n /\ i # 1
      OBVIOUS
    <2> QED BY <2>1, Zenon
  <1> HIDE DEF f
  <1>3. \A i \in 2 .. n : g[i] = f[i]
    BY <1>1
  <1> QED BY <1>1, <1>2, <1>3

LEMMA FlatExists ==
  ASSUME NEW ss \in Texts, ss # <<>>
  PROVE  \E g \in [1 .. Len(ss) -> Chars] : IsFlat(g, ss)
  <1> DEFINE n == Len(ss) - 1
             next == [k \in 1 .. n |-> [v \in Chars |-> v \o ss[k + 1]]]
  <1>1. n \in Nat /\ Len(ss) = n + 1 /\ ss[1] \in Chars /\ \A k \in 1 .. n : ss[k + 1] \in Chars
    BY DEF Texts
  <1>2. \A v, w \in Chars : v \o w \in Chars
    BY DEF Chars
  <1>3. next \in [1 .. n -> [Chars -> Chars]]
    BY <1>1, <1>2
  <1>4. \A k \in 1 .. n : \A v \in Chars : next[k][v] = v \o ss[k + 1]
    OBVIOUS
  <1> HIDE DEF n, next
  <1>5. PICK h \in [0 .. n -> Chars] : IsChain(h, n, ss[1], next)
    BY <1>1, <1>3, ChainExists
  <1>6. h[0] = ss[1] /\ \A k \in 1 .. n : h[k] = next[k][h[k - 1]]
    <2>1. h = [k \in 0 .. n |-> IF k = 0 THEN ss[1] ELSE next[k][h[k - 1]]]
      BY <1>5 DEF IsChain
    <2> QED BY <1>1, <2>1
  <1>7. \A k \in 1 .. n : h[k] = h[k - 1] \o ss[k + 1]
    <2>1. \A k \in 1 .. n : h[k - 1] \in Chars
      BY <1>1
    <2> QED BY <1>4, <1>6, <2>1
  <1> DEFINE g == [i \in 1 .. Len(ss) |-> h[i - 1]]
  <1>8. g \in [1 .. Len(ss) -> Chars]
    BY <1>1
  <1>9. ASSUME NEW i \in 1 .. Len(ss)
        PROVE  g[i] = IF i = 1 THEN ss[i] ELSE g[i - 1] \o ss[i]
    <2>1. CASE i = 1
      BY <1>6, <2>1
    <2>2. CASE i # 1
      <3>1. i - 1 \in 1 .. n /\ i - 1 \in 1 .. Len(ss) /\ (i - 1) + 1 = i
        BY <1>1, <2>2
      <3>2. h[i - 1] = h[(i - 1) - 1] \o ss[i]
        BY <1>7, <3>1
      <3>3. g[i] = h[i - 1] /\ g[i - 1] = h[(i - 1) - 1]
        BY <3>1
      <3> QED BY <2>2, <3>2, <3>3
    <2> QED BY <2>1, <2>2
  <1>10. g = [i \in 1 .. Len(ss) |-> g[i]]
    OBVIOUS
  <1> HIDE DEF g
  <1>11. g = [i \in 1 .. Len(ss) |-> IF i = 1 THEN ss[i] ELSE g[i - 1] \o ss[i]]
    BY <1>9, <1>10
  <1> QED BY <1>8, <1>11 DEF IsFlat

LEMMA FlattenIs ==
  ASSUME NEW ss \in Texts, ss # <<>>
  PROVE  \E g \in [1 .. Len(ss) -> Chars] : IsFlat(g, ss) /\ FlattenSeq(ss) = g[Len(ss)]
  <1> DEFINE g == CHOOSE f : IsFlat(f, ss)
  <1>1. Len(ss) # 0
    BY DEF Texts
  <1>2. FlattenSeq(ss) = g[Len(ss)]
    BY <1>1 DEF FlattenSeq, IsFlat
  <1>3. PICK h \in [1 .. Len(ss) -> Chars] : IsFlat(h, ss)
    BY FlatExists
  <1>4. IsFlat(g, ss)
    BY <1>3, Zenon
  <1> HIDE DEF g
  <1>5. g[1] = ss[1] /\ \A i \in 2 .. Len(ss) : g[i] = g[i - 1] \o ss[i]
    <2>1. Len(ss) \in Nat /\ Len(ss) >= 1
      BY <1>1 DEF Texts
    <2> QED BY <1>4, <2>1, FlatFacts
  <1> DEFINE S == {i \in Nat : i \in 1 .. Len(ss) => g[i] \in Chars}
  <1>6. 0 \in S
    OBVIOUS
  <1>7. ASSUME NEW i \in Nat, i \in S PROVE i + 1 \in S
    <2>1. SUFFICES ASSUME i + 1 \in 1 .. Len(ss) PROVE g[i + 1] \in Chars
      OBVIOUS
    <2>2. ss[i + 1] \in Chars
      BY <2>1 DEF Texts
    <2>3. i = 0 => g[i + 1] = ss[i + 1]
      BY <1>5
    <2>4. i # 0 => g[i + 1] = g[i] \o ss[i + 1] /\ g[i] \in Chars
      <3> SUFFICES ASSUME i # 0 PROVE g[i + 1] = g[i] \o ss[i + 1] /\ g[i] \in Chars
        OBVIOUS
      <3>1. i + 1 \in 2 .. Len(ss) /\ (i + 1) - 1 = i /\ i \in 1 .. Len(ss)
        BY <2>1
      <3> QED BY <1>5, <1>7, <3>1
    <2>5. \A v, w \in Chars : v \o w \in Chars
      BY DEF Chars
    <2> QED BY <2>2, <2>3, <2>4, <2>5
  <1> HIDE DEF S
  <1>8. Nat \subseteq S
    BY <1>6, <1>7, NatSetInduction
  <1>9. \A i \in 1 .. Len(ss) : g[i] \in Chars
    <2>1. 1 .. Len(ss) \subseteq Nat
      OBVIOUS
    <2> QED BY <1>8, <2>1 DEF S
  <1>10. g = [i \in 1 .. Len(ss) |-> g[i]]
    BY <1>4 DEF IsFlat
  <1>11. g \in [1 .. Len(ss) -> Chars]
    BY <1>9, <1>10
  <1> QED BY <1>2, <1>4, <1>11

LEMMA FlattenType == ASSUME NEW ss \in Texts PROVE FlattenSeq(ss) \in Chars
  <1>1. CASE ss = <<>>
    <2>1. <<>> \in Chars
      BY DEF Chars
    <2> QED BY <1>1, <2>1, FlattenEmpty, Zenon
  <1>2. CASE ss # <<>>
    <2>1. PICK g \in [1 .. Len(ss) -> Chars] : FlattenSeq(ss) = g[Len(ss)]
      BY <1>2, FlattenIs
    <2>2. Len(ss) \in 1 .. Len(ss)
      BY <1>2 DEF Texts
    <2> QED BY <2>1, <2>2
  <1> QED BY <1>1, <1>2

\* The last text comes last.
LEMMA FlattenAppend ==
  ASSUME NEW ss \in Texts, NEW t \in Chars
  PROVE  FlattenSeq(Append(ss, t)) = FlattenSeq(ss) \o t
  <1> DEFINE tt == Append(ss, t)
             n == Len(ss)
  <1>1. /\ tt \in Texts /\ tt # <<>> /\ Len(tt) = n + 1 /\ n \in Nat /\ tt[n + 1] = t
        /\ \A i \in 1 .. n : tt[i] = ss[i]
    BY DEF Texts
  <1> HIDE DEF tt
  <1>2. PICK g \in [1 .. n + 1 -> Chars] : IsFlat(g, tt) /\ FlattenSeq(tt) = g[n + 1]
    BY <1>1, FlattenIs
  <1>3. g[1] = tt[1] /\ \A i \in 2 .. n + 1 : g[i] = g[i - 1] \o tt[i]
    <2> DEFINE w == n + 1
    <2>1. w \in Nat /\ w >= 1 /\ Len(tt) = w /\ IsFlat(g, tt)
      BY <1>1, <1>2
    <2> HIDE DEF w
    <2>2. g[1] = tt[1] /\ \A i \in 2 .. w : g[i] = g[i - 1] \o tt[i]
      BY <2>1, FlatFacts
    <2> QED BY <2>2 DEF w
  <1>4. CASE n = 0
    <2>1. ss = <<>> /\ FlattenSeq(tt) = t
      BY <1>1, <1>2, <1>3, <1>4 DEF Texts
    <2>2. <<>> \o t = t
      BY DEF Chars
    <2> QED BY <2>1, <2>2, FlattenEmpty DEF tt
  <1>5. CASE n # 0
    <2>1. ss # <<>>
      BY <1>5
    <2>2. PICK h \in [1 .. n -> Chars] : IsFlat(h, ss) /\ FlattenSeq(ss) = h[n]
      BY <2>1, FlattenIs
    <2>3. h[1] = ss[1] /\ \A i \in 2 .. n : h[i] = h[i - 1] \o ss[i]
      <3>1. n \in Nat /\ Len(ss) = n /\ n >= 1 /\ IsFlat(h, ss)
        BY <1>1, <1>5, <2>2
      <3> HIDE DEF n
      <3>2. h[1] = ss[1] /\ \A i \in 2 .. n : h[i] = h[i - 1] \o ss[i]
        BY <3>1, FlatFacts
      <3> QED BY <3>2
    <2> DEFINE S == {i \in Nat : i \in 1 .. n => g[i] = h[i]}
    <2> HIDE DEF n
    <2>4. 0 \in S
      OBVIOUS
    <2>5. ASSUME NEW i \in Nat, i \in S PROVE i + 1 \in S
      <3>1. SUFFICES ASSUME i + 1 \in 1 .. n PROVE g[i + 1] = h[i + 1]
        OBVIOUS
      <3>2. CASE i = 0
        BY <1>1, <1>3, <2>3, <3>1, <3>2
      <3>3. CASE i # 0
        <4>1. i + 1 \in 2 .. n /\ i + 1 \in 2 .. n + 1 /\ (i + 1) - 1 = i /\ i \in 1 .. n
          BY <1>1, <3>1, <3>3
        <4>2. g[i + 1] = g[i] \o tt[i + 1] /\ h[i + 1] = h[i] \o ss[i + 1]
          BY <1>3, <2>3, <4>1
        <4>3. g[i] = h[i] /\ tt[i + 1] = ss[i + 1]
          BY <1>1, <2>5, <3>1, <4>1
        <4> QED BY <4>2, <4>3
      <3> QED BY <3>2, <3>3
    <2> HIDE DEF S
    <2>6. n \in S
      BY <1>1, <2>4, <2>5, NatSetInduction
    <2>7. g[n] = h[n]
      BY <1>1, <1>5, <2>6 DEF S
    <2>8. g[n + 1] = g[n] \o tt[n + 1]
      <3>1. n + 1 \in 2 .. n + 1 /\ (n + 1) - 1 = n
        BY <1>1, <1>5
      <3> QED BY <1>3, <3>1
    <2> QED BY <1>1, <1>2, <2>2, <2>7, <2>8 DEF tt
  <1> QED BY <1>4, <1>5

-----------------------------------------------------------------------------
(* The calls, and the parts of a format *)

Formatters == Printing \union {"snprintf"}

LEMMA TextIsChars == Text \subseteq Chars
  <1>1. 1 .. 127 \subseteq Nat
    OBVIOUS
  <1> QED BY <1>1, SeqMonotonic DEF Text, Chars

LEMMA JobFacts ==
  ASSUME NEW j \in Jobs
  PROVE  /\ j.fn \in Printing \union Halting \union {"snprintf", "fputs", "fputc", "fgets"}
         /\ j.uart \in {"16550", "pl011", "none"}
         /\ j.size \in Int
         /\ j.fn \in Formatters => j.size >= 1
         /\ j.typed \in Chars
         /\ Len(j.parts) \in Nat /\ DOMAIN j.parts = 1 .. Len(j.parts)
         /\ \A k \in 1 .. Len(j.parts) : IsPart(j.parts[k])
         /\ j.fn \in {"fputs", "fputc"} \union (Halting \ Printing) =>
              \A k \in 1 .. Len(j.parts) : j.parts[k].conv = "plain"
  <1>1. /\ j.fn \in Printing \union Halting \union {"snprintf", "fputs", "fputc", "fgets"}
        /\ j.uart \in {"16550", "pl011", "none"}
        /\ j.size \in Int
        /\ j.parts \in Seq(ToSet(j.parts)) /\ \A p \in ToSet(j.parts) : IsPart(p)
        /\ j.fn \in Printing \union {"snprintf"} => j.size >= 1
        /\ j.fn \in {"fputs", "fputc"} \union (Halting \ Printing) =>
             \A p \in ToSet(j.parts) : p.conv = "plain"
        /\ j.typed \in Text
    BY ConsoleAssumption, Zenon
  <1>2. /\ Len(j.parts) \in Nat /\ DOMAIN j.parts = 1 .. Len(j.parts)
        /\ \A k \in 1 .. Len(j.parts) : j.parts[k] \in ToSet(j.parts)
    BY <1>1
  <1>3. j.typed \in Chars
    BY <1>1, TextIsChars
  <1> QED BY <1>1, <1>2, <1>3, Zenon DEF Formatters

\* int_to_str puts down what the part means, for every number of the type.
LEMMA NumbersConverted ==
  ASSUME NEW v \in Numbers
  PROVE  /\ v < 0 => int_to_str(v, 10) = <<Minus>> \o Numeral(-v, 10)
         /\ v >= 0 => int_to_str(v, 10) = Numeral(v, 10)
         /\ int_to_str(v, 16) = Numeral(v % 2 ^ NumberBits, 16)
         /\ int_to_str(v, 10) \in Chars /\ int_to_str(v, 16) \in Chars
  <1> DEFINE w == 2 ^ NumberBits
             h == 2 ^ (NumberBits - 1)
  <1>1. h \in Nat /\ h >= 1 /\ w = 2 * h /\ w \in Nat
    <2> DEFINE n == NumberBits - 1
    <2>1. n \in Nat /\ n + 1 = NumberBits
      BY ConsoleAssumption
    <2> HIDE DEF n
    <2>2. 2 ^ n \in Nat /\ 2 ^ n >= 1 /\ 2 ^ (n + 1) = 2 * 2 ^ n
      BY <2>1, PowerIsNat, PowerDoubles
    <2>3. 2 ^ NumberBits = 2 * 2 ^ n
      BY <2>1, <2>2
    <2> QED BY <2>2, <2>3 DEF n
  <1>2. v \in Int /\ -h <= v /\ v < h
    <2>1. v \in -h .. h - 1
      BY Zenon DEF Numbers
    <2> HIDE DEF h
    <2> QED BY <1>1, <2>1
  <1> HIDE DEF w, h
  <1>3. \A u \in Nat : u >= 1 => \A b \in {10, 16} : Digits(u, b) = Numeral(u, b) /\ Digits(u, b) \in Chars
    BY DigitsAreNumeral
  <1>4. /\ v = 0 => int_to_str(v, 10) = <<48>> /\ int_to_str(v, 16) = <<48>>
        /\ v < 0 => int_to_str(v, 10) = <<Minus>> \o Digits((-v) % w, 10)
        /\ v > 0 => int_to_str(v, 10) = Digits(v % w, 10)
        /\ v # 0 => int_to_str(v, 16) = Digits(v % w, 16)
    BY <1>2 DEF int_to_str, w
  <1>5. /\ v < 0 => (-v) % w = -v /\ -v \in Nat /\ -v >= 1 /\ v % w = v + w
                    /\ v + w \in Nat /\ v + w >= 1
        /\ v >= 0 => v % w = v /\ v \in Nat
    BY <1>1, <1>2
  <1>6. Numeral(0, 10) = <<48>> /\ Numeral(0, 16) = <<48>>
    <2> SUFFICES ASSUME NEW b \in {10, 16} PROVE Numeral(0, b) = <<48>>
      OBVIOUS
    <2> DEFINE p == CHOOSE f : IsPower(f, 0, b)
               IsWidth(k) == 0 < p[k] /\ (k = 1 \/ 0 >= p[k - 1])
               m == CHOOSE k \in 1 .. 0 + 1 : IsWidth(k)
    <2>1. Numeral(0, b) = [k \in 1 .. m |-> Digit((0 \div p[m - k]) % b)]
      BY DEF Numeral, IsPower
    <2>2. IsPower(p, 0, b)
      <3>1. \E f : IsPower(f, 0, b)
        BY PowerExists
      <3> QED BY <3>1, Zenon
    <2> HIDE DEF p
    <2>3. p[0] = 1 /\ p[1] = b
      BY <2>2 DEF IsPower
    <2>4. 1 \in 1 .. 0 + 1 /\ IsWidth(1) /\ 1 .. 0 + 1 = {1}
      BY <2>3
    <2>5. m = 1
      BY <2>4
    <2> HIDE DEF m
    <2>6. (0 \div p[1 - 1]) % b = 0
      BY <2>3
    <2>7. Digit(0) = 48
      BY DEF Digit
    <2>8. \A k \in 1 .. 1 : Digit((0 \div p[1 - k]) % b) = 48
      BY <2>6, <2>7
    <2> QED BY <2>1, <2>5, <2>8
  <1>7. <<48>> \in Chars /\ \A t \in Chars : <<Minus>> \o t \in Chars
    BY DEF Chars, Minus
  <1>8. v = 0 => int_to_str(v, 10) = Numeral(v, 10) /\ int_to_str(v, 16) = Numeral(v % w, 16)
                 /\ int_to_str(v, 10) \in Chars /\ int_to_str(v, 16) \in Chars
    <2> SUFFICES ASSUME v = 0
                 PROVE  /\ int_to_str(v, 10) = Numeral(v, 10)
                        /\ int_to_str(v, 16) = Numeral(v % w, 16)
                        /\ int_to_str(v, 10) \in Chars /\ int_to_str(v, 16) \in Chars
      OBVIOUS
    <2>1. v % w = v
      BY <1>5
    <2>2. Numeral(v % w, 16) = <<48>> /\ Numeral(v, 10) = <<48>>
      BY <1>6, <2>1, Zenon
    <2> QED BY <1>4, <1>7, <2>2, Zenon
  <1>9. v > 0 => int_to_str(v, 10) = Numeral(v, 10) /\ int_to_str(v, 16) = Numeral(v % w, 16)
                 /\ int_to_str(v, 10) \in Chars /\ int_to_str(v, 16) \in Chars
    <2> SUFFICES ASSUME v > 0
                 PROVE  /\ int_to_str(v, 10) = Numeral(v, 10)
                        /\ int_to_str(v, 16) = Numeral(v % w, 16)
                        /\ int_to_str(v, 10) \in Chars /\ int_to_str(v, 16) \in Chars
      OBVIOUS
    <2>1. v % w = v /\ v \in Nat /\ v >= 1 /\ v # 0
      BY <1>2, <1>5
    <2>2. int_to_str(v, 10) = Digits(v, 10) /\ int_to_str(v, 16) = Digits(v, 16)
      BY <1>4, <2>1, Zenon
    <2>3. /\ Digits(v, 10) = Numeral(v, 10) /\ Digits(v, 10) \in Chars
          /\ Digits(v, 16) = Numeral(v, 16) /\ Digits(v, 16) \in Chars
      BY <1>3, <2>1
    <2> QED BY <2>1, <2>2, <2>3, Zenon
  <1>10. v < 0 => /\ int_to_str(v, 10) = <<Minus>> \o Numeral(-v, 10)
                  /\ int_to_str(v, 16) = Numeral(v % w, 16)
                  /\ int_to_str(v, 10) \in Chars /\ int_to_str(v, 16) \in Chars
    <2> SUFFICES ASSUME v < 0
                 PROVE  /\ int_to_str(v, 10) = <<Minus>> \o Numeral(-v, 10)
                        /\ int_to_str(v, 16) = Numeral(v % w, 16)
                        /\ int_to_str(v, 10) \in Chars /\ int_to_str(v, 16) \in Chars
      OBVIOUS
    <2> DEFINE u == -v
               x == v % w
    <2>1. u % w = u /\ u \in Nat /\ u >= 1 /\ v # 0 /\ x \in Nat /\ x >= 1
      BY <1>2, <1>5
    <2>2. int_to_str(v, 10) = <<Minus>> \o Digits(u % w, 10) /\ int_to_str(v, 16) = Digits(x, 16)
      BY <1>4, <2>1
    <2> HIDE DEF u, x
    <2>3. /\ Digits(u, 10) = Numeral(u, 10) /\ Digits(u, 10) \in Chars
          /\ Digits(x, 16) = Numeral(x, 16) /\ Digits(x, 16) \in Chars
      BY <1>3, <2>1
    <2>4. int_to_str(v, 10) = <<Minus>> \o Numeral(u, 10) /\ int_to_str(v, 16) = Numeral(x, 16)
      BY <2>1, <2>2, <2>3, Zenon
    <2>5. int_to_str(v, 10) \in Chars /\ int_to_str(v, 16) \in Chars
      BY <1>7, <2>3, <2>4, Zenon
    <2> QED BY <2>4, <2>5 DEF u, x
  <1>11. v = 0 \/ v > 0 \/ v < 0
    BY <1>2
  <1>12. (v = 0 => ~(v < 0)) /\ (v > 0 => ~(v < 0)) /\ (v >= 0 => v = 0 \/ v > 0)
    BY <1>2
  <1>13. /\ v < 0 => int_to_str(v, 10) = <<Minus>> \o Numeral(-v, 10)
         /\ v >= 0 => int_to_str(v, 10) = Numeral(v, 10)
         /\ int_to_str(v, 16) = Numeral(v % w, 16)
         /\ int_to_str(v, 10) \in Chars /\ int_to_str(v, 16) \in Chars
    BY <1>8, <1>9, <1>10, <1>11, <1>12, Zenon
  <1> QED BY <1>13, Zenon DEF w

LEMMA MeaningIs ==
  ASSUME NEW p, IsPart(p)
  PROVE  /\ p.conv \in {"plain", "c"} => Meaning(p) = <<p.arg>>
         /\ p.conv = "d" => Meaning(p) = int_to_str(p.arg, 10)
         /\ p.conv = "x" => Meaning(p) = int_to_str(p.arg, 16)
         /\ p.conv = "s" => Meaning(p) = IF p.arg = NoString THEN Null ELSE p.arg
         /\ p.conv = "percent" => Meaning(p) = <<Percent>>
         /\ p.conv = "other" => Meaning(p) = <<>>
         /\ Meaning(p) \in Chars
  <1>1. /\ p.conv \in {"plain", "c"} => Meaning(p) = <<p.arg>>
        /\ p.conv = "d" => Meaning(p) = IF p.arg < 0 THEN <<Minus>> \o Numeral(-p.arg, 10)
                                                     ELSE Numeral(p.arg, 10)
        /\ p.conv = "x" => Meaning(p) = Numeral(p.arg % 2 ^ NumberBits, 16)
        /\ p.conv = "s" => Meaning(p) = IF p.arg = NoString THEN Null ELSE p.arg
        /\ p.conv = "percent" => Meaning(p) = <<Percent>>
        /\ p.conv = "other" => Meaning(p) = <<>>
    BY Zenon DEF Meaning
  <1>2. CASE p.conv \in {"plain", "c"}
    <2>1. p.arg \in Nat
      BY <1>2 DEF IsPart
    <2> QED BY <1>1, <1>2, <2>1 DEF Chars
  <1>3. CASE p.conv \in {"d", "x"}
    <2>1. p.arg \in Numbers
      BY <1>3 DEF IsPart
    <2>2. p.arg \in Int
      <3>1. 2 ^ (NumberBits - 1) \in Nat
        <4>1. NumberBits - 1 \in Nat
          BY ConsoleAssumption
        <4> QED BY <4>1, PowerIsNat
      <3> QED BY <2>1, <3>1 DEF Numbers
    <2> DEFINE v == p.arg
    <2>3. /\ v < 0 => int_to_str(v, 10) = <<Minus>> \o Numeral(-v, 10)
          /\ v >= 0 => int_to_str(v, 10) = Numeral(v, 10)
          /\ int_to_str(v, 16) = Numeral(v % 2 ^ NumberBits, 16)
          /\ int_to_str(v, 10) \in Chars /\ int_to_str(v, 16) \in Chars
      <3> HIDE DEF v
      <3> QED BY <2>1, NumbersConverted DEF v
    <2>4. ~(v < 0) => v >= 0
      BY <2>2
    <2> QED BY <1>1, <1>3, <2>3, <2>4, Zenon
  <1>4. CASE p.conv = "s"
    <2>1. p.arg = NoString \/ p.arg \in Chars
      BY <1>4, TextIsChars DEF IsPart
    <2>2. Null \in Chars
      BY DEF Null, Chars
    <2> QED BY <1>1, <1>4, <2>1, <2>2
  <1>5. CASE p.conv = "percent"
    <2>1. <<Percent>> \in Chars
      BY DEF Chars, Percent
    <2> QED BY <1>1, <1>5, <2>1, Zenon
  <1>6. CASE p.conv = "other"
    <2>1. <<>> \in Chars
      BY DEF Chars
    <2> QED BY <1>1, <1>6, <2>1, Zenon
  <1>7. p.conv \in {"plain", "c", "d", "x", "s", "percent", "other"}
    BY DEF IsPart
  <1> QED BY <1>2, <1>3, <1>4, <1>5, <1>6, <1>7

-----------------------------------------------------------------------------
(* What holds of every state: type correctness, and the argument the next letter of *)
(* the format stands for.                                                           *)

TakingParts(j) == {k \in DOMAIN j.parts : Takes(j.parts[k])}

ConsoleShape ==
  /\ job \in Jobs
  /\ str \in Chars /\ line \in Chars /\ todo \in Chars /\ fifo \in Chars /\ wire \in Chars
  /\ typed \in Chars /\ rx \in Chars /\ taken \in Chars
  /\ at \in 1 .. Len(job.parts) + 1 /\ arg = Within(TakingParts(job), 1, at - 1) + 1
  /\ sent \in 0 .. Len(str)
  /\ Len(fifo) <= FifoSize /\ Len(rx) <= FifoSize
  /\ pc \in {"format", "print", "read", "end", "returned", "halted"}
  /\ pc = "format" => job.fn \in Formatters /\ Len(str) <= job.size - 1 /\ sent = 0
  /\ pc = "print" => job.fn \notin {"fgets", "snprintf"}
  /\ pc \in {"read", "end"} => job.fn = "fgets" /\ job.size > 0
  /\ job.fn = "fgets" => Len(line) <= IF job.size > 0 THEN job.size - 1 ELSE 0

\* The argument taken is that of the part at hand, though others took none.
LEMMA ArgumentIs ==
  ASSUME ConsoleShape, at \in DOMAIN job.parts, Takes(job.parts[at])
  PROVE  Argument(arg) = job.parts[at].arg
  <1> DEFINE T == TakingParts(job)
             n == Len(job.parts)
             Is(k) == k \in T /\ Within(T, 1, k) = arg
  <1>1. n \in Nat /\ DOMAIN job.parts = 1 .. n
    BY JobFacts DEF ConsoleShape
  <1>2. T \subseteq 1 .. n /\ at \in T /\ at \in 1 .. n /\ arg = Within(T, 1, at - 1) + 1
    BY <1>1 DEF TakingParts, ConsoleShape
  <1>3. \A k \in 1 .. n : {i \in 1 .. k : Takes(job.parts[i])} = T \cap (1 .. k)
    BY <1>1 DEF TakingParts
  <1>4. \A k \in 1 .. n : (Takes(job.parts[k]) /\ Cardinality({i \in 1 .. k : Takes(job.parts[i])}) = arg)
                          <=> Is(k)
    <2>1. \A k \in 1 .. n : Takes(job.parts[k]) <=> k \in T
      BY <1>1 DEF TakingParts
    <2> QED BY <1>3, <2>1 DEF Within
  <1> HIDE DEF T, n
  <1>5. \A k \in 1 .. n : k \in T => Within(T, 1, k) = Within(T, 1, k - 1) + 1
    <2> SUFFICES ASSUME NEW k \in 1 .. n, k \in T
                 PROVE  Within(T, 1, k) = Within(T, 1, k - 1) + 1
      OBVIOUS
    <2>1. k \in Int /\ k - 1 \in Int /\ 1 <= (k - 1) + 1 /\ k - 1 <= k /\ (k - 1) + 1 = k
      BY <1>1
    <2>2. Within(T, 1, k) = Within(T, 1, k - 1) + Within(T, k, k)
      BY <2>1, WithinSplits
    <2>3. Within(T, k, k) = 1
      BY <2>1, WithinFacts
    <2> QED BY <2>2, <2>3
  <1>6. \A i, k \in 0 .. n : i <= k => Within(T, 1, i) <= Within(T, 1, k)
    <2> SUFFICES ASSUME NEW i \in 0 .. n, NEW k \in 0 .. n, i <= k
                 PROVE  Within(T, 1, i) <= Within(T, 1, k)
      OBVIOUS
    <2>1. i \in Int /\ k \in Int /\ i + 1 \in Int /\ 1 <= i + 1
      BY <1>1
    <2>2. Within(T, 1, k) = Within(T, 1, i) + Within(T, i + 1, k)
      BY <2>1, WithinSplits
    <2>3. Within(T, i + 1, k) \in Nat /\ Within(T, 1, i) \in Nat
      BY <2>1, WithinNat
    <2> QED BY <2>2, <2>3
  <1>7. \A k \in 0 .. n : Within(T, 1, k) \in Nat
    BY <1>1, WithinNat
  <1>8. Is(at)
    BY <1>2, <1>5
  <1>9. ASSUME NEW k \in 1 .. n, Is(k) PROVE k = at
    <2>1. CASE k < at
      <3>1. k \in 0 .. n /\ at - 1 \in 0 .. n /\ k <= at - 1
        BY <1>1, <1>2, <2>1
      <3>2. Within(T, 1, k) <= Within(T, 1, at - 1)
        BY <1>6, <3>1
      <3>3. Within(T, 1, at - 1) \in Nat
        BY <1>7, <3>1
      <3> QED BY <1>2, <1>9, <3>2, <3>3
    <2>2. CASE at < k
      <3>1. at \in 0 .. n /\ k - 1 \in 0 .. n /\ at <= k - 1
        BY <1>1, <1>2, <2>2
      <3>2. Within(T, 1, at) <= Within(T, 1, k - 1)
        BY <1>6, <3>1
      <3>3. Within(T, 1, k - 1) \in Nat /\ Within(T, 1, k) = Within(T, 1, k - 1) + 1
        BY <1>5, <1>7, <1>9, <3>1
      <3> QED BY <1>8, <1>9, <3>2, <3>3
    <2> QED BY <1>1, <1>2, <2>1, <2>2
  <1> DEFINE c == CHOOSE k \in 1 .. n :
                    Takes(job.parts[k]) /\ Cardinality({i \in 1 .. k : Takes(job.parts[i])}) = arg
  <1>10. c = at
    <2>1. \E k \in 1 .. n :
            Takes(job.parts[k]) /\ Cardinality({i \in 1 .. k : Takes(job.parts[i])}) = arg
      BY <1>2, <1>4, <1>8
    <2>2. c \in 1 .. n /\ Takes(job.parts[c]) /\ Cardinality({i \in 1 .. c : Takes(job.parts[i])}) = arg
      BY <2>1, Zenon
    <2> HIDE DEF c
    <2> QED BY <1>4, <1>9, <2>2
  <1>11. Argument(arg) = job.parts[c].arg
    BY <1>1, Zenon DEF Argument
  <1> HIDE DEF c
  <1> QED BY <1>10, <1>11, Zenon

\* One turn of vsnprintf, whichever letter it is: the meaning of the part at hand is
\* put down as far as there is room, and an argument passed by if the part takes one.
LEMMA FormatStep ==
  ASSUME ConsoleShape,
         Plain \/ ConvertNumber \/ ConvertString \/ ConvertChar \/ ConvertPercent \/ ConvertOther
  PROVE  /\ Formatting /\ at \in 1 .. Len(job.parts)
         /\ Meaning(job.parts[at]) \in Chars
         /\ Emit(Meaning(job.parts[at]), IF Takes(job.parts[at]) THEN 1 ELSE 0)
  <1> DEFINE p == job.parts[at]
  <1>1. Formatting /\ at \in 1 .. Len(job.parts) /\ at \in DOMAIN job.parts
    <2>1. Formatting
      BY DEF Plain, ConvertNumber, ConvertString, ConvertChar, ConvertPercent, ConvertOther, Conversion
    <2>2. Len(job.parts) \in Nat /\ DOMAIN job.parts = 1 .. Len(job.parts)
      BY JobFacts DEF ConsoleShape
    <2> QED BY <2>1, <2>2 DEF Formatting, ConsoleShape
  <1>2. IsPart(p)
    BY <1>1, JobFacts DEF ConsoleShape
  <1>3. Takes(p) => Argument(arg) = p.arg
    BY <1>1, ArgumentIs
  <1> HIDE DEF p
  <1>4. Meaning(p) \in Chars
    BY <1>2, MeaningIs
  <1>5. Emit(Meaning(p), IF Takes(p) THEN 1 ELSE 0)
    <2>1. CASE Plain
      <3>1. p.conv = "plain" /\ Emit(<<p.arg>>, 0)
        BY <2>1 DEF Plain, Conversion, p
      <3>2. ~Takes(p) /\ Meaning(p) = <<p.arg>>
        BY <1>2, <3>1, MeaningIs DEF Takes
      <3> QED BY <3>1, <3>2, Zenon
    <2>2. CASE ConvertNumber
      <3>1. CASE p.conv = "d" /\ Emit(int_to_str(Argument(arg), 10), 1)
        <4>1. Takes(p) /\ Meaning(p) = int_to_str(p.arg, 10)
          BY <1>2, <3>1, MeaningIs DEF Takes
        <4> QED BY <1>3, <3>1, <4>1, Zenon
      <3>2. CASE p.conv = "x" /\ Emit(int_to_str(Argument(arg), 16), 1)
        <4>1. Takes(p) /\ Meaning(p) = int_to_str(p.arg, 16)
          BY <1>2, <3>2, MeaningIs DEF Takes
        <4> QED BY <1>3, <3>2, <4>1, Zenon
      <3> QED BY <2>2, <3>1, <3>2 DEF ConvertNumber, Conversion, p
    <2>3. CASE ConvertString
      <3>1. p.conv = "s" /\ Emit(IF Argument(arg) = NoString THEN Null ELSE Argument(arg), 1)
        BY <2>3 DEF ConvertString, Conversion, p
      <3>2. Takes(p) /\ Meaning(p) = IF p.arg = NoString THEN Null ELSE p.arg
        BY <1>2, <3>1, MeaningIs DEF Takes
      <3> QED BY <1>3, <3>1, <3>2, Zenon
    <2>4. CASE ConvertChar
      <3>1. p.conv = "c" /\ Emit(<<Argument(arg)>>, 1)
        BY <2>4 DEF ConvertChar, Conversion, p
      <3>2. Takes(p) /\ Meaning(p) = <<p.arg>>
        BY <1>2, <3>1, MeaningIs DEF Takes
      <3> QED BY <1>3, <3>1, <3>2, Zenon
    <2>5. CASE ConvertPercent
      <3>1. p.conv = "percent" /\ Emit(<<Percent>>, 0)
        BY <2>5 DEF ConvertPercent, Conversion, p
      <3>2. ~Takes(p) /\ Meaning(p) = <<Percent>>
        BY <1>2, <3>1, MeaningIs DEF Takes
      <3> QED BY <3>1, <3>2, Zenon
    <2>6. CASE ConvertOther
      <3>1. p.conv = "other" /\ Emit(<<>>, 0)
        BY <2>6 DEF ConvertOther, Conversion, p
      <3>2. ~Takes(p) /\ Meaning(p) = <<>>
        BY <1>2, <3>1, MeaningIs DEF Takes
      <3> QED BY <3>1, <3>2, Zenon
    <2> QED BY <2>1, <2>2, <2>3, <2>4, <2>5, <2>6
  <1> QED BY <1>1, <1>4, <1>5 DEF p

\* Text put down in the room that is left.
LEMMA FittingFacts ==
  ASSUME ConsoleShape, Formatting, NEW t \in Chars
  PROVE  /\ Room \in Nat /\ Fitting(t) \in Chars /\ str \o Fitting(t) \in Chars
         /\ Len(Fitting(t)) = IF Len(t) < Room THEN Len(t) ELSE Room
         /\ Len(str \o Fitting(t)) = Len(str) + Len(Fitting(t))
         /\ Len(str \o Fitting(t)) <= job.size - 1
  <1>1. job.size \in Int /\ Len(str) \in Nat /\ Len(t) \in Nat /\ str \in Chars
    BY JobFacts, SMTT(20) DEF ConsoleShape, Chars
  <1>2. Room \in Nat /\ Room > 0 /\ Len(str) + Room = job.size - 1
    BY <1>1 DEF Room, Formatting
  <1> DEFINE m == IF Len(t) < Room THEN Len(t) ELSE Room
  <1>3. m \in Nat /\ m <= Len(t) /\ m <= Room
    BY <1>1, <1>2
  <1>4. Fitting(t) = SubSeq(t, 1, m)
    BY DEF Fitting
  <1> HIDE DEF m
  <1>5. SubSeq(t, 1, m) \in Chars /\ Len(SubSeq(t, 1, m)) = m
    BY <1>1, <1>3 DEF Chars
  <1> DEFINE f == Fitting(t)
  <1>6. f \in Chars /\ Len(f) = m
    BY <1>4, <1>5
  <1> HIDE DEF f
  <1>7. str \o f \in Chars /\ Len(str \o f) = Len(str) + Len(f)
    BY <1>1, <1>6, TextFacts DEF ConsoleShape
  <1>8. Len(str \o f) <= job.size - 1
    BY <1>1, <1>2, <1>3, <1>6, <1>7
  <1> QED BY <1>2, <1>6, <1>7, <1>8 DEF f, m

LEMMA ShapeInit == ConsoleInit => ConsoleShape
  <1> SUFFICES ASSUME ConsoleInit PROVE ConsoleShape
    OBVIOUS
  <1> USE DEF ConsoleInit
  <1>1. job \in Jobs /\ pc = Start(job)
    OBVIOUS
  <1>2. /\ job.size \in Int /\ job.typed \in Chars /\ Len(job.parts) \in Nat
        /\ job.fn \in Formatters => job.size >= 1
    BY <1>1, JobFacts
  <1>3. <<>> \in Chars /\ Len(<<>>) = 0
    BY DEF Chars
  <1>4. (pc = "print" /\ job.fn # "fputc") \/ job.fn = "fputc" => Plainly(job) \in Chars
    <2> SUFFICES ASSUME (pc = "print" /\ job.fn # "fputc") \/ job.fn = "fputc"
                 PROVE  Plainly(job) \in Chars
      OBVIOUS
    <2>1. job.fn \in {"fputs", "fputc"} \union (Halting \ Printing)
      BY <1>1, JobFacts DEF Start, Printing, Halting
    <2>2. /\ DOMAIN job.parts = 1 .. Len(job.parts)
          /\ \A k \in 1 .. Len(job.parts) : IsPart(job.parts[k]) /\ job.parts[k].conv = "plain"
      BY <1>1, <2>1, JobFacts
    <2>3. \A k \in 1 .. Len(job.parts) : job.parts[k].arg \in Nat
      <3>1. \A k \in 1 .. Len(job.parts) : job.parts[k].arg \in 1 .. 127
        BY <2>2, Zenon DEF IsPart
      <3>2. 1 .. 127 \subseteq Nat
        OBVIOUS
      <3> QED BY <3>1, <3>2, Zenon
    <2>4. [k \in 1 .. Len(job.parts) |-> job.parts[k].arg] \in Seq(Nat)
      BY <1>2, <2>3
    <2> QED BY <2>2, <2>4 DEF Plainly, Chars
  <1>5. str \in Chars /\ todo \in Chars /\ Len(str) \in Nat
    <2>1. str \in Chars /\ todo \in Chars
      BY <1>3, <1>4
    <2> QED BY <2>1 DEF Chars
  <1>6. at \in 1 .. Len(job.parts) + 1 /\ arg = Within(TakingParts(job), 1, at - 1) + 1
    <2>1. Within(TakingParts(job), 1, 0) = 0
      BY WithinNothing
    <2>2. at = 1 /\ arg = 1 /\ at - 1 = 0
      OBVIOUS
    <2>3. arg = Within(TakingParts(job), 1, at - 1) + 1
      BY <2>1, <2>2
    <2> QED BY <1>2, <2>2, <2>3
  <1>7. /\ pc \in {"format", "print", "read", "end", "returned", "halted"}
        /\ pc = "format" => job.fn \in Formatters /\ str = <<>>
        /\ pc = "print" => job.fn \notin {"fgets", "snprintf"}
        /\ pc \in {"read", "end"} => job.fn = "fgets" /\ job.size > 0
    BY <1>1, <1>2 DEF Start, Formatters, Printing
  <1>8. FifoSize \in Nat
    BY ConsoleAssumption
  <1>9. /\ Len(fifo) <= FifoSize /\ Len(rx) <= FifoSize
        /\ pc = "format" => Len(str) <= job.size - 1 /\ sent = 0
        /\ sent \in 0 .. Len(str)
        /\ job.fn = "fgets" => Len(line) <= IF job.size > 0 THEN job.size - 1 ELSE 0
    BY <1>2, <1>3, <1>5, <1>7, <1>8
  <1> QED BY <1>1, <1>2, <1>3, <1>5, <1>6, <1>7, <1>9 DEF ConsoleShape

LEMMA ShapeStep == ConsoleShape /\ [ConsoleNext]_consoleVars => ConsoleShape'
  <1> SUFFICES ASSUME ConsoleShape, [ConsoleNext]_consoleVars PROVE ConsoleShape'
    OBVIOUS
  <1>0. /\ FifoSize \in Nat /\ FifoSize >= 1 /\ job \in Jobs
        /\ job.size \in Int /\ Len(job.parts) \in Nat
        /\ job.uart \in {"16550", "pl011", "none"}
    BY ConsoleAssumption, JobFacts DEF ConsoleShape
  <1>1. CASE Plain \/ ConvertNumber \/ ConvertString \/ ConvertChar \/ ConvertPercent \/ ConvertOther
    <2> DEFINE t == Meaning(job.parts[at])
               T == TakingParts(job)
    <2>1. /\ Formatting /\ at \in 1 .. Len(job.parts) /\ t \in Chars
          /\ Emit(t, IF Takes(job.parts[at]) THEN 1 ELSE 0)
      BY <1>1, FormatStep
    <2>2. Takes(job.parts[at]) <=> at \in T
      BY <2>1, <1>0, JobFacts DEF TakingParts
    <2> HIDE DEF t
    <2>3. /\ str' = str \o Fitting(t) /\ at' = at + 1
          /\ arg' = arg + (IF at \in T THEN 1 ELSE 0)
          /\ UNCHANGED <<job, pc, sent, line, todo, fifo, wire, typed, rx, taken>>
      BY <2>1, <2>2 DEF Emit
    <2>4. /\ str' \in Chars /\ Len(str') <= job.size - 1 /\ Len(str') \in Nat /\ Len(str') >= Len(str)
      <3>1. /\ Fitting(t) \in Chars /\ str \o Fitting(t) \in Chars
            /\ Len(str \o Fitting(t)) = Len(str) + Len(Fitting(t))
            /\ Len(str \o Fitting(t)) <= job.size - 1
        BY <2>1, FittingFacts
      <3>2. Len(str) \in Nat /\ Len(Fitting(t)) \in Nat
        BY <3>1, SMTT(20) DEF ConsoleShape, Chars
      <3> QED BY <2>3, <3>1, <3>2
    <2>5. arg' = Within(T, 1, at) + 1
      <3> HIDE DEF T
      <3>1. at \in Int /\ at - 1 \in Int /\ 1 <= (at - 1) + 1 /\ at - 1 <= at /\ (at - 1) + 1 = at
        BY <2>1
      <3>2. Within(T, 1, at) = Within(T, 1, at - 1) + Within(T, at, at)
        BY <3>1, WithinSplits
      <3>3. Within(T, at, at) = IF at \in T THEN 1 ELSE 0
        BY <3>1, WithinFacts
      <3>4. Within(T, 1, at - 1) \in Nat
        BY <3>1, WithinNat
      <3>5. arg = Within(T, 1, at - 1) + 1
        BY DEF ConsoleShape, T
      <3> QED BY <2>3, <3>2, <3>3, <3>4, <3>5
    <2>6. at' \in 1 .. Len(job'.parts) + 1 /\ at' - 1 = at
      BY <1>0, <2>1, <2>3
    <2>7. arg' = Within(TakingParts(job'), 1, at' - 1) + 1
      BY <2>3, <2>5, <2>6
    <2>8. pc = "format"
      BY <2>1 DEF Formatting
    <2> QED BY <2>3, <2>4, <2>6, <2>7, <2>8 DEF ConsoleShape
  <1>2. CASE EndFormat
    <2>1. /\ pc = "format" /\ pc' \in {"returned", "print"}
          /\ pc' = "print" => job.fn # "snprintf"
          /\ UNCHANGED <<job, at, arg, str, sent, line, todo, fifo, wire, typed, rx, taken>>
      BY <1>2 DEF EndFormat
    <2>2. job.fn \in Formatters => job.fn # "fgets"
      BY DEF Formatters, Printing
    <2> QED BY <2>1, <2>2 DEF ConsoleShape
  <1>3. CASE Put
    <2>1. todo' \in Chars
      BY <1>3 DEF Put, ConsoleShape, Chars
    <2>2. fifo' \in Chars /\ Len(fifo') <= FifoSize
      <3>1. CASE job.uart = "none"
        BY <1>3, <3>1 DEF Put, ConsoleShape
      <3>2. CASE job.uart # "none"
        <4>1. fifo' = Append(fifo, Head(todo)) /\ Head(todo) \in Nat
          BY <1>3, <3>2, TextFacts DEF Put, ConsoleShape
        <4>2. fifo = <<>> \/ Len(fifo) < FifoSize
          <5>1. Ready
            BY <1>3 DEF Put
          <5>2. job.uart = "16550" \/ job.uart = "pl011"
            BY <1>0, <3>2
          <5> QED BY <5>1, <5>2, Zenon DEF Ready
        <4>3. fifo \in Chars
          BY DEF ConsoleShape
        <4>4. fifo' \in Chars /\ Len(fifo') = Len(fifo) + 1
          BY <4>1, <4>3 DEF Chars
        <4>5. Len(fifo) \in Nat /\ (fifo = <<>> => Len(fifo) = 0)
          BY <4>3 DEF Chars
        <4> QED BY <1>0, <4>2, <4>4, <4>5
      <3> QED BY <3>1, <3>2
    <2>3. UNCHANGED <<job, pc, at, arg, str, sent, line, wire, typed, rx, taken>>
      BY <1>3 DEF Put
    <2> QED BY <2>1, <2>2, <2>3 DEF ConsoleShape
  <1>4. CASE PrintChar
    <2>1. todo' \in Chars
      <3>1. str[sent + 1] \in Nat
        <4>1. sent \in Nat /\ sent < Len(str) /\ str \in Seq(Nat)
          BY <1>4 DEF PrintChar, ConsoleShape, Chars
        <4> QED BY <4>1
      <3> QED BY <1>4, <3>1 DEF PrintChar, Cooked, CR, LF, Chars
    <2>2. sent' \in 0 .. Len(str)
      BY <1>4 DEF PrintChar, ConsoleShape, Chars
    <2>3. pc = "print" /\ UNCHANGED <<job, pc, at, arg, str, line, fifo, wire, typed, rx, taken>>
      BY <1>4 DEF PrintChar
    <2> QED BY <2>1, <2>2, <2>3 DEF ConsoleShape
  <1>5. CASE EndPrint
    BY <1>5 DEF EndPrint, ConsoleShape
  <1>6. ASSUME NEW c \in Nat, Take(c), rx' \in Chars, Len(rx') <= FifoSize PROVE ConsoleShape'
    <2>1. /\ pc = "read" /\ Len(line) < job.size - 1
          /\ pc' \in {"read", "end"}
          /\ todo' = Echo(c) /\ line' = Edited(c) /\ taken' = Append(taken, c)
          /\ UNCHANGED <<job, at, arg, str, sent, fifo, wire, typed>>
      BY <1>6 DEF Take
    <2>2. todo' \in Chars
      BY <1>6, <2>1 DEF Echo, Chars, LF, Blank, BS
    <2>3. taken' \in Chars
      BY <1>6, <2>1 DEF ConsoleShape, Chars
    <2>4. line' \in Chars /\ Len(line') <= Len(line) + 1 /\ Len(line) \in Nat /\ Len(line') \in Nat
      <3>1. line \in Chars /\ Len(line) \in Nat
        BY DEF ConsoleShape, Chars
      <3>2. LF \in Nat
        BY DEF LF
      <3>3. \A v \in Nat : Append(line, v) \in Chars /\ Len(Append(line, v)) = Len(line) + 1
        BY <3>1, TextFacts
      <3>4. line # <<>> => Front(line) \in Chars /\ Len(Front(line)) = Len(line) - 1
        BY <3>1, TextFacts
      <3>5. line' \in {line, Append(line, LF), Append(line, c)} \/ (line # <<>> /\ line' = Front(line))
        BY <2>1 DEF Edited
      <3>6. line' \in Chars /\ Len(line') <= Len(line) + 1
        <4>1. CASE line' = line
          BY <3>1, <4>1
        <4>2. CASE line' = Append(line, LF)
          BY <3>2, <3>3, <3>1, <4>2
        <4>3. CASE line' = Append(line, c)
          BY <1>6, <3>3, <3>1, <4>3
        <4>4. CASE line # <<>> /\ line' = Front(line)
          BY <3>1, <3>4, <4>4
        <4> QED BY <3>5, <4>1, <4>2, <4>3, <4>4
      <3>7. Len(line') \in Nat
        BY <3>6, TextFacts
      <3> QED BY <3>1, <3>6, <3>7
    <2>5. job.fn = "fgets" /\ job.size > 0 /\ Len(line') <= job.size - 1
      BY <1>0, <2>1, <2>4, SMTT(20) DEF ConsoleShape
    <2>6. /\ sent \in 0 .. Len(str) /\ at \in 1 .. Len(job.parts) + 1
          /\ arg = Within(TakingParts(job), 1, at - 1) + 1
          /\ Len(fifo) <= FifoSize
          /\ str \in Chars /\ fifo \in Chars /\ wire \in Chars /\ typed \in Chars
      BY DEF ConsoleShape
    <2> QED BY <1>0, <1>6, <2>1, <2>2, <2>3, <2>4, <2>5, <2>6 DEF ConsoleShape
  <1>7. CASE GetChar
    <2>1. rx # <<>> /\ rx' = Tail(rx) /\ Take(Head(rx)) /\ rx \in Chars /\ Len(rx) <= FifoSize
      BY <1>7 DEF GetChar, ConsoleShape
    <2>2. Head(rx) \in Nat /\ Tail(rx) \in Chars /\ Len(Tail(rx)) <= FifoSize
      BY <1>0, <2>1 DEF Chars
    <2> QED BY <1>6, <2>1, <2>2
  <1>8. CASE GetNothing
    <2>1. Take(0) /\ rx' = rx /\ rx \in Chars /\ Len(rx) <= FifoSize
      BY <1>8 DEF GetNothing, ConsoleShape
    <2> QED BY <1>6, <2>1
  <1>9. CASE EndLine
    BY <1>9 DEF EndLine, ConsoleShape
  <1>10. CASE Transmit
    <2>1. wire' \in Chars /\ fifo' \in Chars /\ Len(fifo') <= FifoSize
      <3>1. /\ fifo # <<>> /\ wire' = Append(wire, Head(fifo)) /\ fifo' = Tail(fifo)
            /\ fifo \in Chars /\ wire \in Chars /\ Len(fifo) <= FifoSize
        BY <1>10 DEF Transmit, ConsoleShape
      <3>2. /\ Head(fifo) \in Nat /\ Tail(fifo) \in Chars /\ Len(fifo) \in Nat
            /\ Len(Tail(fifo)) = Len(fifo) - 1
        BY <3>1, TextFacts
      <3>3. Append(wire, Head(fifo)) \in Chars
        BY <3>1, <3>2, TextFacts
      <3> QED BY <1>0, <3>1, <3>2, <3>3
    <2>2. UNCHANGED <<job, pc, at, arg, str, sent, line, todo, typed, rx, taken>>
      BY <1>10 DEF Transmit, programVars
    <2> QED BY <2>1, <2>2 DEF ConsoleShape
  <1>11. CASE Receive
    <2>1. rx' \in Chars /\ typed' \in Chars /\ Len(rx') <= FifoSize
      <3>1. /\ typed # <<>> /\ rx' = Append(rx, Head(typed)) /\ typed' = Tail(typed)
            /\ typed \in Chars /\ rx \in Chars /\ Len(rx) < FifoSize
        BY <1>11 DEF Receive, ConsoleShape
      <3>2. Head(typed) \in Nat /\ Tail(typed) \in Chars /\ Len(rx) \in Nat
        BY <3>1, TextFacts
      <3>3. Append(rx, Head(typed)) \in Chars /\ Len(Append(rx, Head(typed))) = Len(rx) + 1
        BY <3>1, <3>2, TextFacts
      <3> QED BY <1>0, <3>1, <3>2, <3>3
    <2>2. UNCHANGED <<job, pc, at, arg, str, sent, line, todo, fifo, wire, taken>>
      BY <1>11 DEF Receive, programVars
    <2> QED BY <2>1, <2>2 DEF ConsoleShape
  <1>12. CASE Overrun
    <2>1. typed' \in Chars
      BY <1>12 DEF Overrun, ConsoleShape, Chars
    <2>2. UNCHANGED <<job, pc, at, arg, str, sent, line, todo, fifo, wire, rx, taken>>
      BY <1>12 DEF Overrun, programVars
    <2> QED BY <2>1, <2>2 DEF ConsoleShape
  <1>13. CASE UNCHANGED consoleVars
    BY <1>13 DEF consoleVars, ConsoleShape
  <1> QED
    BY <1>1, <1>2, <1>3, <1>4, <1>5, <1>7, <1>8, <1>9, <1>10, <1>11, <1>12, <1>13
    DEF ConsoleNext, Program

LEMMA ShapeHolds == ConsoleSpec => []ConsoleShape
  BY ShapeInit, ShapeStep, PTL DEF ConsoleSpec

\* No FIFO is overfilled and every text fits its buffer, whatever the call, its size
\* and what is typed: vsnprintf's size - 1, fgets' size - 1 and the UART's flags.
THEOREM ConsoleTypeCorrect == ConsoleSpec => []ConsoleTypeOK
  <1>1. ConsoleShape => ConsoleTypeOK
    BY DEF ConsoleShape, ConsoleTypeOK
  <1> QED BY <1>1, ShapeHolds, PTL

-----------------------------------------------------------------------------
(* The characters of a line that are kept *)

Erasings(text) == {k \in DOMAIN text : Erases(text[k])}

LEMMA KeptIs ==
  ASSUME NEW text \in Chars
  PROVE  \A k : k \in Kept(text) <=>
           /\ k \in 1 .. Len(text) /\ k \notin Erasings(text)
           /\ \A n \in k + 1 .. Len(text) : 2 * Within(Erasings(text), k + 1, n) <= n - k
  <1> DEFINE Erasing(m, n) == {k \in m .. n : Erases(text[k])}
             E == Erasings(text)
  <1>1. Len(text) \in Nat /\ DOMAIN text = 1 .. Len(text)
    BY DEF Chars
  <1>2. \A k : k \in Kept(text) <=>
          /\ k \in 1 .. Len(text) /\ ~Erases(text[k])
          /\ \A n \in k + 1 .. Len(text) : 2 * Cardinality(Erasing(k + 1, n)) <= n - k
    BY <1>1, Zenon DEF Kept
  <1>3. \A k \in 1 .. Len(text) : k \in E <=> Erases(text[k])
    BY <1>1, Zenon DEF Erasings
  <1>4. ASSUME NEW k \in 1 .. Len(text), NEW n \in k + 1 .. Len(text)
        PROVE  Cardinality(Erasing(k + 1, n)) = Within(E, k + 1, n)
    <2>1. \A i \in k + 1 .. n : i \in 1 .. Len(text)
      BY <1>1
    <2> HIDE DEF E
    <2>2. Erasing(k + 1, n) = E \cap (k + 1 .. n)
      BY <1>3, <2>1
    <2> QED BY <2>2, Zenon DEF Within
  <1> HIDE DEF Erasing, E
  <1>5. \A k : k \in Kept(text) <=>
          /\ k \in 1 .. Len(text) /\ k \notin E
          /\ \A n \in k + 1 .. Len(text) : 2 * Within(E, k + 1, n) <= n - k
    BY <1>2, <1>3, <1>4, Zenon
  <1> QED BY <1>5, Zenon DEF E

LEMMA ErasingsGrow ==
  ASSUME NEW text \in Chars, NEW c \in Nat
  PROVE  /\ Append(text, c) \in Chars /\ Len(Append(text, c)) = Len(text) + 1 /\ Len(text) \in Nat
         /\ \A k \in 1 .. Len(text) : Append(text, c)[k] = text[k]
         /\ Append(text, c)[Len(text) + 1] = c
         /\ \A k \in 1 .. Len(text) : k \in Erasings(Append(text, c)) <=> k \in Erasings(text)
         /\ Len(text) + 1 \in Erasings(Append(text, c)) <=> Erases(c)
         /\ \A m \in 1 .. Len(text) + 1 : \A n \in 0 .. Len(text) :
              Within(Erasings(Append(text, c)), m, n) = Within(Erasings(text), m, n)
         /\ \A m \in 1 .. Len(text) + 1 :
              Within(Erasings(Append(text, c)), m, Len(text) + 1)
                = Within(Erasings(text), m, Len(text)) + IF Erases(c) THEN 1 ELSE 0
  <1> DEFINE t == Append(text, c)
             L == Len(text)
             E == Erasings(text)
             F == Erasings(t)
  <1>1. /\ t \in Chars /\ Len(t) = L + 1 /\ L \in Nat /\ t[L + 1] = c
        /\ DOMAIN text = 1 .. L /\ DOMAIN t = 1 .. L + 1
        /\ \A k \in 1 .. L : t[k] = text[k]
    BY DEF Chars
  <1> HIDE DEF t, L
  <1>2. (\A k \in 1 .. L : k \in F <=> k \in E) /\ (L + 1 \in F <=> Erases(c)) /\ F \subseteq 1 .. L + 1
    BY <1>1 DEF Erasings
  <1> HIDE DEF E, F
  <1>3. \A m \in 1 .. L + 1 : \A n \in 0 .. L : Within(F, m, n) = Within(E, m, n)
    <2> SUFFICES ASSUME NEW m \in 1 .. L + 1, NEW n \in 0 .. L
                 PROVE  F \cap (m .. n) = E \cap (m .. n)
      BY Zenon DEF Within
    <2>1. \A k \in m .. n : k \in 1 .. L
      BY <1>1
    <2> QED BY <1>2, <2>1
  <1>4. \A m \in 1 .. L + 1 : Within(F, m, L + 1) = Within(E, m, L) + IF Erases(c) THEN 1 ELSE 0
    <2> SUFFICES ASSUME NEW m \in 1 .. L + 1
                 PROVE  Within(F, m, L + 1) = Within(E, m, L) + IF Erases(c) THEN 1 ELSE 0
      OBVIOUS
    <2>1. m \in Int /\ L \in Int /\ L + 1 \in Int /\ m <= L + 1 /\ L <= L + 1
      BY <1>1
    <2>2. Within(F, m, L + 1) = Within(F, m, L) + Within(F, L + 1, L + 1)
      BY <2>1, WithinSplits
    <2>3. Within(F, L + 1, L + 1) = IF L + 1 \in F THEN 1 ELSE 0
      <3> DEFINE w == L + 1
      <3>1. w \in Int
        BY <2>1
      <3> HIDE DEF w
      <3>2. Within(F, w, w) = IF w \in F THEN 1 ELSE 0
        BY <3>1, WithinFacts
      <3> QED BY <3>2 DEF w
    <2>4. Within(F, m, L) = Within(E, m, L)
      <3>1. L \in 0 .. L
        BY <1>1
      <3> QED BY <1>3, <3>1
    <2> QED BY <1>2, <2>2, <2>3, <2>4
  <1> QED BY <1>1, <1>2, <1>3, <1>4 DEF t, L, E, F

\* A character that erases nothing is kept with those before it.
LEMMA KeptGrows ==
  ASSUME NEW text \in Chars, NEW c \in Nat, ~Erases(c)
  PROVE  Kept(Append(text, c)) = Kept(text) \union {Len(text) + 1}
  <1> DEFINE t == Append(text, c)
             L == Len(text)
             E == Erasings(text)
             F == Erasings(t)
  <1>1. /\ t \in Chars /\ Len(t) = L + 1 /\ L \in Nat
        /\ \A k \in 1 .. L : k \in F <=> k \in E
        /\ L + 1 \notin F
        /\ \A m \in 1 .. L + 1 : \A n \in 0 .. L : Within(F, m, n) = Within(E, m, n)
        /\ \A m \in 1 .. L + 1 : Within(F, m, L + 1) = Within(E, m, L)
    <2>1. \A m \in 1 .. L + 1 : Within(E, m, L) \in Nat
      <3>1. L \in Int /\ \A m \in 1 .. L + 1 : m \in Int
        BY TextFacts
      <3> HIDE DEF E, L
      <3> QED BY <3>1, WithinNat
    <2> HIDE DEF E, F, L, t
    <2>2. \A m \in 1 .. L + 1 : Within(E, m, L) + 0 = Within(E, m, L)
      BY <2>1
    <2> QED BY <2>2, ErasingsGrow DEF E, F, L, t
  <1>2. \A k : k \in Kept(text) <=>
          /\ k \in 1 .. L /\ k \notin E
          /\ \A n \in k + 1 .. L : 2 * Within(E, k + 1, n) <= n - k
    BY KeptIs
  <1>3. \A k : k \in Kept(t) <=>
          /\ k \in 1 .. L + 1 /\ k \notin F
          /\ \A n \in k + 1 .. L + 1 : 2 * Within(F, k + 1, n) <= n - k
    <2> HIDE DEF t, F
    <2>1. \A k : k \in Kept(t) <=>
          /\ k \in 1 .. Len(t) /\ k \notin F
          /\ \A n \in k + 1 .. Len(t) : 2 * Within(F, k + 1, n) <= n - k
      BY <1>1, KeptIs DEF F
    <2> QED BY <1>1, <2>1, Zenon
  <1> HIDE DEF t, L, E, F
  <1>4. ASSUME NEW k \in Kept(text) PROVE k \in Kept(t)
    <2>1. k \in 1 .. L /\ k \in 1 .. L + 1 /\ k \notin F /\ k \notin E
      BY <1>1, <1>2
    <2>2. ASSUME NEW n \in k + 1 .. L + 1 PROVE 2 * Within(F, k + 1, n) <= n - k
      <3>1. k + 1 \in 1 .. L + 1
        BY <1>1, <2>1
      <3>2. CASE n <= L
        <4>1. n \in k + 1 .. L /\ n \in 0 .. L
          BY <1>1, <2>1, <3>2
        <4> QED BY <1>1, <1>2, <3>1, <4>1
      <3>3. CASE n = L + 1
        <4>1. Within(F, k + 1, n) = Within(E, k + 1, L)
          BY <1>1, <3>1, <3>3
        <4>2. CASE k = L
          <5>1. k + 1 \in Int /\ L \in Int /\ L < k + 1
            BY <1>1, <2>1, <4>2
          <5>2. Within(E, k + 1, L) = 0
            BY <5>1, WithinNothing
          <5> QED BY <3>3, <4>1, <4>2, <5>2, <1>1
        <4>3. CASE k # L
          <5>1. L \in k + 1 .. L
            BY <1>1, <2>1, <4>3
          <5>2. 2 * Within(E, k + 1, L) <= L - k
            BY <1>2, <5>1
          <5>3. Within(E, k + 1, L) \in Nat
            <6>1. k + 1 \in Int /\ L \in Int
              BY <1>1, <2>1
            <6> QED BY <6>1, WithinNat
          <5> QED BY <1>1, <2>1, <3>3, <4>1, <5>2, <5>3
        <4> QED BY <4>2, <4>3
      <3> QED BY <1>1, <2>1, <3>2, <3>3
    <2> QED BY <1>3, <2>1, <2>2
  <1>5. L + 1 \in Kept(t)
    <2>1. L + 1 \in 1 .. L + 1 /\ L + 1 \notin F /\ \A n \in (L + 1) + 1 .. L + 1 : FALSE
      BY <1>1
    <2> QED BY <1>3, <2>1
  <1>6. ASSUME NEW k \in Kept(t), k # L + 1 PROVE k \in Kept(text)
    <2>1. k \in 1 .. L /\ k \notin E
      BY <1>1, <1>3, <1>6
    <2>2. ASSUME NEW n \in k + 1 .. L PROVE 2 * Within(E, k + 1, n) <= n - k
      <3>1. n \in k + 1 .. L + 1 /\ n \in 0 .. L /\ k + 1 \in 1 .. L + 1
        BY <1>1, <2>1
      <3> QED BY <1>1, <1>3, <3>1
    <2> QED BY <1>2, <2>1, <2>2
  <1>7. Kept(t) = Kept(text) \union {L + 1}
    BY <1>4, <1>5, <1>6
  <1> QED BY <1>7 DEF t, L

\* A character that erases takes away the last one kept, where what came behind that
\* has rubbed itself out; and it takes away nothing else.
LEMMA KeptShrinks ==
  ASSUME NEW text \in Chars, NEW c \in Nat, Erases(c), NEW x \in Kept(text),
         \A k \in Kept(text) : k <= x,
         2 * Within(Erasings(text), x + 1, Len(text)) = Len(text) - x
  PROVE  Kept(Append(text, c)) = Kept(text) \ {x}
  <1> DEFINE t == Append(text, c)
             L == Len(text)
             E == Erasings(text)
             F == Erasings(t)
  <1>1. /\ t \in Chars /\ Len(t) = L + 1 /\ L \in Nat
        /\ \A k \in 1 .. L : k \in F <=> k \in E
        /\ L + 1 \in F
        /\ \A m \in 1 .. L + 1 : \A n \in 0 .. L : Within(F, m, n) = Within(E, m, n)
        /\ \A m \in 1 .. L + 1 : Within(F, m, L + 1) = Within(E, m, L) + 1
    <2> HIDE DEF E, F, L, t
    <2> QED BY ErasingsGrow DEF E, F, L, t
  <1>2. \A k : k \in Kept(text) <=>
          /\ k \in 1 .. L /\ k \notin E
          /\ \A n \in k + 1 .. L : 2 * Within(E, k + 1, n) <= n - k
    BY KeptIs
  <1>3. \A k : k \in Kept(t) <=>
          /\ k \in 1 .. L + 1 /\ k \notin F
          /\ \A n \in k + 1 .. L + 1 : 2 * Within(F, k + 1, n) <= n - k
    <2> HIDE DEF t, F
    <2>1. \A k : k \in Kept(t) <=>
          /\ k \in 1 .. Len(t) /\ k \notin F
          /\ \A n \in k + 1 .. Len(t) : 2 * Within(F, k + 1, n) <= n - k
      BY <1>1, KeptIs DEF F
    <2> QED BY <1>1, <2>1, Zenon
  <1>0. 2 * Within(E, x + 1, L) = L - x
    OBVIOUS
  <1> HIDE DEF t, L, E, F
  <1>4. ASSUME NEW k \in Kept(t) PROVE k \in Kept(text) /\ k # x
    <2>1. k \in 1 .. L /\ k \notin E
      BY <1>1, <1>3
    <2>2. ASSUME NEW n \in k + 1 .. L PROVE 2 * Within(E, k + 1, n) <= n - k
      <3>1. n \in k + 1 .. L + 1 /\ n \in 0 .. L /\ k + 1 \in 1 .. L + 1
        BY <1>1, <2>1
      <3> QED BY <1>1, <1>3, <3>1
    <2>3. k # x
      <3> SUFFICES ASSUME k = x PROVE FALSE
        OBVIOUS
      <3>1. x \in 1 .. L /\ x + 1 \in 1 .. L + 1 /\ L + 1 \in x + 1 .. L + 1
        BY <1>1, <1>2
      <3>2. 2 * Within(F, x + 1, L + 1) <= (L + 1) - x
        BY <1>3, <3>1
      <3>3. Within(F, x + 1, L + 1) = Within(E, x + 1, L) + 1
        BY <1>1, <3>1
      <3>4. Within(E, x + 1, L) \in Nat
        <4>1. x + 1 \in Int /\ L \in Int
          BY <1>1, <3>1
        <4> QED BY <4>1, WithinNat
      <3> QED BY <1>0, <1>1, <3>1, <3>2, <3>3, <3>4
    <2> QED BY <1>2, <2>1, <2>2, <2>3
  <1>5. ASSUME NEW k \in Kept(text), k # x PROVE k \in Kept(t)
    <2>1. k \in 1 .. L /\ k \notin F /\ k \notin E /\ x \in 1 .. L /\ x \notin E /\ k < x
      BY <1>1, <1>2, <1>5
    <2>2. ASSUME NEW n \in k + 1 .. L + 1 PROVE 2 * Within(F, k + 1, n) <= n - k
      <3>1. k + 1 \in 1 .. L + 1
        BY <1>1, <2>1
      <3>2. CASE n <= L
        <4>1. n \in k + 1 .. L /\ n \in 0 .. L
          BY <1>1, <2>1, <3>2
        <4> QED BY <1>1, <1>2, <3>1, <4>1
      <3>3. CASE n = L + 1
        <4>1. Within(F, k + 1, n) = Within(E, k + 1, L) + 1
          BY <1>1, <3>1, <3>3
        <4>2. /\ k + 1 \in Int /\ x \in Int /\ L \in Int /\ x + 1 \in Int /\ x - 1 \in Int
              /\ k + 1 <= x + 1 /\ x <= L /\ k + 1 <= (x - 1) + 1 /\ x - 1 <= x /\ (x - 1) + 1 = x
          BY <1>1, <2>1
        <4>3. Within(E, k + 1, L) = Within(E, k + 1, x) + Within(E, x + 1, L)
          BY <4>2, WithinSplits
        <4>4. Within(E, k + 1, x) = Within(E, k + 1, x - 1) + Within(E, x, x)
          BY <4>2, WithinSplits
        <4>5. Within(E, x, x) = 0
          BY <2>1, <4>2, WithinFacts
        <4>6. 2 * Within(E, k + 1, x - 1) <= (x - 1) - k
          <5>1. CASE x - 1 = k
            <6>1. Within(E, k + 1, x - 1) = 0
              <7>1. x - 1 < k + 1
                BY <4>2, <5>1
              <7> QED BY <4>2, <7>1, WithinNothing
            <6> QED BY <4>2, <5>1, <6>1
          <5>2. CASE x - 1 # k
            <6>1. x - 1 \in k + 1 .. L
              BY <1>1, <2>1, <5>2
            <6> QED BY <1>2, <6>1
          <5> QED BY <5>1, <5>2
        <4>7. /\ Within(E, k + 1, x - 1) \in Nat /\ Within(E, x + 1, L) \in Nat
              /\ Within(E, k + 1, L) \in Nat /\ Within(E, k + 1, x) \in Nat
          BY <4>2, WithinNat
        <4> DEFINE a == Within(E, k + 1, x - 1)
                   b == Within(E, x + 1, L)
                   w == Within(F, k + 1, n)
        <4>8. /\ a \in Nat /\ b \in Nat /\ w = (a + 0) + b + 1
              /\ 2 * a <= (x - 1) - k /\ 2 * b = L - x
          BY <1>0, <4>1, <4>3, <4>4, <4>5, <4>6, <4>7, Zenon
        <4> HIDE DEF a, b, w
        <4>9. k \in Int /\ x \in Int /\ L \in Int
          BY <1>1, <2>1
        <4>10. 2 * w <= n - k
          BY <3>3, <4>8, <4>9
        <4> QED BY <4>10 DEF w
      <3> QED BY <1>1, <2>1, <3>2, <3>3
    <2> QED BY <1>1, <1>3, <2>1, <2>2, SMTT(20)
  <1>6. Kept(t) = Kept(text) \ {x}
    BY <1>4, <1>5
  <1> QED BY <1>6 DEF t

\* Where nothing is kept there is nothing to take away.
LEMMA KeptStaysEmpty ==
  ASSUME NEW text \in Chars, NEW c \in Nat, Erases(c), Kept(text) = {}
  PROVE  Kept(Append(text, c)) = {}
  <1> DEFINE t == Append(text, c)
             L == Len(text)
             E == Erasings(text)
             F == Erasings(t)
  <1>1. /\ t \in Chars /\ Len(t) = L + 1 /\ L \in Nat
        /\ \A k \in 1 .. L : k \in F <=> k \in E
        /\ L + 1 \in F
        /\ \A m \in 1 .. L + 1 : \A n \in 0 .. L : Within(F, m, n) = Within(E, m, n)
    <2> HIDE DEF E, F, L, t
    <2> QED BY ErasingsGrow DEF E, F, L, t
  <1>2. \A k : k \in Kept(text) <=>
          /\ k \in 1 .. L /\ k \notin E
          /\ \A n \in k + 1 .. L : 2 * Within(E, k + 1, n) <= n - k
    BY KeptIs
  <1>3. \A k : k \in Kept(t) <=>
          /\ k \in 1 .. L + 1 /\ k \notin F
          /\ \A n \in k + 1 .. L + 1 : 2 * Within(F, k + 1, n) <= n - k
    <2> HIDE DEF t, F
    <2>1. \A k : k \in Kept(t) <=>
          /\ k \in 1 .. Len(t) /\ k \notin F
          /\ \A n \in k + 1 .. Len(t) : 2 * Within(F, k + 1, n) <= n - k
      BY <1>1, KeptIs DEF F
    <2> QED BY <1>1, <2>1, Zenon
  <1> HIDE DEF t, L, E, F
  <1>4. ASSUME NEW k \in Kept(t) PROVE k \in Kept(text)
    <2>1. k \in 1 .. L /\ k \notin E
      BY <1>1, <1>3
    <2>2. ASSUME NEW n \in k + 1 .. L PROVE 2 * Within(E, k + 1, n) <= n - k
      <3>1. n \in k + 1 .. L + 1 /\ n \in 0 .. L /\ k + 1 \in 1 .. L + 1
        BY <1>1, <2>1
      <3> QED BY <1>1, <1>3, <3>1
    <2> QED BY <1>2, <2>1, <2>2
  <1>5. Kept(t) = {}
    BY <1>4
  <1> QED BY <1>5 DEF t

\* That p lists the places kept, in order; what was typed between two of them, and
\* behind the last, has rubbed itself out.
Places(p, text) ==
  /\ p \in Chars
  /\ \A k : k \in Kept(text) <=> \E i \in 1 .. Len(p) : p[i] = k
  /\ \A i, j \in 1 .. Len(p) : i < j => p[i] < p[j]
  /\ \A i \in 1 .. Len(p) - 1 :
       2 * Within(Erasings(text), p[i] + 1, p[i + 1] - 1) = (p[i + 1] - 1) - p[i]
  /\ Len(p) > 0 =>
       2 * Within(Erasings(text), p[Len(p)] + 1, Len(text)) = Len(text) - p[Len(p)]
  /\ \A i \in 1 .. Len(p) : Within(Kept(text), 1, p[i]) = i
  /\ Within(Kept(text), 1, Len(text)) = Len(p)

LEMMA PlacesType ==
  ASSUME NEW text \in Chars, NEW p, Places(p, text)
  PROVE  /\ p \in Chars /\ Len(p) \in Nat /\ Len(text) \in Nat
         /\ \A i \in 1 .. Len(p) : p[i] \in 1 .. Len(text) /\ p[i] \in Kept(text)
         /\ \A k \in Kept(text) : k \in 1 .. Len(text)
         /\ Len(p) = 0 <=> Kept(text) = {}
  <1>1. p \in Chars /\ Len(p) \in Nat /\ Len(text) \in Nat
    BY TextFacts DEF Places
  <1>2. \A k \in Kept(text) : k \in 1 .. Len(text)
    BY KeptIs
  <1>3. \A i \in 1 .. Len(p) : p[i] \in Kept(text)
    BY Zenon DEF Places
  <1>4. Len(p) = 0 => Kept(text) = {}
    BY DEF Places
  <1>5. Len(p) # 0 => Kept(text) # {}
    BY <1>1, <1>3
  <1> QED BY <1>1, <1>2, <1>3, <1>4, <1>5

LEMMA PlacesEmpty == Places(<<>>, <<>>)
  <1>1. <<>> \in Chars /\ Len(<<>>) = 0
    BY TextFacts
  <1>2. Kept(<<>>) = {}
    BY <1>1, KeptIs
  <1>3. Within(Kept(<<>>), 1, 0) = 0
    BY WithinNothing
  <1> QED BY <1>1, <1>2, <1>3 DEF Places

LEMMA PlacesGrow ==
  ASSUME NEW text \in Chars, NEW c \in Nat, ~Erases(c), NEW p, Places(p, text)
  PROVE  Places(Append(p, Len(text) + 1), Append(text, c))
  <1> DEFINE t == Append(text, c)
             L == Len(text)
             n == Len(p)
             q == Append(p, L + 1)
             E == Erasings(text)
             F == Erasings(t)
             K == Kept(text)
             M == Kept(t)
  <1>1. /\ p \in Chars /\ n \in Nat /\ L \in Nat
        /\ \A i \in 1 .. n : p[i] \in 1 .. L
        /\ \A k \in K : k \in 1 .. L
    BY PlacesType
  <1>2. /\ t \in Chars /\ Len(t) = L + 1
        /\ \A m \in 1 .. L + 1 : \A i \in 0 .. L : Within(F, m, i) = Within(E, m, i)
    <2> HIDE DEF t, L, E, F
    <2> QED BY ErasingsGrow DEF t, L, E, F
  <1>3. M = K \union {L + 1}
    BY KeptGrows
  <1>4. /\ q \in Chars /\ Len(q) = n + 1 /\ q[n + 1] = L + 1
        /\ \A i \in 1 .. n : q[i] = p[i]
    BY <1>1 DEF Chars
  <1>5. /\ \A k : k \in K <=> \E i \in 1 .. n : p[i] = k
        /\ \A i, j \in 1 .. n : i < j => p[i] < p[j]
        /\ \A i \in 1 .. n - 1 : 2 * Within(E, p[i] + 1, p[i + 1] - 1) = (p[i + 1] - 1) - p[i]
        /\ n > 0 => 2 * Within(E, p[n] + 1, L) = L - p[n]
        /\ \A i \in 1 .. n : Within(K, 1, p[i]) = i
        /\ Within(K, 1, L) = n
    BY DEF Places
  <1> HIDE DEF t, L, n, q, E, F, K, M
  <1>6. \A k : k \in M <=> \E i \in 1 .. n + 1 : q[i] = k
    <2>1. ASSUME NEW k \in M PROVE \E i \in 1 .. n + 1 : q[i] = k
      <3>1. CASE k = L + 1
        <4>1. n + 1 \in 1 .. n + 1
          BY <1>1
        <4> QED BY <1>4, <3>1, <4>1
      <3>2. CASE k \in K
        <4>1. PICK i \in 1 .. n : p[i] = k
          BY <1>5, <3>2
        <4>2. i \in 1 .. n + 1 /\ q[i] = k
          BY <1>1, <1>4, <4>1
        <4> QED BY <4>2
      <3> QED BY <1>3, <3>1, <3>2
    <2>2. ASSUME NEW i \in 1 .. n + 1 PROVE q[i] \in M
      <3>1. CASE i = n + 1
        BY <1>3, <1>4, <3>1
      <3>2. CASE i \in 1 .. n
        BY <1>3, <1>4, <1>5, <3>2
      <3> QED BY <1>1, <3>1, <3>2
    <2> QED BY <2>1, <2>2
  <1>7. ASSUME NEW i \in 1 .. n + 1, NEW j \in 1 .. n + 1, i < j PROVE q[i] < q[j]
    <2>1. i \in 1 .. n /\ q[i] = p[i] /\ p[i] \in 1 .. L
      BY <1>1, <1>4, <1>7
    <2>2. CASE j = n + 1
      BY <1>1, <1>4, <2>1, <2>2
    <2>3. CASE j \in 1 .. n
      BY <1>4, <1>5, <1>7, <2>1, <2>3
    <2> QED BY <1>1, <2>2, <2>3
  <1>8. ASSUME NEW i \in 1 .. (n + 1) - 1
        PROVE  2 * Within(F, q[i] + 1, q[i + 1] - 1) = (q[i + 1] - 1) - q[i]
    <2>1. i \in 1 .. n /\ q[i] = p[i] /\ p[i] \in 1 .. L /\ p[i] + 1 \in 1 .. L + 1
      BY <1>1, <1>4
    <2>2. CASE i = n
      <3>1. q[i + 1] - 1 = L /\ L \in 0 .. L /\ n > 0
        BY <1>1, <1>4, <2>1, <2>2
      <3>2. Within(F, p[i] + 1, L) = Within(E, p[i] + 1, L)
        BY <1>2, <2>1, <3>1
      <3> QED BY <1>5, <2>1, <2>2, <3>1, <3>2
    <2>3. CASE i # n
      <3>1. i \in 1 .. n - 1 /\ i + 1 \in 1 .. n
        BY <1>1, <2>1, <2>3
      <3>2. q[i + 1] = p[i + 1] /\ p[i + 1] \in 1 .. L /\ p[i + 1] - 1 \in 0 .. L
        BY <1>1, <1>4, <3>1
      <3>3. Within(F, p[i] + 1, p[i + 1] - 1) = Within(E, p[i] + 1, p[i + 1] - 1)
        BY <1>2, <2>1, <3>2
      <3> QED BY <1>5, <2>1, <3>1, <3>2, <3>3
    <2> QED BY <2>2, <2>3
  <1>9. 2 * Within(F, q[n + 1] + 1, L + 1) = (L + 1) - q[n + 1]
    <2>1. q[n + 1] + 1 \in Int /\ L + 1 \in Int /\ L + 1 < q[n + 1] + 1 /\ (L + 1) - q[n + 1] = 0
      BY <1>1, <1>4
    <2>2. Within(F, q[n + 1] + 1, L + 1) = 0
      BY <2>1, WithinNothing
    <2> QED BY <2>1, <2>2
  <1>10. \A i \in 0 .. L : Within(M, 1, i) = Within(K, 1, i)
    <2> SUFFICES ASSUME NEW i \in 0 .. L PROVE M \cap (1 .. i) = K \cap (1 .. i)
      BY Zenon DEF Within
    <2>1. L + 1 \notin 1 .. i
      BY <1>1
    <2> QED BY <1>3, <2>1
  <1>11. Within(M, 1, L + 1) = n + 1
    <2> DEFINE w == L + 1
    <2>1. w \in Int /\ L \in Int /\ 1 <= L + 1 /\ L <= w /\ L + 1 = w
      BY <1>1
    <2> HIDE DEF w
    <2>2. Within(M, 1, w) = Within(M, 1, L) + Within(M, w, w)
      BY <2>1, WithinSplits
    <2>3. Within(M, w, w) = 1
      <3>1. w \in M
        BY <1>3 DEF w
      <3> QED BY <2>1, <3>1, WithinOne, Zenon
    <2>4. Within(M, 1, L) = n
      <3>1. L \in 0 .. L
        BY <1>1
      <3> QED BY <1>5, <1>10, <3>1
    <2> QED BY <2>2, <2>3, <2>4 DEF w
  <1>12. ASSUME NEW i \in 1 .. n + 1 PROVE Within(M, 1, q[i]) = i
    <2>1. CASE i = n + 1
      BY <1>4, <1>11, <2>1
    <2>2. CASE i \in 1 .. n
      <3>1. p[i] \in 0 .. L /\ q[i] = p[i]
        BY <1>1, <1>4, <2>2
      <3> QED BY <1>5, <1>10, <2>2, <3>1
    <2> QED BY <1>1, <2>1, <2>2
  <1>13. Places(q, t)
    <2>1. Len(q) = n + 1 /\ Len(t) = L + 1 /\ M = Kept(t) /\ F = Erasings(t)
      BY <1>2, <1>4 DEF M, F
    <2> QED BY <1>4, <1>6, <1>7, <1>8, <1>9, <1>11, <1>12, <2>1 DEF Places
  <1> QED BY <1>13 DEF q, t, L

LEMMA PlacesShrink ==
  ASSUME NEW text \in Chars, NEW c \in Nat, Erases(c), NEW p, Places(p, text), Len(p) > 0
  PROVE  Places(Front(p), Append(text, c))
  <1> DEFINE t == Append(text, c)
             L == Len(text)
             n == Len(p)
             x == p[n]
             q == Front(p)
             E == Erasings(text)
             F == Erasings(t)
             K == Kept(text)
             M == Kept(t)
  <1>1. /\ p \in Chars /\ n \in Nat /\ L \in Nat
        /\ \A i \in 1 .. n : p[i] \in 1 .. L /\ p[i] \in K
        /\ \A k \in K : k \in 1 .. L
    BY PlacesType
  <1>2. /\ t \in Chars /\ Len(t) = L + 1
        /\ \A m \in 1 .. L + 1 : \A i \in 0 .. L : Within(F, m, i) = Within(E, m, i)
        /\ \A m \in 1 .. L + 1 : Within(F, m, L + 1) = Within(E, m, L) + 1
    <2> HIDE DEF t, L, E, F
    <2> QED BY ErasingsGrow DEF t, L, E, F
  <1>4. q \in Chars /\ Len(q) = n - 1 /\ \A i \in 1 .. n - 1 : q[i] = p[i]
    <2> DEFINE m == n - 1
    <2>1. m \in Nat /\ m <= Len(p) /\ p \in Seq(Nat)
      BY <1>1 DEF Chars
    <2> HIDE DEF m
    <2>2. /\ SubSeq(p, 1, m) \in Chars /\ Len(SubSeq(p, 1, m)) = m
          /\ \A i \in 1 .. m : SubSeq(p, 1, m)[i] = p[i]
      BY <2>1 DEF Chars
    <2> QED BY <2>2 DEF Front, m
  <1>5. /\ \A k : k \in K <=> \E i \in 1 .. n : p[i] = k
        /\ \A i, j \in 1 .. n : i < j => p[i] < p[j]
        /\ \A i \in 1 .. n - 1 : 2 * Within(E, p[i] + 1, p[i + 1] - 1) = (p[i + 1] - 1) - p[i]
        /\ n > 0 => 2 * Within(E, p[n] + 1, L) = L - p[n]
        /\ \A i \in 1 .. n : Within(K, 1, p[i]) = i
        /\ Within(K, 1, L) = n
    BY DEF Places
  <1>0. n > 0 /\ n \in 1 .. n
    BY <1>1
  <1>3. M = K \ {x}
    <2>1. \A k \in K : k <= x
      <3> SUFFICES ASSUME NEW k \in K PROVE k <= x
        OBVIOUS
      <3> HIDE DEF K, n, L
      <3>1. PICK i \in 1 .. n : p[i] = k
        BY <1>5
      <3>2. p[i] \in Nat /\ p[n] \in Nat
        BY <1>0, <1>1
      <3>3. i < n => p[i] < p[n]
        BY <1>0, <1>5
      <3> QED BY <1>0, <1>1, <3>1, <3>2, <3>3
    <2>2. 2 * Within(E, x + 1, L) = L - x
      BY <1>0, <1>5
    <2>3. x \in K
      BY <1>0, <1>1
    <2> QED BY <2>1, <2>2, <2>3, KeptShrinks
  <1> HIDE DEF t, L, n, q, E, F, K, M
  <1>6. \A k : k \in M <=> \E i \in 1 .. n - 1 : q[i] = k
    <2>1. ASSUME NEW k \in M PROVE \E i \in 1 .. n - 1 : q[i] = k
      <3>1. k \in K /\ k # x
        BY <1>3
      <3>2. PICK i \in 1 .. n : p[i] = k
        BY <1>5, <3>1
      <3>3. i \in 1 .. n - 1 /\ q[i] = k
        BY <1>0, <1>1, <1>4, <3>1, <3>2
      <3> QED BY <3>3
    <2>2. ASSUME NEW i \in 1 .. n - 1 PROVE q[i] \in M
      <3>1. i \in 1 .. n /\ i < n /\ q[i] = p[i]
        BY <1>1, <1>4
      <3>2. p[i] < p[n]
        BY <1>0, <1>5, <3>1, Zenon
      <3>3. p[i] \in Nat /\ p[n] \in Nat /\ p[i] \in K
        <4>1. p[i] \in 1 .. L /\ p[n] \in 1 .. L /\ p[i] \in K
          BY <1>0, <1>1, <3>1, Zenon
        <4> QED BY <1>1, <4>1
      <3> QED BY <1>3, <3>1, <3>2, <3>3
    <2> QED BY <2>1, <2>2
  <1>7. ASSUME NEW i \in 1 .. n - 1, NEW j \in 1 .. n - 1, i < j PROVE q[i] < q[j]
    <2>1. i \in 1 .. n /\ j \in 1 .. n
      BY <1>1
    <2> QED BY <1>4, <1>5, <1>7, <2>1
  <1>8. ASSUME NEW i \in 1 .. (n - 1) - 1
        PROVE  2 * Within(F, q[i] + 1, q[i + 1] - 1) = (q[i + 1] - 1) - q[i]
    <2>1. /\ i \in 1 .. n - 1 /\ i + 1 \in 1 .. n - 1 /\ i \in 1 .. n /\ i + 1 \in 1 .. n
      BY <1>1
    <2>2. /\ q[i] = p[i] /\ p[i] + 1 \in 1 .. L + 1
          /\ q[i + 1] = p[i + 1] /\ p[i + 1] - 1 \in 0 .. L
      BY <1>1, <1>4, <2>1, SMTT(20)
    <2>3. Within(F, p[i] + 1, p[i + 1] - 1) = Within(E, p[i] + 1, p[i + 1] - 1)
      BY <1>2, <2>2
    <2> QED BY <1>5, <2>1, <2>2, <2>3
  <1>9. ASSUME n - 1 > 0
        PROVE  2 * Within(F, q[n - 1] + 1, L + 1) = (L + 1) - q[n - 1]
    <2> DEFINE y == p[n - 1]
    <2>1. n - 1 \in 1 .. n - 1 /\ n - 1 \in 1 .. n /\ (n - 1) + 1 = n /\ n - 1 < n
      BY <1>1, <1>9
    <2>2. /\ q[n - 1] = y /\ y \in 1 .. L /\ x \in 1 .. L /\ y < x /\ x \in K
      BY <1>0, <1>1, <1>4, <1>5, <2>1
    <2>3. 2 * Within(E, y + 1, x - 1) = (x - 1) - y
      BY <1>5, <2>1
    <2>4. 2 * Within(E, x + 1, L) = L - x
      BY <1>0, <1>5
    <2>5. x \notin E
      BY <2>2, KeptIs DEF K, E
    <2> HIDE DEF x, y
    <2>6. /\ y + 1 \in Int /\ x \in Int /\ L \in Int /\ x + 1 \in Int /\ x - 1 \in Int
          /\ y + 1 <= x + 1 /\ x <= L /\ y + 1 <= (x - 1) + 1 /\ x - 1 <= x /\ (x - 1) + 1 = x
          /\ y + 1 \in 1 .. L + 1
      BY <1>1, <2>2
    <2>7. Within(E, y + 1, L) = Within(E, y + 1, x) + Within(E, x + 1, L)
      BY <2>6, WithinSplits
    <2>8. Within(E, y + 1, x) = Within(E, y + 1, x - 1) + Within(E, x, x)
      BY <2>6, WithinSplits
    <2>9. Within(E, x, x) = 0
      BY <2>5, <2>6, WithinFacts
    <2>10. Within(F, y + 1, L + 1) = Within(E, y + 1, L) + 1
      BY <1>2, <2>6
    <2>11. Within(E, y + 1, x - 1) \in Nat /\ Within(E, x + 1, L) \in Nat
      BY <2>6, WithinNat
    <2> DEFINE a == Within(E, y + 1, x - 1)
               b == Within(E, x + 1, L)
               w == Within(F, y + 1, L + 1)
    <2>12. a \in Nat /\ b \in Nat /\ w = (a + 0) + b + 1 /\ 2 * a = (x - 1) - y /\ 2 * b = L - x
      BY <2>3, <2>4, <2>7, <2>8, <2>9, <2>10, <2>11, Zenon
    <2> HIDE DEF a, b, w
    <2>13. y \in Int /\ L \in Int
      BY <1>1, <2>2
    <2>14. 2 * w = (L + 1) - y
      BY <2>6, <2>12, <2>13
    <2> QED BY <2>2, <2>14 DEF w
  <1>10. \A i \in 0 .. x - 1 : Within(M, 1, i) = Within(K, 1, i)
    <2> SUFFICES ASSUME NEW i \in 0 .. x - 1 PROVE M \cap (1 .. i) = K \cap (1 .. i)
      BY Zenon DEF Within
    <2>1. x \in Nat
      BY <1>0, <1>1
    <2>2. x \notin 1 .. i
      BY <2>1
    <2> QED BY <1>3, <2>2
  <1>11. Within(M, 1, L + 1) = n - 1
    <2>1. x \in K /\ x \in 1 .. L
      BY <1>0, <1>1
    <2>2. K \cap (1 .. L) = K /\ M \cap (1 .. L + 1) = K \ {x}
      <3>1. \A k \in K : k \in 1 .. L + 1
        BY <1>1
      <3> HIDE DEF x
      <3> QED BY <1>1, <1>3, <3>1
    <2>3. IsFiniteSet(K)
      <3>1. IsFiniteSet(1 .. L)
        BY <1>1, FS_Interval
      <3> QED BY <2>2, <3>1, FS_Intersection
    <2>4. Cardinality(K \ {x}) = Cardinality(K) - 1
      BY <2>1, <2>3, FS_RemoveElement
    <2> QED BY <1>5, <2>2, <2>4, Zenon DEF Within
  <1>12. ASSUME NEW i \in 1 .. n - 1 PROVE Within(M, 1, q[i]) = i
    <2>1. i \in 1 .. n /\ i < n /\ q[i] = p[i]
      BY <1>1, <1>4
    <2>2. p[i] < x /\ p[i] \in Nat /\ x \in Nat
      <3>1. p[i] < p[n]
        BY <1>0, <1>5, <2>1, Zenon
      <3>2. p[i] \in 1 .. L /\ p[n] \in 1 .. L
        BY <1>0, <1>1, <2>1, Zenon
      <3> QED BY <1>1, <3>1, <3>2
    <2>3. p[i] \in 0 .. x - 1
      BY <2>2
    <2> QED BY <1>5, <1>10, <2>1, <2>3
  <1>13. Places(q, t)
    <2>1. Len(q) = n - 1 /\ Len(t) = L + 1 /\ M = Kept(t) /\ F = Erasings(t)
      BY <1>2, <1>4 DEF M, F
    <2> QED BY <1>4, <1>6, <1>7, <1>8, <1>9, <1>11, <1>12, <2>1 DEF Places
  <1> QED BY <1>13 DEF q, t

LEMMA PlacesStayEmpty ==
  ASSUME NEW text \in Chars, NEW c \in Nat, Erases(c), NEW p, Places(p, text), Len(p) = 0
  PROVE  Places(p, Append(text, c))
  <1> DEFINE t == Append(text, c)
  <1>1. Kept(t) = {}
    <2>1. Kept(text) = {}
      BY PlacesType
    <2> QED BY <2>1, KeptStaysEmpty
  <1>2. Within({}, 1, Len(t)) = 0
    <2>1. {} \cap (1 .. Len(t)) = {}
      OBVIOUS
    <2> QED BY <2>1, FS_EmptySet DEF Within
  <1> HIDE DEF t
  <1>3. Places(p, t)
    BY <1>1, <1>2 DEF Places
  <1> QED BY <1>3 DEF t

-----------------------------------------------------------------------------
(* fgets: the line is what was kept *)

Stored(c) == IF EndsLine(c) THEN LF ELSE c

IsLine(p, keys, text) ==
  /\ Places(p, keys) /\ Len(p) = Len(text)
  /\ \A i \in 1 .. Len(p) : text[i] = Stored(keys[p[i]])

EndsWithLine == taken # <<>> /\ EndsLine(Last(taken))

LineInv ==
  job.fn = "fgets" =>
    /\ \E p : IsLine(p, taken, line)
    /\ \A k \in 1 .. Len(taken) : EndsLine(taken[k]) => k = Len(taken) /\ pc # "read"
    /\ pc = "end" => EndsWithLine
    /\ pc = "returned" /\ job.size > 0 => Len(line) = job.size - 1 \/ EndsWithLine

LEMMA LineStart == ConsoleInit => LineInv
  <1> SUFFICES ASSUME ConsoleInit, job.fn = "fgets" PROVE LineInv
    BY DEF LineInv
  <1>1. taken = <<>> /\ line = <<>> /\ pc = Start(job) /\ job \in Jobs
    BY DEF ConsoleInit
  <1>2. IsLine(<<>>, taken, line)
    BY <1>1, PlacesEmpty, TextFacts DEF IsLine
  <1>3. pc # "end" /\ (pc = "returned" => ~(job.size > 0))
    <2>1. job.size \in Int
      BY <1>1, JobFacts
    <2> QED BY <1>1, <2>1 DEF Start
  <1>4. Len(taken) = 0
    BY <1>1, TextFacts
  <1> QED BY <1>2, <1>3, <1>4 DEF LineInv

LEMMA EditedFacts ==
  ASSUME NEW c
  PROVE  /\ ~Erases(c) => Edited(c) = Append(line, Stored(c))
         /\ Erases(c) /\ line = <<>> => Edited(c) = line
         /\ Erases(c) /\ line # <<>> => Edited(c) = Front(line)
         /\ ~(Erases(c) /\ EndsLine(c))
  BY DEF Edited, Stored, Erases, EndsLine, CR, LF, BS, DEL

LEMMA LineTaken ==
  ASSUME ConsoleShape, job.fn = "fgets", NEW c \in Nat, Take(c), NEW p, IsLine(p, taken, line)
  PROVE  \E q : IsLine(q, taken', line')
  <1> DEFINE L == Len(taken)
  <1>1. /\ line \in Chars /\ taken \in Chars /\ taken' = Append(taken, c) /\ line' = Edited(c)
    BY DEF ConsoleShape, Take
  <1>2. /\ L \in Nat /\ taken' \in Chars /\ Len(taken') = L + 1 /\ taken'[L + 1] = c
        /\ \A k \in 1 .. L : taken'[k] = taken[k]
    BY <1>1 DEF Chars
  <1>3. /\ Places(p, taken) /\ Len(p) = Len(line)
        /\ \A i \in 1 .. Len(p) : line[i] = Stored(taken[p[i]])
    BY DEF IsLine
  <1>4. p \in Chars /\ Len(p) \in Nat /\ \A i \in 1 .. Len(p) : p[i] \in 1 .. L
    BY <1>1, <1>3, PlacesType
  <1>5. CASE ~Erases(c)
    <2> DEFINE q == Append(p, L + 1)
    <2>1. Places(q, taken')
      BY <1>1, <1>3, <1>5, PlacesGrow
    <2>2. Stored(c) \in Nat /\ line' = Append(line, Stored(c))
      BY <1>1, <1>5, EditedFacts DEF Stored, LF
    <2>3. /\ Len(q) = Len(p) + 1 /\ q[Len(p) + 1] = L + 1
          /\ \A i \in 1 .. Len(p) : q[i] = p[i]
      BY <1>2, <1>4 DEF Chars
    <2>4. /\ Len(line') = Len(line) + 1 /\ line'[Len(line) + 1] = Stored(c)
          /\ \A i \in 1 .. Len(line) : line'[i] = line[i]
      BY <1>1, <2>2 DEF Chars
    <2> HIDE DEF q, L
    <2>5. ASSUME NEW i \in 1 .. Len(p) + 1 PROVE line'[i] = Stored(taken'[q[i]])
      <3>1. CASE i = Len(p) + 1
        BY <1>2, <1>3, <2>3, <2>4, <3>1
      <3>2. CASE i \in 1 .. Len(p)
        BY <1>2, <1>3, <1>4, <2>3, <2>4, <3>2
      <3> QED BY <1>4, <3>1, <3>2
    <2>6. IsLine(q, taken', line')
      <3>1. Len(q) = Len(line')
        BY <1>3, <2>3, <2>4
      <3> QED BY <2>1, <2>3, <2>5, <3>1 DEF IsLine
    <2> QED BY <2>6
  <1>6. CASE Erases(c) /\ line = <<>>
    <2>1. Len(p) = 0 /\ line' = line
      BY <1>1, <1>3, <1>6, EditedFacts, TextFacts
    <2>2. Places(p, taken')
      BY <1>1, <1>3, <1>6, <2>1, PlacesStayEmpty
    <2>3. IsLine(p, taken', line')
      <3>1. Len(p) = Len(line') /\ \A i \in 1 .. Len(p) : FALSE
        <4> DEFINE n == Len(p)
        <4>1. n = 0 /\ n = Len(line)
          BY <1>3, <2>1
        <4> HIDE DEF n
        <4>2. \A i \in 1 .. n : FALSE
          BY <4>1
        <4> QED BY <2>1, <4>1, <4>2 DEF n
      <3> QED BY <2>2, <3>1, Zenon DEF IsLine
    <2> QED BY <2>3
  <1>7. CASE Erases(c) /\ line # <<>>
    <2> DEFINE q == Front(p)
    <2>1. Len(p) > 0 /\ line' = Front(line)
      <3>1. Len(line) # 0
        BY <1>1, <1>7, TextFacts
      <3> QED BY <1>1, <1>3, <1>4, <1>7, <3>1, EditedFacts
    <2>2. Places(q, taken')
      BY <1>1, <1>3, <1>7, <2>1, PlacesShrink
    <2>4. p # <<>> /\ Len(q) = Len(p) - 1 /\ Len(line') = Len(line) - 1
      <3>1. p # <<>>
        BY <1>4, <2>1, TextFacts
      <3> QED BY <1>1, <1>4, <1>7, <2>1, <3>1, TextFacts
    <2>5. ASSUME NEW i \in 1 .. Len(p) - 1 PROVE line'[i] = Stored(taken'[q[i]])
      <3>1. i \in 1 .. Len(line) - 1 /\ i \in 1 .. Len(p)
        BY <1>3, <1>4
      <3>2. q[i] = p[i] /\ line'[i] = line[i]
        BY <1>1, <1>4, <1>7, <2>1, <2>4, <3>1, FrontIs
      <3>3. taken'[p[i]] = taken[p[i]]
        BY <1>2, <1>4, <3>1
      <3>4. line[i] = Stored(taken[p[i]])
        BY <1>3, <3>1
      <3> HIDE DEF q
      <3> QED BY <3>2, <3>3, <3>4, Zenon
    <2> HIDE DEF q
    <2>6. Len(q) = Len(line') /\ \A i \in 1 .. Len(q) : line'[i] = Stored(taken'[q[i]])
      BY <1>3, <2>4, <2>5
    <2>7. IsLine(q, taken', line')
      BY <2>2, <2>6 DEF IsLine
    <2> QED BY <2>7
  <1> QED BY <1>5, <1>6, <1>7

LEMMA JobStays == [ConsoleNext]_consoleVars => job' = job
  <1> SUFFICES ASSUME [ConsoleNext]_consoleVars PROVE job' = job
    OBVIOUS
  <1>1. CASE Plain \/ ConvertNumber \/ ConvertString \/ ConvertChar \/ ConvertPercent \/ ConvertOther
    BY <1>1 DEF Plain, ConvertNumber, ConvertString, ConvertChar, ConvertPercent, ConvertOther, Emit
  <1>2. CASE EndFormat \/ Put \/ PrintChar \/ EndPrint \/ EndLine
    BY <1>2 DEF EndFormat, Put, PrintChar, EndPrint, EndLine
  <1>3. CASE GetChar \/ GetNothing
    BY <1>3 DEF GetChar, GetNothing, Take
  <1>4. CASE Transmit \/ Receive \/ Overrun
    BY <1>4 DEF Transmit, Receive, Overrun, programVars
  <1>5. CASE UNCHANGED consoleVars
    BY <1>5 DEF consoleVars
  <1> QED BY <1>1, <1>2, <1>3, <1>4, <1>5 DEF ConsoleNext, Program

LEMMA LineStep == ConsoleShape /\ LineInv /\ [ConsoleNext]_consoleVars => LineInv'
  <1> SUFFICES ASSUME ConsoleShape, LineInv, [ConsoleNext]_consoleVars, job.fn = "fgets", job' = job
               PROVE  LineInv'
    BY JobStays DEF LineInv
  <1>1. /\ \E p : IsLine(p, taken, line)
        /\ \A k \in 1 .. Len(taken) : EndsLine(taken[k]) => k = Len(taken) /\ pc # "read"
        /\ pc = "end" => EndsWithLine
        /\ pc = "returned" /\ job.size > 0 => Len(line) = job.size - 1 \/ EndsWithLine
    BY DEF LineInv
  <1>2. ASSUME UNCHANGED <<pc, line, taken>> PROVE LineInv'
    <2>1. PICK p : IsLine(p, taken, line)
      BY <1>1
    <2>2. IsLine(p, taken', line')
      BY <1>2, <2>1 DEF IsLine
    <2>3. EndsWithLine' = EndsWithLine
      BY <1>2 DEF EndsWithLine
    <2> QED BY <1>1, <1>2, <2>2, <2>3 DEF LineInv
  <1>3. ASSUME NEW c \in Nat, Take(c) PROVE LineInv'
    <2>1. \E p : IsLine(p, taken', line')
      BY <1>1, <1>3, LineTaken
    <2>2. /\ taken \in Chars /\ taken' = Append(taken, c) /\ pc = "read"
          /\ pc' = IF EndsLine(c) THEN "end" ELSE "read"
      BY <1>3 DEF ConsoleShape, Take
    <2>3. /\ Len(taken) \in Nat /\ taken' # <<>> /\ Len(taken') = Len(taken) + 1
          /\ taken'[Len(taken) + 1] = c
          /\ \A k \in 1 .. Len(taken) : taken'[k] = taken[k]
      BY <2>2 DEF Chars
    <2>4. \A k \in 1 .. Len(taken) : ~EndsLine(taken'[k])
      BY <1>1, <2>2, <2>3
    <2>5. \A k \in 1 .. Len(taken') : EndsLine(taken'[k]) => k = Len(taken') /\ pc' # "read"
      <3> SUFFICES ASSUME NEW k \in 1 .. Len(taken'), EndsLine(taken'[k])
                   PROVE  k = Len(taken') /\ pc' # "read"
        OBVIOUS
      <3>1. k = Len(taken) + 1
        BY <2>3, <2>4
      <3>2. EndsLine(c)
        BY <2>3, <3>1
      <3> QED BY <2>2, <2>3, <3>1, <3>2
    <2>6. pc' = "end" => EndsWithLine'
      BY <2>2, <2>3 DEF EndsWithLine, Last
    <2>7. pc' # "returned"
      BY <2>2
    <2> QED BY <2>1, <2>5, <2>6, <2>7 DEF LineInv
  <1>4. CASE GetChar
    <2>1. Head(rx) \in Nat
      <3>1. rx # <<>> /\ rx \in Chars
        BY <1>4 DEF GetChar, ConsoleShape
      <3> QED BY <3>1, TextFacts
    <2> QED BY <1>3, <1>4, <2>1 DEF GetChar
  <1>5. CASE GetNothing
    BY <1>3, <1>5 DEF GetNothing
  <1>6. CASE EndLine
    <2>1. /\ pc = "end" \/ (pc = "read" /\ Len(line) >= job.size - 1)
          /\ pc' = "returned" /\ line' = line /\ taken' = taken
      BY <1>6 DEF EndLine
    <2>2. PICK p : IsLine(p, taken, line)
      BY <1>1
    <2>3. IsLine(p, taken', line')
      BY <2>1, <2>2 DEF IsLine
    <2>4. EndsWithLine' = EndsWithLine
      BY <2>1 DEF EndsWithLine
    <2>5. Len(line) = job.size - 1 \/ EndsWithLine
      <3>1. CASE pc = "end"
        BY <1>1, <3>1
      <3>2. CASE pc = "read" /\ Len(line) >= job.size - 1
        <4>1. Len(line) <= job.size - 1
          BY <3>2 DEF ConsoleShape
        <4>2. Len(line) \in Nat /\ job.size \in Int
          BY JobFacts, TextFacts DEF ConsoleShape
        <4> QED BY <3>2, <4>1, <4>2
      <3> QED BY <2>1, <3>1, <3>2
    <2>6. \A k \in 1 .. Len(taken') : EndsLine(taken'[k]) => k = Len(taken') /\ pc' # "read"
      BY <1>1, <2>1
    <2> QED BY <2>1, <2>3, <2>4, <2>5, <2>6 DEF LineInv
  <1>7. CASE Plain \/ ConvertNumber \/ ConvertString \/ ConvertChar \/ ConvertPercent \/ ConvertOther
    <2>1. pc = "format"
      BY <1>7 DEF Plain, ConvertNumber, ConvertString, ConvertChar, ConvertPercent,
             ConvertOther, Conversion, Formatting
    <2> QED BY <2>1 DEF ConsoleShape, Formatters, Printing
  <1>8. CASE EndFormat
    BY <1>8 DEF EndFormat, ConsoleShape, Formatters, Printing
  <1>9. CASE EndPrint \/ PrintChar
    BY <1>9 DEF EndPrint, PrintChar, ConsoleShape
  <1>10. CASE Put
    BY <1>2, <1>10 DEF Put
  <1>11. CASE Transmit \/ Receive \/ Overrun
    BY <1>2, <1>11 DEF Transmit, Receive, Overrun, programVars
  <1>12. CASE UNCHANGED consoleVars
    BY <1>2, <1>12 DEF consoleVars
  <1> QED
    BY <1>4, <1>5, <1>6, <1>7, <1>8, <1>9, <1>10, <1>11, <1>12 DEF ConsoleNext, Program

\* Whatever is typed, whenever it comes and whatever of it the FIFO loses: the line
\* fgets returns is what it took from the UART less what was rubbed out, it takes no
\* more than the buffer has room for and none behind the end of the line.
THEOREM LineIsWhatWasTypedAlways == ConsoleSpec => []LineIsWhatWasTyped
  <1>1. ConsoleSpec => []LineInv
    BY LineStart, LineStep, ShapeHolds, PTL DEF ConsoleSpec
  <1>2. ConsoleShape /\ LineInv => LineIsWhatWasTyped
    <2> SUFFICES ASSUME ConsoleShape, LineInv, job.fn = "fgets" PROVE LineIsWhatWasTyped
      BY DEF LineIsWhatWasTyped
    <2> DEFINE K == Kept(taken)
               place(k) == Cardinality({n \in K : n <= k})
    <2>1. taken \in Chars
      BY DEF ConsoleShape
    <2>2. PICK p : IsLine(p, taken, line)
      BY DEF LineInv
    <2>3. Places(p, taken) /\ Len(p) = Len(line) /\ \A i \in 1 .. Len(p) : line[i] = Stored(taken[p[i]])
      BY <2>2 DEF IsLine
    <2>4. /\ Len(p) \in Nat /\ Len(taken) \in Nat
          /\ \A i \in 1 .. Len(p) : p[i] \in 1 .. Len(taken)
          /\ \A k \in K : k \in 1 .. Len(taken)
      BY <2>1, <2>3, PlacesType
    <2>5. /\ \A k : k \in K <=> \E i \in 1 .. Len(p) : p[i] = k
          /\ \A i \in 1 .. Len(p) : Within(K, 1, p[i]) = i
          /\ Within(K, 1, Len(taken)) = Len(p)
      BY <2>3 DEF Places
    <2> HIDE DEF K
    <2>6. Cardinality(K) = Len(p)
      <3>1. K \cap (1 .. Len(taken)) = K
        BY <2>4
      <3> QED BY <2>5, <3>1 DEF Within
    <2>7. ASSUME NEW k \in K PROVE line[place(k)] = Stored(taken[k])
      <3>1. PICK i \in 1 .. Len(p) : p[i] = k
        BY <2>5
      <3>2. {n \in K : n <= k} = K \cap (1 .. k)
        BY <2>4
      <3>3. place(k) = i
        BY <2>5, <3>1, <3>2, Zenon DEF Within
      <3> HIDE DEF place
      <3> QED BY <2>3, <3>1, <3>3
    <2>8. DOMAIN taken = 1 .. Len(taken)
      BY <2>1 DEF Chars
    <2>9. /\ \A k \in DOMAIN taken : EndsLine(taken[k]) => k = Len(taken)
          /\ pc = "returned" /\ job.size > 0 =>
               Len(line) = job.size - 1 \/ (taken # <<>> /\ EndsLine(Last(taken)))
      BY <2>8 DEF LineInv, EndsWithLine
    <2>10. /\ Len(line) = Cardinality(K)
           /\ \A k \in K : line[place(k)] = IF EndsLine(taken[k]) THEN LF ELSE taken[k]
      BY <2>3, <2>6, <2>7, Zenon DEF Stored
    <2> QED BY <2>9, <2>10, Zenon DEF LineIsWhatWasTyped, K
  <1> QED BY <1>1, <1>2, ShapeHolds, PTL

-----------------------------------------------------------------------------
(* Texts put together one by one *)

\* The first n of the texts F gives.
Joined(F, n) == FlattenSeq([k \in 1 .. n |-> F[k]])

LEMMA Joining ==
  ASSUME NEW N \in Nat, NEW F \in [1 .. N -> Chars]
  PROVE  /\ Joined(F, 0) = <<>> /\ Joined(F, N) = FlattenSeq(F)
         /\ \A n \in 0 .. N : Joined(F, n) \in Chars
         /\ \A n \in 0 .. N - 1 : Joined(F, n + 1) = Joined(F, n) \o F[n + 1]
         /\ \A n \in 0 .. N : \E w \in Chars : Joined(F, N) = Joined(F, n) \o w
  <1>1. \A n \in 0 .. N : [k \in 1 .. n |-> F[k]] \in Texts
    <2> SUFFICES ASSUME NEW n \in 0 .. N PROVE [k \in 1 .. n |-> F[k]] \in Texts
      OBVIOUS
    <2>1. \A k \in 1 .. n : F[k] \in Chars
      OBVIOUS
    <2> QED BY <2>1 DEF Texts
  <1>2. Joined(F, 0) = <<>>
    <2>1. [k \in 1 .. 0 |-> F[k]] = <<>>
      OBVIOUS
    <2> QED BY <2>1, FlattenEmpty DEF Joined
  <1>3. Joined(F, N) = FlattenSeq(F)
    <2>1. [k \in 1 .. N |-> F[k]] = F
      OBVIOUS
    <2> QED BY <2>1 DEF Joined
  <1>4. \A n \in 0 .. N : Joined(F, n) \in Chars
    BY <1>1, FlattenType DEF Joined
  <1>5. ASSUME NEW n \in 0 .. N - 1 PROVE Joined(F, n + 1) = Joined(F, n) \o F[n + 1]
    <2> DEFINE s == [k \in 1 .. n |-> F[k]]
               t == [k \in 1 .. n + 1 |-> F[k]]
    <2>1. s \in Texts /\ t \in Texts /\ F[n + 1] \in Chars
      <3>1. n \in 0 .. N /\ n + 1 \in 0 .. N /\ n + 1 \in 1 .. N
        OBVIOUS
      <3> QED BY <1>1, <3>1
    <2>2. t = Append(s, F[n + 1])
      <3>1. Len(s) = n /\ Len(t) = n + 1 /\ \A k \in 1 .. n : s[k] = F[k]
        OBVIOUS
      <3>2. \A k \in 1 .. n + 1 : t[k] = F[k]
        OBVIOUS
      <3> HIDE DEF s, t
      <3> QED BY <2>1, <3>1, <3>2 DEF Texts
    <2>3. FlattenSeq(Append(s, F[n + 1])) = FlattenSeq(s) \o F[n + 1]
      <3> HIDE DEF s, t
      <3> QED BY <2>1, FlattenAppend
    <2> QED BY <2>2, <2>3 DEF Joined
  <1>6. ASSUME NEW n \in 0 .. N PROVE \E w \in Chars : Joined(F, N) = Joined(F, n) \o w
    <2> DEFINE E(m) == \E w \in Chars : Joined(F, m) = Joined(F, n) \o w
               S == {j \in Nat : n + j <= N => E(n + j)}
    <2>1. 0 \in S
      <3>1. <<>> \in Chars /\ Joined(F, n) = Joined(F, n) \o <<>>
        <4>1. Joined(F, n) \in Chars
          BY <1>4
        <4> QED BY <4>1 DEF Chars
      <3>2. n + 0 = n
        OBVIOUS
      <3>3. E(n)
        BY <3>1
      <3> HIDE DEF E
      <3> QED BY <3>2, <3>3
    <2>2. ASSUME NEW j \in Nat, j \in S PROVE j + 1 \in S
      <3>1. SUFFICES ASSUME n + (j + 1) <= N PROVE E(n + (j + 1))
        OBVIOUS
      <3>2. n + j <= N /\ n + j \in 0 .. N - 1 /\ n + j \in 0 .. N /\ n + (j + 1) = (n + j) + 1
            /\ (n + j) + 1 \in 1 .. N
        BY <3>1
      <3>3. PICK w \in Chars : Joined(F, n + j) = Joined(F, n) \o w
        BY <2>2, <3>2
      <3>4. Joined(F, (n + j) + 1) = Joined(F, n + j) \o F[(n + j) + 1]
        BY <1>5, <3>2
      <3> DEFINE v == F[(n + j) + 1]
                 h == Joined(F, n)
      <3>5. v \in Chars /\ h \in Chars
        BY <1>4, <3>2
      <3>6. Joined(F, n + (j + 1)) = (h \o w) \o v
        BY <3>2, <3>3, <3>4
      <3> HIDE DEF v, h
      <3>7. w \o v \in Chars /\ (h \o w) \o v = h \o (w \o v)
        BY <3>5 DEF Chars
      <3> QED BY <3>6, <3>7 DEF h
    <2> HIDE DEF S, E
    <2>3. Nat \subseteq S
      BY <2>1, <2>2, NatSetInduction
    <2> DEFINE j == N - n
    <2>4. j \in Nat /\ n + j = N
      OBVIOUS
    <2> HIDE DEF j
    <2>5. j \in S
      BY <2>3, <2>4
    <2>6. E(n + j)
      BY <2>4, <2>5 DEF S
    <2>7. E(N)
      BY <2>4, <2>6
    <2> QED BY <2>7 DEF E
  <1> QED BY <1>2, <1>3, <1>4, <1>5, <1>6

LEMMA SinglesAreText ==
  ASSUME NEW text \in Chars
  PROVE  FlattenSeq([k \in 1 .. Len(text) |-> <<text[k]>>]) = text
  <1> DEFINE N == Len(text)
             F == [k \in 1 .. N |-> <<text[k]>>]
             S == {n \in Nat : n <= N => Joined(F, n) = SubSeq(text, 1, n)}
  <1>1. N \in Nat /\ F \in [1 .. N -> Chars]
    BY DEF Chars
  <1>2. \A n \in 1 .. N : F[n] = <<text[n]>>
    OBVIOUS
  <1> HIDE DEF F
  <1>3. /\ Joined(F, 0) = <<>> /\ Joined(F, N) = FlattenSeq(F)
        /\ \A n \in 0 .. N - 1 : Joined(F, n + 1) = Joined(F, n) \o F[n + 1]
    <2> HIDE DEF N
    <2> QED BY <1>1, Joining
  <1>4. 0 \in S
    <2>1. SubSeq(text, 1, 0) = <<>>
      BY DEF Chars
    <2> QED BY <1>3, <2>1
  <1>5. ASSUME NEW n \in Nat, n \in S PROVE n + 1 \in S
    <2>1. SUFFICES ASSUME n + 1 <= N PROVE Joined(F, n + 1) = SubSeq(text, 1, n + 1)
      OBVIOUS
    <2>2. n \in 0 .. N - 1 /\ n + 1 \in 1 .. N /\ n <= N
      BY <1>1, <2>1
    <2>3. Joined(F, n + 1) = SubSeq(text, 1, n) \o <<text[n + 1]>>
      BY <1>2, <1>3, <1>5, <2>2
    <2>4. SubSeq(text, 1, n) \o <<text[n + 1]>> = SubSeq(text, 1, n + 1)
      <3>1. text \in Seq(Nat) /\ n + 1 <= Len(text)
        BY <2>1 DEF Chars
      <3> QED BY <3>1
    <2> QED BY <2>3, <2>4
  <1> HIDE DEF S
  <1>6. N \in S
    BY <1>1, <1>4, <1>5, NatSetInduction
  <1>7. Joined(F, N) = SubSeq(text, 1, N)
    BY <1>1, <1>6 DEF S
  <1>8. SubSeq(text, 1, Len(text)) = text
    BY DEF Chars
  <1> QED BY <1>3, <1>7, <1>8 DEF F

-----------------------------------------------------------------------------
(* Output: what is promised is what arrives *)

\* All the program has put out: sent, in the FIFO, or about to be put into it.
Out == (wire \o fifo) \o todo

LEMMA OutEmpty ==
  ASSUME ConsoleShape
  PROVE  /\ Out \in Chars
         /\ Out = <<>> <=> (wire = <<>> /\ fifo = <<>> /\ todo = <<>>)
         /\ todo = <<>> => Out = wire \o fifo
  <1>1. wire \in Chars /\ fifo \in Chars /\ todo \in Chars
    BY DEF ConsoleShape
  <1> DEFINE wf == wire \o fifo
  <1>2. wf \in Chars /\ Len(wf) = Len(wire) + Len(fifo)
    BY <1>1, TextFacts
  <1>3. wf = <<>> <=> (wire = <<>> /\ fifo = <<>>)
    BY <1>1, <1>2, TextFacts
  <1> HIDE DEF wf
  <1>4. wf \o todo \in Chars /\ Len(wf \o todo) = Len(wf) + Len(todo)
    BY <1>1, <1>2, TextFacts
  <1>5. wf \o todo = <<>> <=> (wf = <<>> /\ todo = <<>>)
    BY <1>1, <1>2, <1>4, TextFacts
  <1>6. wf \o <<>> = wf
    BY <1>2 DEF Chars
  <1> QED BY <1>3, <1>4, <1>5, <1>6 DEF wf, Out

\* A character that goes from one place to the next stays in order.
LEMMA PutKeepsOut ==
  ASSUME ConsoleShape, Put, job.uart # "none"
  PROVE  Out' = Out
  <1>1. /\ todo # <<>> /\ todo' = Tail(todo) /\ fifo' = Append(fifo, Head(todo)) /\ wire' = wire
        /\ wire \in Chars /\ fifo \in Chars /\ todo \in Chars
    BY DEF Put, ConsoleShape
  <1> DEFINE wf == wire \o fifo
             h == Head(todo)
             t == Tail(todo)
  <1>2. h \in Nat /\ t \in Chars /\ todo = <<h>> \o t
    BY <1>1 DEF Chars
  <1>3. wf \in Chars /\ wire \o Append(fifo, h) = Append(wf, h)
    <2> HIDE DEF h
    <2> QED BY <1>1, <1>2, SMTT(20) DEF Chars
  <1> HIDE DEF wf, h, t
  <1>4. Append(wf, h) \o t = wf \o (<<h>> \o t)
    BY <1>2, <1>3, SMTT(20) DEF Chars
  <1>5. Out' = Append(wf, h) \o t
    BY <1>1, <1>3 DEF Out, wf, h, t
  <1>6. Out = wf \o (<<h>> \o t)
    BY <1>2 DEF Out, wf
  <1> QED BY <1>4, <1>5, <1>6

LEMMA TransmitKeepsOut ==
  ASSUME ConsoleShape, Transmit
  PROVE  Out' = Out
  <1>1. /\ fifo # <<>> /\ fifo' = Tail(fifo) /\ wire' = Append(wire, Head(fifo)) /\ todo' = todo
        /\ wire \in Chars /\ fifo \in Chars /\ todo \in Chars
    BY DEF Transmit, ConsoleShape, programVars
  <1> DEFINE h == Head(fifo)
             t == Tail(fifo)
  <1>2. h \in Nat /\ t \in Chars /\ fifo = <<h>> \o t
    BY <1>1 DEF Chars
  <1> HIDE DEF h, t
  <1>3. Append(wire, h) \o t = wire \o (<<h>> \o t)
    BY <1>1, <1>2 DEF Chars
  <1>4. wire' \o fifo' = wire \o fifo
    BY <1>1, <1>2, <1>3 DEF h, t
  <1> QED BY <1>1, <1>4 DEF Out

Cut(t) == IF Len(t) > job.size - 1 THEN SubSeq(t, 1, job.size - 1) ELSE t
Meanings(j) == [k \in 1 .. Len(j.parts) |-> Meaning(j.parts[k])]
Cookings(text) == [k \in 1 .. Len(text) |-> Cooked(text[k])]

LEMMA PromiseIs ==
  ASSUME ConsoleShape
  PROVE  /\ Meanings(job) \in [1 .. Len(job.parts) -> Chars] /\ Len(job.parts) \in Nat
         /\ Promise \in Chars
         /\ job.fn \in Formatters => Promise = Cut(Joined(Meanings(job), Len(job.parts)))
         /\ job.fn \in {"fputs", "fputc"} \union (Halting \ Printing) => Promise = Plainly(job)
  <1> DEFINE n == Len(job.parts)
             all == FlattenSeq([k \in DOMAIN job.parts |-> Meaning(job.parts[k])])
  <1>1. /\ n \in Nat /\ DOMAIN job.parts = 1 .. n
        /\ \A k \in 1 .. n : IsPart(job.parts[k])
        /\ job.size \in Int
        /\ job.fn \in Formatters => job.size >= 1
        /\ job.fn \in {"fputs", "fputc"} \union (Halting \ Printing) =>
             \A k \in 1 .. n : job.parts[k].conv = "plain"
    BY JobFacts DEF ConsoleShape
  <1>2. \A k \in 1 .. n : Meaning(job.parts[k]) \in Chars
    BY <1>1, MeaningIs
  <1>3. Meanings(job) \in [1 .. n -> Chars]
    BY <1>2 DEF Meanings
  <1>4. all = FlattenSeq(Meanings(job))
    BY <1>1 DEF Meanings
  <1>5. all = Joined(Meanings(job), n) /\ all \in Chars
    <2> DEFINE F == Meanings(job)
    <2>1. n \in Nat /\ F \in [1 .. n -> Chars] /\ n \in 0 .. n
      BY <1>1, <1>3
    <2> HIDE DEF F, n
    <2>2. Joined(F, n) = FlattenSeq(F) /\ Joined(F, n) \in Chars
      BY <2>1, Joining
    <2> QED BY <1>4, <2>2 DEF F
  <1>6. Promise = IF job.fn \in Formatters /\ Len(all) > job.size - 1
                  THEN SubSeq(all, 1, job.size - 1) ELSE all
    BY DEF Promise, Formatters
  <1> HIDE DEF all
  <1>7. job.fn \in Formatters => Promise = Cut(Joined(Meanings(job), n))
    BY <1>5, <1>6, Zenon DEF Cut
  <1>8. Promise \in Chars
    <2>1. CASE job.fn \in Formatters /\ Len(all) > job.size - 1
      <3> DEFINE m == job.size - 1
      <3>1. m \in Nat /\ m <= Len(all)
        <4>1. Len(all) \in Nat
          BY <1>5, TextFacts
        <4>2. job.size \in Int /\ job.size >= 1
          BY <1>1, <2>1
        <4> QED BY <2>1, <4>1, <4>2
      <3> HIDE DEF m
      <3>2. SubSeq(all, 1, m) \in Chars
        BY <1>5, <3>1 DEF Chars
      <3> QED BY <1>6, <2>1, <3>2, Zenon DEF m
    <2>2. CASE ~(job.fn \in Formatters /\ Len(all) > job.size - 1)
      BY <1>5, <1>6, <2>2, Zenon
    <2> QED BY <2>1, <2>2
  <1>9. ASSUME job.fn \in {"fputs", "fputc"} \union (Halting \ Printing)
        PROVE  Promise = Plainly(job)
    <2>1. job.fn \notin Formatters
      BY <1>9 DEF Formatters, Halting, Printing
    <2> DEFINE text == Plainly(job)
    <2>2. text = [k \in 1 .. n |-> job.parts[k].arg]
      BY <1>1 DEF Plainly
    <2>3. \A k \in 1 .. n : Meaning(job.parts[k]) = <<job.parts[k].arg>> /\ job.parts[k].arg \in Nat
      <3> SUFFICES ASSUME NEW k \in 1 .. n
                   PROVE  Meaning(job.parts[k]) = <<job.parts[k].arg>> /\ job.parts[k].arg \in Nat
        OBVIOUS
      <3> DEFINE p == job.parts[k]
      <3>1. IsPart(p) /\ p.conv = "plain"
        BY <1>1, <1>9
      <3> HIDE DEF p
      <3>2. p.arg \in 1 .. 127
        BY <3>1, Zenon DEF IsPart
      <3>3. p.arg \in Nat
        <4>1. 1 .. 127 \subseteq Nat
          OBVIOUS
        <4> QED BY <3>2, <4>1, Zenon
      <3>4. Meaning(p) = <<p.arg>>
        BY <3>1, MeaningIs
      <3> QED BY <3>3, <3>4 DEF p
    <2> HIDE DEF text, n
    <2>4. text \in Chars /\ Len(text) = n /\ \A k \in 1 .. n : text[k] = job.parts[k].arg
      BY <1>1, <2>2, <2>3 DEF Chars
    <2>5. Meanings(job) = [k \in 1 .. Len(text) |-> <<text[k]>>]
      <3>1. Meanings(job) = [k \in 1 .. n |-> Meaning(job.parts[k])]
        BY DEF Meanings, n
      <3>2. \A k \in 1 .. n : Meaning(job.parts[k]) = <<text[k]>>
        BY <2>3, <2>4
      <3> QED BY <2>4, <3>1, <3>2
    <2>6. FlattenSeq(Meanings(job)) = text
      BY <2>4, <2>5, SinglesAreText
    <2> QED BY <1>4, <1>6, <2>1, <2>6 DEF text
  <1> QED BY <1>1, <1>3, <1>7, <1>8, <1>9

LEMMA CookingsJoin ==
  ASSUME NEW text \in Chars
  PROVE  /\ Len(text) \in Nat /\ Joined(Cookings(text), 0) = <<>>
         /\ \A n \in 0 .. Len(text) : Joined(Cookings(text), n) \in Chars
         /\ \A n \in 0 .. Len(text) - 1 :
              Joined(Cookings(text), n + 1) = Joined(Cookings(text), n) \o Cooked(text[n + 1])
         /\ \A n \in 0 .. Len(text) : \E w \in Chars :
              Joined(Cookings(text), Len(text)) = Joined(Cookings(text), n) \o w
         /\ job.fn # "fputc" => OnTheLine(text) = Joined(Cookings(text), Len(text))
  <1> DEFINE F == Cookings(text)
             N == Len(text)
  <1>1. N \in Nat /\ \A k \in 1 .. N : text[k] \in Nat
    BY TextFacts
  <1>2. \A c \in Nat : Cooked(c) \in Chars
    BY DEF Cooked, CR, LF, Chars
  <1>3. F \in [1 .. N -> Chars] /\ \A k \in 1 .. N : F[k] = Cooked(text[k])
    BY <1>1, <1>2 DEF Cookings
  <1>4. DOMAIN text = 1 .. N
    BY DEF Chars
  <1>5. job.fn # "fputc" => OnTheLine(text) = FlattenSeq(F)
    BY <1>4, Zenon DEF OnTheLine, Cookings, Cooked
  <1> HIDE DEF F, N
  <1>6. /\ Joined(F, 0) = <<>> /\ Joined(F, N) = FlattenSeq(F)
        /\ \A n \in 0 .. N : Joined(F, n) \in Chars
        /\ \A n \in 0 .. N - 1 : Joined(F, n + 1) = Joined(F, n) \o F[n + 1]
        /\ \A n \in 0 .. N : \E w \in Chars : Joined(F, N) = Joined(F, n) \o w
    BY <1>1, <1>3, Joining
  <1>7. \A n \in 0 .. N - 1 : F[n + 1] = Cooked(text[n + 1])
    <2>1. \A n \in 0 .. N - 1 : n + 1 \in 1 .. N
      BY <1>1
    <2> QED BY <1>3, <2>1
  <1> QED BY <1>1, <1>5, <1>6, <1>7 DEF F, N

TextInv ==
  job.fn # "fgets" =>
    /\ pc \notin {"read", "end"}
    /\ pc = "format" => str = Cut(Joined(Meanings(job), at - 1))
    /\ pc # "format" /\ job.fn # "fputc" => str = Promise
    /\ pc = "format" \/ job.fn = "snprintf" => Out = <<>>
    /\ job.fn = "snprintf" => pc \in {"format", "returned"}
    /\ pc # "format" /\ job.fn \notin {"snprintf", "fputc"} /\ job.uart # "none" =>
         Out = Joined(Cookings(str), sent)
    /\ job.fn = "fputc" => str = <<>> /\ (job.uart # "none" => Out = Promise)
    /\ pc \in {"returned", "halted"} /\ job.fn # "snprintf" => todo = <<>> /\ sent = Len(str)

LEMMA TextStart == ConsoleInit => TextInv
  <1> SUFFICES ASSUME ConsoleInit, job.fn # "fgets" PROVE TextInv
    BY DEF TextInv
  <1>0. ConsoleShape
    BY ShapeInit
  <1>1. /\ job \in Jobs /\ pc = Start(job) /\ at = 1 /\ sent = 0 /\ wire = <<>> /\ fifo = <<>>
        /\ str = IF pc = "print" /\ job.fn # "fputc" THEN Plainly(job) ELSE <<>>
        /\ todo = IF job.fn = "fputc" THEN Plainly(job) ELSE <<>>
    BY DEF ConsoleInit
  <1>2. job.fn \in Printing \union Halting \union {"snprintf", "fputs", "fputc"}
    BY <1>1, JobFacts
  <1>3. pc = IF job.fn \in Formatters THEN "format" ELSE "print"
    BY <1>1 DEF Start, Formatters
  <1>4. CASE job.fn \in Formatters
    <2>1. pc = "format" /\ job.fn # "fputc" /\ str = <<>> /\ todo = <<>>
      BY <1>1, <1>3, <1>4 DEF Formatters, Printing
    <2>2. Out = <<>>
      BY <1>0, <1>1, <2>1, OutEmpty
    <2>3. str = Cut(Joined(Meanings(job), at - 1))
      <3> DEFINE F == Meanings(job)
                 n == Len(job.parts)
      <3>1. F \in [1 .. n -> Chars] /\ n \in Nat
        BY <1>0, PromiseIs
      <3> HIDE DEF F, n
      <3>2. Joined(F, 0) = <<>>
        BY <3>1, Joining
      <3>3. job.size \in Int /\ job.size >= 1
        BY <1>1, <1>4, JobFacts
      <3>4. Cut(<<>>) = <<>>
        BY <3>3, TextFacts DEF Cut
      <3>5. at - 1 = 0
        BY <1>1
      <3> QED BY <2>1, <3>2, <3>4, <3>5 DEF F
    <2> QED BY <2>1, <2>2, <2>3 DEF TextInv
  <1>5. CASE job.fn = "fputc"
    <2>1. pc = "print" /\ str = <<>> /\ todo = Plainly(job)
      BY <1>1, <1>3, <1>5 DEF Formatters, Printing
    <2>2. Promise = Plainly(job) /\ Promise \in Chars
      BY <1>0, <1>5, PromiseIs
    <2>3. Out = Promise
      <3>1. (<<>> \o <<>>) \o Promise = Promise
        BY <2>2 DEF Chars
      <3> QED BY <1>1, <2>1, <2>2, <3>1 DEF Out
    <2> QED BY <1>5, <2>1, <2>3 DEF TextInv
  <1>6. CASE job.fn \notin Formatters /\ job.fn # "fputc"
    <2>1. job.fn \in {"fputs", "fputc"} \union (Halting \ Printing) /\ job.fn # "snprintf"
      BY <1>2, <1>6 DEF Formatters
    <2>2. pc = "print" /\ str = Plainly(job) /\ todo = <<>>
      BY <1>1, <1>3, <1>6
    <2>3. str = Promise /\ Out = <<>>
      BY <1>0, <1>1, <2>1, <2>2, PromiseIs, OutEmpty
    <2>4. Joined(Cookings(str), 0) = <<>>
      BY <1>0, CookingsJoin DEF ConsoleShape
    <2> QED BY <1>1, <1>6, <2>1, <2>2, <2>3, <2>4 DEF TextInv
  <1> QED BY <1>4, <1>5, <1>6

LEMMA CutOfJoined ==
  ASSUME NEW s \in Chars, NEW t \in Chars, NEW r \in Nat, r <= Len(t)
  PROVE  SubSeq(s \o t, 1, Len(s) + r) = s \o SubSeq(t, 1, r)
  <1> DEFINE m == Len(s) + r
             a == SubSeq(s \o t, 1, m)
             u == SubSeq(t, 1, r)
             b == s \o u
  <1>1. Len(s) \in Nat /\ Len(t) \in Nat /\ m \in Nat
    BY TextFacts
  <1>2. u \in Chars /\ Len(u) = r /\ \A i \in 1 .. r : u[i] = t[i]
    BY <1>1 DEF Chars
  <1>3. /\ s \o t \in Chars /\ Len(s \o t) = Len(s) + Len(t)
        /\ \A i \in 1 .. Len(s) + Len(t) : (s \o t)[i] = IF i <= Len(s) THEN s[i] ELSE t[i - Len(s)]
    BY DEF Chars
  <1>4. a \in Chars /\ Len(a) = m /\ \A i \in 1 .. m : a[i] = (s \o t)[i]
    <2> DEFINE w == s \o t
    <2>1. w \in Chars /\ m \in Nat /\ m <= Len(w)
      BY <1>1, <1>3
    <2> HIDE DEF w, m
    <2>2. SubSeq(w, 1, m) \in Chars /\ Len(SubSeq(w, 1, m)) = m /\ \A i \in 1 .. m : SubSeq(w, 1, m)[i] = w[i]
      BY <2>1 DEF Chars
    <2> QED BY <2>2 DEF w
  <1> HIDE DEF u
  <1>5. /\ b \in Chars /\ Len(b) = m
        /\ \A i \in 1 .. m : b[i] = IF i <= Len(s) THEN s[i] ELSE u[i - Len(s)]
    <2>1. Len(b) = Len(s) + Len(u) /\ b \in Chars
      BY <1>2, TextFacts
    <2>2. \A i \in 1 .. Len(s) + Len(u) : b[i] = IF i <= Len(s) THEN s[i] ELSE u[i - Len(s)]
      BY <1>2 DEF Chars
    <2> QED BY <1>2, <2>1, <2>2
  <1> HIDE DEF a, b, m
  <1>6. \A i \in 1 .. m : a[i] = b[i]
    <2> SUFFICES ASSUME NEW i \in 1 .. m PROVE a[i] = b[i]
      OBVIOUS
    <2>1. i \in 1 .. Len(s) + Len(t)
      BY <1>1 DEF m
    <2>2. CASE i <= Len(s)
      BY <1>3, <1>4, <1>5, <2>1, <2>2
    <2>3. CASE ~(i <= Len(s))
      <3>1. i - Len(s) \in 1 .. r
        BY <1>1, <2>3 DEF m
      <3> QED BY <1>2, <1>3, <1>4, <1>5, <2>1, <2>3, <3>1
    <2> QED BY <2>2, <2>3
  <1>7. a = b
    BY <1>4, <1>5, <1>6, SeqEqual DEF Chars
  <1> QED BY <1>7 DEF a, b, m, u

\* A turn of vsnprintf adds the meaning of its part, as far as there is room.
LEMMA TextEmitted ==
  ASSUME ConsoleShape, TextInv,
         Plain \/ ConvertNumber \/ ConvertString \/ ConvertChar \/ ConvertPercent \/ ConvertOther
  PROVE  str' = Cut(Joined(Meanings(job), at' - 1))
  <1> DEFINE F == Meanings(job)
             n == Len(job.parts)
             t == F[at]
             s == Joined(F, at - 1)
  <1>1. /\ Formatting /\ at \in 1 .. n /\ pc = "format"
        /\ str' = str \o Fitting(t) /\ at' = at + 1 /\ t \in Chars
    <2>1. /\ Formatting /\ at \in 1 .. n
          /\ Emit(Meaning(job.parts[at]), IF Takes(job.parts[at]) THEN 1 ELSE 0)
      BY FormatStep
    <2>2. t = Meaning(job.parts[at])
      BY <2>1 DEF Meanings
    <2>3. F \in [1 .. n -> Chars]
      BY PromiseIs
    <2> QED BY <2>1, <2>2, <2>3 DEF Emit, Formatting
  <1>2. job.fn \in Formatters /\ job.fn # "fgets" /\ Len(str) <= job.size - 1
    BY <1>1 DEF ConsoleShape, Formatters, Printing
  <1>3. F \in [1 .. n -> Chars] /\ n \in Nat
    BY PromiseIs
  <1>4. str = Cut(s)
    BY <1>1, <1>2 DEF TextInv
  <1>5. s \in Chars /\ Joined(F, at) = s \o t
    <2>1. at - 1 \in 0 .. n - 1 /\ at - 1 \in 0 .. n /\ (at - 1) + 1 = at
      BY <1>1, <1>3
    <2> HIDE DEF F, n
    <2>2. /\ \A i \in 0 .. n : Joined(F, i) \in Chars
          /\ \A i \in 0 .. n - 1 : Joined(F, i + 1) = Joined(F, i) \o F[i + 1]
      BY <1>3, Joining
    <2>3. Joined(F, (at - 1) + 1) = Joined(F, at - 1) \o F[(at - 1) + 1]
      BY <2>1, <2>2
    <2> QED BY <2>1, <2>2, <2>3
  <1>6. at' - 1 = at
    BY <1>1
  <1> HIDE DEF F, n, t, s
  <1>7. /\ job.size \in Int /\ Len(s) \in Nat /\ Len(t) \in Nat /\ Len(str) \in Nat
        /\ Room \in Nat /\ Room > 0 /\ Room = job.size - 1 - Len(str)
    <2>1. job.size \in Int /\ Len(s) \in Nat /\ Len(t) \in Nat /\ Len(str) \in Nat
      BY <1>1, <1>5, JobFacts, TextFacts DEF ConsoleShape
    <2>2. Room > 0 /\ Room = job.size - 1 - Len(str)
      BY <1>1 DEF Formatting, Room
    <2> QED BY <2>1, <2>2
  <1>8. str = s
    <2>1. CASE Len(s) > job.size - 1
      <3> DEFINE m == job.size - 1
      <3>1. m \in Nat /\ m <= Len(s)
        BY <1>7, <2>1
      <3> HIDE DEF m
      <3>2. Len(SubSeq(s, 1, m)) = m
        BY <1>5, <3>1 DEF Chars
      <3>3. Len(str) = job.size - 1
        BY <1>4, <2>1, <3>2 DEF Cut, m
      <3> QED BY <1>7, <3>3
    <2>2. CASE ~(Len(s) > job.size - 1)
      BY <1>4, <2>2 DEF Cut
    <2> QED BY <2>1, <2>2
  <1>9. Len(s \o t) = Len(s) + Len(t)
    BY <1>1, <1>5, TextFacts
  <1>10. Cut(s \o t) = s \o Fitting(t)
    <2>1. CASE Len(t) <= Room
      <3>1. SubSeq(t, 1, Len(t)) = t
        BY <1>1 DEF Chars
      <3>2. Fitting(t) = t
        <4>1. (IF Len(t) < Room THEN Len(t) ELSE Room) = Len(t)
          BY <1>7, <2>1
        <4> QED BY <3>1, <4>1 DEF Fitting
      <3>3. ~(Len(s \o t) > job.size - 1)
        BY <1>7, <1>8, <1>9, <2>1
      <3> QED BY <3>2, <3>3 DEF Cut
    <2>2. CASE Len(t) > Room
      <3> DEFINE r == Room
                 m == Len(s) + r
      <3>1. job.size - 1 = m /\ r \in Nat /\ r <= Len(t) /\ Len(s \o t) > job.size - 1
        BY <1>7, <1>8, <1>9, <2>2
      <3>2. Fitting(t) = SubSeq(t, 1, r)
        <4>1. (IF Len(t) < Room THEN Len(t) ELSE Room) = Room
          BY <1>7, <2>2
        <4> QED BY <4>1, Zenon DEF Fitting
      <3> HIDE DEF r
      <3>3. SubSeq(s \o t, 1, m) = s \o SubSeq(t, 1, r)
        BY <1>1, <1>5, <1>7, <3>1, CutOfJoined DEF m
      <3> QED BY <3>1, <3>2, <3>3 DEF Cut
    <2> QED BY <1>7, <2>1, <2>2
  <1>11. str' = Cut(s \o t)
    BY <1>1, <1>8, <1>10
  <1> QED BY <1>5, <1>6, <1>11 DEF F

\* The format ends with its last part, or with the last room: either way the text is
\* what was promised.
LEMMA TextFormatted ==
  ASSUME ConsoleShape, TextInv, EndFormat
  PROVE  str = Promise
  <1> DEFINE F == Meanings(job)
             n == Len(job.parts)
             s == Joined(F, at - 1)
             all == Joined(F, n)
  <1>1. /\ pc = "format" /\ ~Formatting /\ job.fn \in Formatters /\ job.fn # "fgets"
        /\ Len(str) <= job.size - 1 /\ at \in 1 .. n + 1
    BY DEF EndFormat, ConsoleShape, Formatters, Printing
  <1>2. F \in [1 .. n -> Chars] /\ n \in Nat /\ Promise = Cut(all)
    BY <1>1, PromiseIs
  <1>3. str = Cut(s)
    BY <1>1 DEF TextInv
  <1> HIDE DEF F, n
  <1>4. at - 1 \in 0 .. n
    BY <1>1, <1>2
  <1>5. s \in Chars /\ \E w \in Chars : all = s \o w
    <2>1. /\ \A i \in 0 .. n : Joined(F, i) \in Chars
          /\ \A i \in 0 .. n : \E w \in Chars : Joined(F, n) = Joined(F, i) \o w
      BY <1>2, Joining
    <2> QED BY <1>4, <2>1
  <1>6. at > n \/ ~(Room > 0)
    BY <1>1 DEF Formatting, n
  <1>7. CASE at > n
    <2>1. at - 1 = n
      BY <1>1, <1>2, <1>7
    <2> QED BY <1>2, <1>3, <2>1
  <1>8. CASE ~(Room > 0)
    <2>1. PICK w \in Chars : all = s \o w
      BY <1>5
    <2> HIDE DEF s, all
    <2>2. /\ job.size \in Int /\ job.size >= 1 /\ Len(s) \in Nat /\ Len(w) \in Nat /\ Len(str) \in Nat
          /\ Len(str) = job.size - 1
      <3>1. /\ job.size \in Int /\ job.size >= 1 /\ Len(s) \in Nat /\ Len(w) \in Nat /\ Len(str) \in Nat
        BY <1>1, <1>5, JobFacts, TextFacts DEF ConsoleShape
      <3> QED BY <1>1, <1>8, <3>1 DEF Room
    <2> DEFINE m == job.size - 1
    <2>3. m \in Nat /\ m <= Len(s)
      <3>1. CASE Len(s) > job.size - 1
        BY <2>2, <3>1
      <3>2. CASE ~(Len(s) > job.size - 1)
        <4>1. str = s
          BY <1>3, <3>2 DEF Cut
        <4> QED BY <2>2, <4>1
      <3> QED BY <3>1, <3>2
    <2>4. str = SubSeq(s, 1, m)
      <3>1. CASE Len(s) > job.size - 1
        BY <1>3, <3>1 DEF Cut
      <3>2. CASE ~(Len(s) > job.size - 1)
        <4>1. Len(s) = m /\ str = s
          BY <1>3, <2>2, <2>3, <3>2 DEF Cut
        <4>2. SubSeq(s, 1, Len(s)) = s
          BY <1>5 DEF Chars
        <4> QED BY <4>1, <4>2
      <3> QED BY <3>1, <3>2
    <2>5. Len(all) = Len(s) + Len(w)
      BY <1>5, <2>1, TextFacts
    <2>6. Cut(all) = SubSeq(all, 1, m)
      <3>1. CASE Len(all) > job.size - 1
        BY <3>1 DEF Cut
      <3>2. CASE ~(Len(all) > job.size - 1)
        <4>1. Len(all) = m
          BY <2>2, <2>3, <2>5, <3>2
        <4>2. SubSeq(all, 1, Len(all)) = all
          BY <1>5, <2>1 DEF Chars
        <4> QED BY <3>2, <4>1, <4>2 DEF Cut
      <3> QED BY <3>1, <3>2
    <2> HIDE DEF m
    <2>7. SubSeq(s \o w, 1, m) = SubSeq(s, 1, m)
      BY <1>5, <2>3 DEF Chars
    <2> QED BY <1>2, <2>1, <2>4, <2>6, <2>7 DEF all
  <1> QED BY <1>6, <1>7, <1>8

LEMMA PrefixOfJoined ==
  ASSUME NEW s \in Chars, NEW t \in Chars
  PROVE  IsPrefix(s, s \o t)
  <1> DEFINE n == Len(s)
  <1>1. n \in Nat /\ Len(s \o t) = n + Len(t) /\ Len(t) \in Nat
    BY TextFacts
  <1>2. SubSeq(s \o t, 1, n + 0) = s \o SubSeq(t, 1, 0)
    <2>1. 0 <= Len(t)
      BY <1>1
    <2> QED BY <2>1, CutOfJoined
  <1>3. SubSeq(t, 1, 0) = <<>> /\ s \o <<>> = s /\ SubSeq(s, 1, Len(s)) = s
    BY DEF Chars
  <1>4. n + 0 = n
    BY <1>1
  <1>5. SubSeq(s \o t, 1, n) = SubSeq(s, 1, n)
    BY <1>2, <1>3, <1>4
  <1> QED BY <1>1, <1>5 DEF IsPrefix

LEMMA TextStep == ConsoleShape /\ TextInv /\ [ConsoleNext]_consoleVars => TextInv'
  <1> SUFFICES ASSUME ConsoleShape, TextInv, [ConsoleNext]_consoleVars, job.fn # "fgets", job' = job
               PROVE  TextInv'
    BY JobStays DEF TextInv
  <1>0. /\ pc \notin {"read", "end"}
        /\ pc = "format" => str = Cut(Joined(Meanings(job), at - 1))
        /\ pc # "format" /\ job.fn # "fputc" => str = Promise
        /\ pc = "format" \/ job.fn = "snprintf" => Out = <<>>
        /\ job.fn = "snprintf" => pc \in {"format", "returned"}
        /\ pc # "format" /\ job.fn \notin {"snprintf", "fputc"} /\ job.uart # "none" =>
             Out = Joined(Cookings(str), sent)
        /\ job.fn = "fputc" => str = <<>> /\ (job.uart # "none" => Out = Promise)
        /\ pc \in {"returned", "halted"} /\ job.fn # "snprintf" => todo = <<>> /\ sent = Len(str)
    BY DEF TextInv
  <1>s. Promise' = Promise /\ Meanings(job)' = Meanings(job) /\ \A t : Cut(t)' = Cut(t)
    BY DEF Promise, Meanings, Cut
  <1>o. (Out = <<>>) <=> (wire = <<>> /\ fifo = <<>> /\ todo = <<>>)
    BY OutEmpty
  <1>1. CASE Plain \/ ConvertNumber \/ ConvertString \/ ConvertChar \/ ConvertPercent \/ ConvertOther
    <2>1. /\ pc = "format" /\ UNCHANGED <<pc, sent, todo, fifo, wire>>
      BY <1>1, FormatStep DEF Emit, Formatting
    <2>2. str' = Cut(Joined(Meanings(job), at' - 1))
      BY <1>1, TextEmitted
    <2>3. Cut(Joined(Meanings(job), at - 1))' = Cut(Joined(Meanings(job), at' - 1))
      BY <1>s DEF Cut, Meanings, Joined
    <2>4. Out' = Out
      BY <2>1 DEF Out
    <2>5. job.fn # "fputc"
      BY <2>1 DEF ConsoleShape, Formatters, Printing
    <2> QED BY <1>0, <2>1, <2>2, <2>3, <2>4, <2>5 DEF TextInv
  <1>2. CASE EndFormat
    <2>1. /\ pc = "format" /\ pc' = IF job.fn = "snprintf" THEN "returned" ELSE "print"
          /\ UNCHANGED <<str, sent, todo, fifo, wire>> /\ sent = 0
      BY <1>2 DEF EndFormat, ConsoleShape
    <2>2. str = Promise
      BY <1>2, TextFormatted
    <2>3. Out' = Out /\ Out = <<>>
      BY <1>0, <2>1 DEF Out
    <2>4. Joined(Cookings(str), 0) = <<>>
      BY CookingsJoin DEF ConsoleShape
    <2>5. job.fn # "fputc"
      BY <2>1 DEF ConsoleShape, Formatters, Printing
    <2>6. Joined(Cookings(str), sent)' = Joined(Cookings(str), sent)
      BY <2>1 DEF Joined, Cookings
    <2> QED BY <1>s, <2>1, <2>2, <2>3, <2>4, <2>5, <2>6 DEF TextInv
  <1>3. ASSUME UNCHANGED <<pc, at, str, sent>>, todo = <<>> => todo' = <<>>,
               Out' = Out \/ (Out # <<>> /\ job.uart = "none")
        PROVE  TextInv'
    <2>1. Joined(Cookings(str), sent)' = Joined(Cookings(str), sent)
      BY <1>3 DEF Joined, Cookings
    <2>2. Cut(Joined(Meanings(job), at - 1))' = Cut(Joined(Meanings(job), at - 1))
      BY <1>3 DEF Cut, Meanings, Joined
    <2>3. CASE Out' = Out
      BY <1>0, <1>s, <1>3, <2>1, <2>2, <2>3 DEF TextInv
    <2>4. CASE Out # <<>> /\ job.uart = "none"
      BY <1>0, <1>s, <1>3, <2>1, <2>2, <2>4 DEF TextInv
    <2> QED BY <1>3, <2>3, <2>4
  <1>4. CASE Put
    <2>1. UNCHANGED <<pc, at, str, sent>> /\ todo # <<>>
      BY <1>4 DEF Put
    <2>2. Out' = Out \/ (Out # <<>> /\ job.uart = "none")
      BY <1>o, <1>4, <2>1, PutKeepsOut
    <2> QED BY <1>3, <2>1, <2>2
  <1>5. CASE PrintChar
    <2>1. /\ pc = "print" /\ todo = <<>> /\ sent < Len(str) /\ todo' = Cooked(str[sent + 1])
          /\ sent' = sent + 1 /\ UNCHANGED <<pc, at, str, fifo, wire>>
          /\ str \in Chars /\ sent \in 0 .. Len(str)
      BY <1>5 DEF PrintChar, ConsoleShape
    <2>2. job.fn \notin {"snprintf", "fputc"}
      <3>1. job.fn # "snprintf"
        BY <2>1 DEF ConsoleShape
      <3>2. job.fn # "fputc"
        <4>1. ~(sent < Len(<<>>))
          BY <2>1, TextFacts
        <4> QED BY <1>0, <2>1, <4>1
      <3> QED BY <3>1, <3>2
    <2>3. job.uart # "none" => Out' = Joined(Cookings(str), sent + 1)
      <3> SUFFICES ASSUME job.uart # "none" PROVE Out' = Joined(Cookings(str), sent + 1)
        OBVIOUS
      <3>1. Out = wire \o fifo /\ Out = Joined(Cookings(str), sent)
        BY <1>0, <2>1, <2>2, OutEmpty
      <3>2. Joined(Cookings(str), sent + 1) = Joined(Cookings(str), sent) \o Cooked(str[sent + 1])
        <4>1. sent \in 0 .. Len(str) - 1
          BY <2>1, TextFacts
        <4> QED BY <2>1, <4>1, CookingsJoin
      <3>3. Out' = (wire \o fifo) \o Cooked(str[sent + 1])
        BY <2>1 DEF Out
      <3> QED BY <3>1, <3>2, <3>3
    <2>4. Joined(Cookings(str), sent)' = Joined(Cookings(str), sent + 1)
      BY <2>1 DEF Joined, Cookings
    <2> QED BY <1>0, <1>s, <2>1, <2>2, <2>3, <2>4 DEF TextInv
  <1>6. CASE EndPrint
    <2>1. /\ pc = "print" /\ todo = <<>> /\ sent = Len(str) /\ pc' \in {"halted", "returned"}
          /\ UNCHANGED <<at, str, sent, todo, fifo, wire>>
      BY <1>6 DEF EndPrint
    <2>2. job.fn # "snprintf"
      BY <2>1 DEF ConsoleShape
    <2>3. Out' = Out
      BY <2>1 DEF Out
    <2>4. Joined(Cookings(str), sent)' = Joined(Cookings(str), sent)
      BY <2>1 DEF Joined, Cookings
    <2> QED BY <1>0, <1>s, <2>1, <2>2, <2>3, <2>4 DEF TextInv
  <1>7. CASE GetChar \/ GetNothing
    BY <1>0, <1>7 DEF GetChar, GetNothing, Take
  <1>8. CASE EndLine
    BY <1>0, <1>8 DEF EndLine
  <1>9. CASE Transmit
    <2>1. UNCHANGED <<pc, at, str, sent, todo>> /\ Out' = Out
      BY <1>9, TransmitKeepsOut DEF Transmit, programVars
    <2> QED BY <1>3, <2>1
  <1>10. CASE Receive \/ Overrun \/ UNCHANGED consoleVars
    <2>1. UNCHANGED <<pc, at, str, sent, todo, fifo, wire>>
      BY <1>10 DEF Receive, Overrun, programVars, consoleVars
    <2>2. Out' = Out
      BY <2>1 DEF Out
    <2> QED BY <1>3, <2>1, <2>2
  <1> QED
    BY <1>1, <1>2, <1>4, <1>5, <1>6, <1>7, <1>8, <1>9, <1>10 DEF ConsoleNext, Program

\* Formatted text is what its parts mean, cut off where the buffer ends; it reaches the
\* line in order, each line feed behind a carriage return, and all of it has before the
\* call returns or the machine halts: for every format, argument, size and UART.
THEOREM TextArrivesAlways == ConsoleSpec => []TextArrives
  <1>1. ConsoleSpec => []TextInv
    BY TextStart, TextStep, ShapeHolds, PTL DEF ConsoleSpec
  <1>2. ConsoleShape /\ TextInv => TextArrives
    <2> SUFFICES ASSUME ConsoleShape, TextInv, job.fn # "fgets" PROVE TextArrives
      BY DEF TextArrives
    <2> DEFINE wf == wire \o fifo
               goal == OnTheLine(Promise)
    <2>1. /\ pc # "format" /\ job.fn # "fputc" => str = Promise
          /\ pc = "format" \/ job.fn = "snprintf" => Out = <<>>
          /\ pc # "format" /\ job.fn \notin {"snprintf", "fputc"} /\ job.uart # "none" =>
               Out = Joined(Cookings(str), sent)
          /\ job.fn = "fputc" => str = <<>> /\ (job.uart # "none" => Out = Promise)
          /\ pc \in {"returned", "halted"} /\ job.fn # "snprintf" => todo = <<>> /\ sent = Len(str)
      BY DEF TextInv
    <2>2. wire \in Chars /\ fifo \in Chars /\ todo \in Chars /\ wf \in Chars /\ str \in Chars
          /\ sent \in 0 .. Len(str)
      BY TextFacts DEF ConsoleShape
    <2>3. Out = wf \o todo /\ (todo = <<>> => Out = wf)
      BY OutEmpty DEF Out
    <2>4. Promise \in Chars
      BY PromiseIs
    <2>5. ASSUME job.fn # "snprintf", job.uart # "none"
          PROVE  IsPrefix(wf, goal) /\ (pc \in {"returned", "halted"} => wf = goal)
      <3>1. CASE pc = "format"
        <4>1. wf = <<>>
          <5>1. wire = <<>> /\ fifo = <<>>
            BY <2>1, <3>1, OutEmpty
          <5> QED BY <5>1
        <4>2. goal \in Chars
          <5>1. job.fn # "fputc"
            BY <3>1 DEF ConsoleShape, Formatters, Printing
          <5>2. /\ goal = Joined(Cookings(Promise), Len(Promise)) /\ Len(Promise) \in 0 .. Len(Promise)
                /\ \A n \in 0 .. Len(Promise) : Joined(Cookings(Promise), n) \in Chars
            BY <2>4, <5>1, CookingsJoin
          <5> QED BY <5>2
        <4>3. IsPrefix(<<>>, goal)
          <5> HIDE DEF goal
          <5> QED BY <4>2 DEF IsPrefix, Chars
        <4> QED BY <3>1, <4>1, <4>3
      <3>2. CASE pc # "format" /\ job.fn = "fputc"
        <4>1. goal = Promise /\ Out = Promise
          BY <2>1, <2>5, <3>2 DEF OnTheLine
        <4>2. goal = wf \o todo
          BY <2>3, <4>1
        <4> HIDE DEF wf, goal
        <4>3. IsPrefix(wf, wf \o todo)
          BY <2>2, PrefixOfJoined
        <4> QED BY <2>1, <2>3, <3>2, <4>1, <4>2, <4>3
      <3>3. CASE pc # "format" /\ job.fn # "fputc"
        <4>1. str = Promise /\ Out = Joined(Cookings(str), sent)
          BY <2>1, <2>5, <3>3
        <4>2. /\ goal = Joined(Cookings(str), Len(str))
              /\ \E w \in Chars : Joined(Cookings(str), Len(str)) = Joined(Cookings(str), sent) \o w
          BY <2>2, <3>3, <4>1, CookingsJoin
        <4>3. PICK w \in Chars : goal = (wf \o todo) \o w
          BY <2>3, <4>1, <4>2
        <4> HIDE DEF wf, goal
        <4>4. todo \o w \in Chars /\ (wf \o todo) \o w = wf \o (todo \o w)
          <5>1. todo \o w \in Chars
            BY <2>2, TextFacts
          <5>2. (wf \o todo) \o w = wf \o (todo \o w)
            BY <2>2, TextsAssociate, SMTT(20)
          <5> QED BY <5>1, <5>2
        <4>5. IsPrefix(wf, wf \o (todo \o w))
          BY <2>2, <4>4, PrefixOfJoined
        <4>6. ASSUME pc \in {"returned", "halted"} PROVE wf = goal
          <5>1. todo = <<>> /\ sent = Len(str)
            BY <2>1, <2>5, <4>6
          <5> QED BY <2>3, <4>1, <4>2, <5>1
        <4> QED BY <4>3, <4>4, <4>5, <4>6
      <3> QED BY <3>1, <3>2, <3>3
    <2>6. job.fn = "snprintf" => wf \o todo = <<>>
      BY <2>1, <2>3
    <2> QED BY <2>1, <2>5, <2>6, Zenon DEF TextArrives
  <1> QED BY <1>1, <1>2, ShapeHolds, PTL

-----------------------------------------------------------------------------
(* What a terminal shows *)

Screens == [col : Int, row : Chars]
NoScreen == [col |-> 0, row |-> <<>>]

\* A screen after one more character has come to it.
Written(screen, c) ==
  IF c = BS THEN [screen EXCEPT !.col = @ - 1]
  ELSE [col |-> screen.col + 1,
        row |-> IF screen.col < Len(screen.row)
                THEN [screen.row EXCEPT ![screen.col + 1] = c]
                ELSE Append(screen.row, c)]

IsShown(g, text) ==
  g = [n \in 0 .. Len(text) |-> IF n = 0 THEN NoScreen ELSE Written(g[n - 1], text[n])]

LEMMA ReplacedIsText ==
  ASSUME NEW text \in Chars, NEW i \in Int, NEW c \in Nat
  PROVE  LET r == [text EXCEPT ![i] = c] IN
         /\ r \in Chars /\ Len(r) = Len(text)
         /\ \A k \in 1 .. Len(text) : r[k] = IF k = i THEN c ELSE text[k]
  <1> DEFINE n == Len(text)
             r == [text EXCEPT ![i] = c]
             s == [k \in 1 .. n |-> IF k = i THEN c ELSE text[k]]
  <1>1. n \in Nat /\ DOMAIN text = 1 .. n /\ \A k \in 1 .. n : text[k] \in Nat
    BY DEF Chars
  <1>2. r = s
    <2> HIDE DEF n
    <2> QED BY <1>1
  <1>3. s \in Seq(Nat) /\ Len(s) = n
    <2> HIDE DEF n
    <2> QED BY <1>1
  <1>4. \A k \in 1 .. n : s[k] = IF k = i THEN c ELSE text[k]
    OBVIOUS
  <1> HIDE DEF r, s
  <1>5. /\ r \in Chars /\ Len(r) = Len(text)
        /\ \A k \in 1 .. Len(text) : r[k] = IF k = i THEN c ELSE text[k]
    BY <1>2, <1>3, <1>4 DEF Chars
  <1> QED BY <1>5 DEF r

LEMMA WrittenType == \A screen \in Screens : \A c \in Nat : Written(screen, c) \in Screens
  <1> SUFFICES ASSUME NEW screen \in Screens, NEW c \in Nat PROVE Written(screen, c) \in Screens
    OBVIOUS
  <1>1. screen.col \in Int /\ screen.row \in Chars
    BY DEF Screens
  <1>2. Append(screen.row, c) \in Chars
    BY <1>1, TextFacts
  <1>3. [screen.row EXCEPT ![screen.col + 1] = c] \in Chars
    <2>1. screen.col + 1 \in Int
      BY <1>1
    <2> QED BY <1>1, <2>1, ReplacedIsText
  <1> QED BY <1>1, <1>2, <1>3 DEF Screens, Written

LEMMA ShownExists ==
  ASSUME NEW text \in Chars
  PROVE  \E g \in [0 .. Len(text) -> Screens] : IsShown(g, text)
  <1> DEFINE n == Len(text)
             next == [k \in 1 .. n |-> [s \in Screens |-> Written(s, text[k])]]
  <1>1. n \in Nat /\ \A k \in 1 .. n : text[k] \in Nat
    BY TextFacts
  <1>2. NoScreen \in Screens
    BY TextFacts DEF NoScreen, Screens
  <1>3. next \in [1 .. n -> [Screens -> Screens]]
    BY <1>1, WrittenType
  <1>4. \A k \in 1 .. n : \A s \in Screens : next[k][s] = Written(s, text[k])
    OBVIOUS
  <1> HIDE DEF n, next
  <1>5. PICK g \in [0 .. n -> Screens] : IsChain(g, n, NoScreen, next)
    BY <1>1, <1>2, <1>3, ChainExists
  <1>6. g = [k \in 0 .. n |-> IF k = 0 THEN NoScreen ELSE next[k][g[k - 1]]]
    BY <1>5 DEF IsChain
  <1>7. \A k \in 0 .. n : k # 0 => next[k][g[k - 1]] = Written(g[k - 1], text[k])
    BY <1>1, <1>4
  <1>8. g = [k \in 0 .. n |-> IF k = 0 THEN NoScreen ELSE Written(g[k - 1], text[k])]
    BY <1>6, <1>7
  <1> QED BY <1>8 DEF IsShown, n

\* Texts that begin alike are shown alike as far as they do.
LEMMA ShownAlike ==
  ASSUME NEW t \in Chars, NEW u \in Chars, NEW g, NEW h, IsShown(g, t), IsShown(h, u),
         NEW n \in Nat, n <= Len(t), n <= Len(u), \A k \in 1 .. n : t[k] = u[k]
  PROVE  \A k \in 0 .. n : g[k] = h[k]
  <1> DEFINE S == {k \in Nat : k <= n => g[k] = h[k]}
             a == Len(t)
             b == Len(u)
  <1>1. a \in Nat /\ b \in Nat /\ n <= a /\ n <= b
    BY TextFacts
  <1>2. /\ \A k \in 0 .. a : g[k] = IF k = 0 THEN NoScreen ELSE Written(g[k - 1], t[k])
        /\ \A k \in 0 .. b : h[k] = IF k = 0 THEN NoScreen ELSE Written(h[k - 1], u[k])
    BY Zenon DEF IsShown
  <1> HIDE DEF a, b
  <1>3. 0 \in S
    BY <1>1, <1>2
  <1>4. ASSUME NEW k \in Nat, k \in S PROVE k + 1 \in S
    <2> SUFFICES ASSUME k + 1 <= n PROVE g[k + 1] = h[k + 1]
      OBVIOUS
    <2>1. k + 1 \in 0 .. a /\ k + 1 \in 0 .. b /\ k + 1 # 0 /\ (k + 1) - 1 = k /\ k + 1 \in 1 .. n
      BY <1>1
    <2>2. g[k + 1] = Written(g[k], t[k + 1]) /\ h[k + 1] = Written(h[k], u[k + 1])
      BY <1>2, <2>1
    <2>3. g[k] = h[k] /\ t[k + 1] = u[k + 1]
      BY <1>4, <2>1
    <2> QED BY <2>2, <2>3
  <1> HIDE DEF S
  <1>5. \A k \in Nat : k \in S
    BY <1>3, <1>4, NatSetInduction
  <1> QED BY <1>5 DEF S

LEMMA ShownIs ==
  ASSUME NEW text \in Chars, NEW g, IsShown(g, text)
  PROVE  Shown(text) = g[Len(text)]
  <1> DEFINE h == CHOOSE f : IsShown(f, text)
  <1>1. Shown(text) = h[Len(text)]
    BY DEF Shown, IsShown, Written, NoScreen
  <1>2. IsShown(h, text)
    BY Zenon
  <1> HIDE DEF h
  <1>3. Len(text) \in Nat
    BY TextFacts
  <1>4. \A k \in 0 .. Len(text) : g[k] = h[k]
    <2> DEFINE n == Len(text)
    <2>1. n \in Nat /\ n <= Len(text) /\ \A k \in 1 .. n : text[k] = text[k]
      BY <1>3
    <2> HIDE DEF n
    <2>2. \A k \in 0 .. n : g[k] = h[k]
      BY <1>2, <2>1, ShownAlike
    <2> QED BY <2>2 DEF n
  <1>5. Len(text) \in 0 .. Len(text)
    BY <1>3
  <1> QED BY <1>1, <1>4, <1>5

\* One character more is written on what was shown before it.
LEMMA ShownGrows ==
  /\ Shown(<<>>) = NoScreen
  /\ \A text \in Chars : Shown(text) \in Screens
  /\ \A text \in Chars : \A c \in Nat : Shown(Append(text, c)) = Written(Shown(text), c)
  <1>1. ASSUME NEW text \in Chars PROVE Shown(text) \in Screens
    <2>1. PICK g \in [0 .. Len(text) -> Screens] : IsShown(g, text)
      BY ShownExists
    <2>2. Shown(text) = g[Len(text)]
      BY <2>1, ShownIs
    <2>3. Len(text) \in 0 .. Len(text)
      BY TextFacts
    <2> QED BY <2>2, <2>3
  <1>2. Shown(<<>>) = NoScreen
    <2>1. <<>> \in Chars /\ Len(<<>>) = 0
      BY TextFacts
    <2>2. PICK g : IsShown(g, <<>>)
      BY <2>1, ShownExists
    <2>3. Shown(<<>>) = g[0]
      BY <2>1, <2>2, ShownIs
    <2>4. g = [n \in 0 .. 0 |-> IF n = 0 THEN NoScreen ELSE Written(g[n - 1], <<>>[n])]
      BY <2>1, <2>2 DEF IsShown
    <2>5. 0 \in 0 .. 0
      OBVIOUS
    <2>6. g[0] = NoScreen
      BY <2>4, <2>5, Zenon
    <2> QED BY <2>3, <2>6
  <1>3. ASSUME NEW text \in Chars, NEW c \in Nat
        PROVE  Shown(Append(text, c)) = Written(Shown(text), c)
    <2> DEFINE n == Len(text)
               more == Append(text, c)
    <2>1. /\ n \in Nat /\ more \in Chars /\ Len(more) = n + 1 /\ more[n + 1] = c
          /\ \A k \in 1 .. n : text[k] = more[k]
      BY DEF Chars
    <2> HIDE DEF n, more
    <2>2. PICK g : IsShown(g, text)
      BY ShownExists
    <2>3. PICK h : IsShown(h, more)
      BY <2>1, ShownExists
    <2>4. Shown(text) = g[n] /\ Shown(more) = h[n + 1]
      BY <2>1, <2>2, <2>3, ShownIs DEF n
    <2>5. \A k \in 0 .. n : g[k] = h[k]
      <3>1. n <= Len(text) /\ n <= Len(more)
        BY <2>1 DEF n
      <3> QED BY <2>1, <2>2, <2>3, <3>1, ShownAlike
    <2>6. h[n + 1] = Written(h[n], c)
      <3>1. \A k \in 0 .. n + 1 : h[k] = IF k = 0 THEN NoScreen ELSE Written(h[k - 1], more[k])
        BY <2>1, <2>3, Zenon DEF IsShown
      <3>2. n + 1 \in 0 .. n + 1 /\ n + 1 # 0 /\ (n + 1) - 1 = n
        BY <2>1
      <3>3. h[n + 1] = Written(h[(n + 1) - 1], more[n + 1])
        BY <3>1, <3>2
      <3> QED BY <2>1, <3>2, <3>3
    <2>7. g[n] = h[n]
      BY <2>1, <2>5
    <2> QED BY <2>4, <2>6, <2>7 DEF more
  <1> QED BY <1>1, <1>2, <1>3

\* The screen shows text, blanks behind it, and the cursor where the blanks begin.
Shows(screen, text) ==
  /\ screen \in Screens /\ screen.col = Len(text) /\ Len(text) <= Len(screen.row)
  /\ \A k \in 1 .. Len(screen.row) :
       screen.row[k] = IF k <= Len(text) THEN text[k] ELSE Blank

\* Every character typed: what is shown is what it leaves of the line.
LEMMA ShowsMore ==
  ASSUME NEW screen, NEW text \in Chars, Shows(screen, text), NEW c \in Nat, c # BS
  PROVE  Shows(Written(screen, c), Append(text, c))
  <1> DEFINE n == Len(text)
             row == screen.row
             next == Append(text, c)
             more == IF n < Len(row) THEN [row EXCEPT ![n + 1] = c] ELSE Append(row, c)
  <1>1. /\ screen.col = n /\ n \in Nat /\ row \in Chars /\ Len(row) \in Nat /\ n <= Len(row)
        /\ \A k \in 1 .. Len(row) : row[k] = IF k <= n THEN text[k] ELSE Blank
    BY TextFacts DEF Shows, Screens
  <1>2. Written(screen, c) = [col |-> n + 1, row |-> more]
    BY <1>1 DEF Written
  <1>3. /\ next \in Chars /\ Len(next) = n + 1 /\ next[n + 1] = c
        /\ \A k \in 1 .. n : next[k] = text[k]
    BY DEF Chars
  <1> HIDE DEF n, next, row
  <1>4. /\ more \in Chars /\ n + 1 <= Len(more) /\ Len(more) \in Nat
        /\ \A k \in 1 .. Len(more) : more[k] = IF k <= n + 1 THEN next[k] ELSE Blank
    <2>1. CASE n < Len(row)
      <3> DEFINE r == [row EXCEPT ![n + 1] = c]
      <3>1. /\ r \in Chars /\ Len(r) = Len(row)
            /\ \A k \in 1 .. Len(row) : r[k] = IF k = n + 1 THEN c ELSE row[k]
        <4> DEFINE m == n + 1
        <4>1. m \in Int
          BY <1>1
        <4> HIDE DEF m
        <4>2. LET q == [row EXCEPT ![m] = c] IN
              /\ q \in Chars /\ Len(q) = Len(row)
              /\ \A k \in 1 .. Len(row) : q[k] = IF k = m THEN c ELSE row[k]
          BY <1>1, <4>1, ReplacedIsText
        <4> QED BY <4>2 DEF m
      <3>2. more = r
        BY <2>1
      <3> HIDE DEF more, r
      <3>3. ASSUME NEW k \in 1 .. Len(row)
            PROVE  r[k] = IF k <= n + 1 THEN next[k] ELSE Blank
        <4>1. r[k] = IF k = n + 1 THEN c ELSE IF k <= n THEN text[k] ELSE Blank
          BY <1>1, <3>1
        <4> QED BY <1>1, <1>3, <4>1
      <3> QED BY <1>1, <2>1, <3>1, <3>2, <3>3
    <2>2. CASE n = Len(row)
      <3> DEFINE r == Append(row, c)
      <3>1. /\ r \in Chars /\ Len(r) = n + 1 /\ r[n + 1] = c
            /\ \A k \in 1 .. n : r[k] = row[k]
        BY <1>1, <2>2 DEF Chars
      <3>2. more = r
        BY <2>2, <1>1
      <3> HIDE DEF more, r
      <3>3. ASSUME NEW k \in 1 .. n + 1
            PROVE  r[k] = IF k <= n + 1 THEN next[k] ELSE Blank
        BY <1>1, <1>3, <2>2, <3>1
      <3> QED BY <1>1, <3>1, <3>2, <3>3
    <2> QED BY <1>1, <2>1, <2>2
  <1> HIDE DEF more
  <1>5. Shows([col |-> n + 1, row |-> more], next)
    BY <1>1, <1>3, <1>4 DEF Shows, Screens
  <1> QED BY <1>2, <1>5 DEF next

LEMMA ShowsLess ==
  ASSUME NEW screen, NEW text \in Chars, text # <<>>, Shows(screen, text)
  PROVE  Shows(Written(Written(Written(screen, BS), Blank), BS), Front(text))
  <1> DEFINE n == Len(text)
             row == screen.row
             less == Front(text)
             r == [row EXCEPT ![n] = Blank]
  <1>1. /\ screen \in Screens /\ screen.col = n /\ n \in Nat /\ n >= 1
        /\ row \in Chars /\ Len(row) \in Nat /\ n <= Len(row)
        /\ \A k \in 1 .. Len(row) : row[k] = IF k <= n THEN text[k] ELSE Blank
    BY TextFacts DEF Shows, Screens
  <1>2. less \in Chars /\ Len(less) = n - 1 /\ \A k \in 1 .. n - 1 : less[k] = text[k]
    <2>1. less \in Chars /\ Len(less) = n - 1
      BY TextFacts
    <2> QED BY <2>1, FrontIs
  <1>3. /\ r \in Chars /\ Len(r) = Len(row)
        /\ \A k \in 1 .. Len(row) : r[k] = IF k = n THEN Blank ELSE row[k]
    <2>1. n \in Int /\ Blank \in Nat
      BY <1>1 DEF Blank
    <2> HIDE DEF n, row
    <2> QED BY <1>1, <2>1, ReplacedIsText
  <1> HIDE DEF n, less
  <1>4. Written(screen, BS) = [col |-> n - 1, row |-> row]
    BY <1>1 DEF Written, Screens
  <1>5. Written([col |-> n - 1, row |-> row], Blank) = [col |-> n, row |-> r]
    <2>1. n - 1 < Len(row) /\ (n - 1) + 1 = n /\ Blank # BS
      BY <1>1 DEF Blank, BS
    <2> HIDE DEF row
    <2> QED BY <2>1 DEF Written
  <1> HIDE DEF r
  <1>6. Written([col |-> n, row |-> r], BS) = [col |-> n - 1, row |-> r]
    BY DEF Written
  <1> HIDE DEF row
  <1>7. ASSUME NEW k \in 1 .. Len(r)
        PROVE  r[k] = IF k <= n - 1 THEN less[k] ELSE Blank
    BY <1>1, <1>2, <1>3
  <1>8. Shows([col |-> n - 1, row |-> r], less)
    BY <1>1, <1>2, <1>3, <1>7 DEF Shows, Screens
  <1> QED BY <1>4, <1>5, <1>6, <1>8 DEF less, row

\* No key but backspace erases, and only where there is something to erase.
Clean(keys) ==
  \A k \in 1 .. Len(keys) :
    keys[k] # DEL /\ (keys[k] = BS => Kept(SubSeq(keys, 1, k - 1)) # {})

LEMMA CleanShrinks ==
  ASSUME NEW keys \in Chars, NEW c \in Nat, Clean(Append(keys, c))
  PROVE  Clean(keys) /\ c # DEL /\ (c = BS => Kept(keys) # {})
  <1> DEFINE n == Len(keys)
             more == Append(keys, c)
  <1>1. /\ n \in Nat /\ Len(more) = n + 1 /\ more[n + 1] = c
        /\ \A k \in 1 .. n : more[k] = keys[k]
    BY DEF Chars
  <1>2. ASSUME NEW k \in 1 .. n + 1 PROVE SubSeq(more, 1, k - 1) = SubSeq(keys, 1, k - 1)
    BY DEF Chars
  <1>3. SubSeq(keys, 1, n) = keys
    BY DEF Chars
  <1>4. \A k \in 1 .. n + 1 :
          more[k] # DEL /\ (more[k] = BS => Kept(SubSeq(more, 1, k - 1)) # {})
    BY <1>1, Zenon DEF Clean
  <1> HIDE DEF more
  <1>5. Clean(keys)
    <2> SUFFICES ASSUME NEW k \in 1 .. n
                 PROVE  keys[k] # DEL /\ (keys[k] = BS => Kept(SubSeq(keys, 1, k - 1)) # {})
      BY Zenon DEF Clean, n
    <2>1. k \in 1 .. n + 1 /\ more[k] = keys[k]
      BY <1>1
    <2>2. SubSeq(more, 1, k - 1) = SubSeq(keys, 1, k - 1)
      BY <1>2, <2>1
    <2>3. more[k] # DEL /\ (more[k] = BS => Kept(SubSeq(more, 1, k - 1)) # {})
      BY <1>4, <2>1, Zenon
    <2> QED BY <2>1, <2>2, <2>3, Zenon
  <1>6. c # DEL /\ (c = BS => Kept(keys) # {})
    <2> DEFINE k == n + 1
    <2>1. k \in 1 .. n + 1 /\ k - 1 = n
      BY <1>1
    <2>2. SubSeq(more, 1, k - 1) = SubSeq(keys, 1, k - 1)
      BY <1>2, <2>1
    <2>3. more[k] # DEL /\ (more[k] = BS => Kept(SubSeq(more, 1, k - 1)) # {})
      BY <1>4, <2>1, Zenon
    <2>4. SubSeq(more, 1, k - 1) = keys
      BY <1>3, <2>1, <2>2, Zenon
    <2> QED BY <1>1, <2>3, <2>4, Zenon
  <1> QED BY <1>5, <1>6

LEMMA ThreeMore ==
  \A s \in Chars : \A a, b, c \in Nat : s \o <<a, b, c>> = Append(Append(Append(s, a), b), c)
  BY DEF Chars

\* While a line is being typed.
Typing == job.fn = "fgets" /\ job.uart # "none" /\ pc = "read" /\ Clean(taken)

ScreenInv == Typing => Shows(Shown(Out), line)

LEMMA ScreenStart == ConsoleInit => ScreenInv
  <1> SUFFICES ASSUME ConsoleInit, Typing PROVE Shows(Shown(Out), line)
    BY DEF ScreenInv
  <1>1. line = <<>> /\ wire = <<>> /\ fifo = <<>> /\ todo = <<>>
    BY DEF ConsoleInit, Typing
  <1>2. Out = <<>>
    BY <1>1, ShapeInit, OutEmpty
  <1>3. Shown(Out) = NoScreen /\ NoScreen \in Screens
    BY <1>2, ShownGrows, TextFacts DEF NoScreen, Screens
  <1>4. Shows(NoScreen, <<>>)
    BY <1>3, TextFacts DEF Shows, NoScreen
  <1> QED BY <1>1, <1>3, <1>4

\* What is echoed for a character does to the screen what it does to the line.
LEMMA ScreenEchoes ==
  ASSUME ConsoleShape, LineInv, ScreenInv, NEW c \in Nat, Take(c), job.fn = "fgets",
         job.uart # "none", job' = job, pc' = "read", Clean(taken'), UNCHANGED <<wire, fifo>>
  PROVE  Shows(Shown(Out)', line')
  <1>1. /\ taken \in Chars /\ line \in Chars /\ taken' = Append(taken, c)
        /\ pc = "read" /\ todo = <<>> /\ todo' = Echo(c) /\ line' = Edited(c) /\ ~EndsLine(c)
    BY DEF ConsoleShape, Take
  <1>2. Clean(taken) /\ c # DEL /\ (c = BS => Kept(taken) # {})
    BY <1>1, CleanShrinks
  <1>3. Shows(Shown(Out), line)
    BY <1>1, <1>2 DEF ScreenInv, Typing
  <1>4. Out \in Chars /\ Out = wire \o fifo
    BY <1>1, OutEmpty
  <1>5. Out' = Out \o Echo(c)
    BY <1>1, <1>4 DEF Out
  <1>6. CASE c # BS
    <2>1. Echo(c) = <<c>> /\ Edited(c) = Append(line, c)
      BY <1>1, <1>2, <1>6 DEF Echo, Edited, Erases
    <2>2. Out \o <<c>> = Append(Out, c)
      BY <1>4 DEF Chars
    <2>3. Shown(Out)' = Written(Shown(Out), c)
      <3>1. Out' = Append(Out, c)
        BY <1>5, <2>1, <2>2
      <3>2. Shown(Append(Out, c)) = Written(Shown(Out), c)
        BY <1>4, ShownGrows
      <3>3. Shown(Out)' = Shown(Out')
        OBVIOUS
      <3> QED BY <3>1, <3>2, <3>3
    <2>4. Shows(Written(Shown(Out), c), Append(line, c))
      BY <1>1, <1>3, <1>6, ShowsMore
    <2> QED BY <1>1, <2>1, <2>3, <2>4
  <1>7. CASE c = BS
    <2>1. line # <<>>
      <3>1. PICK p : IsLine(p, taken, line)
        BY <1>1 DEF LineInv
      <3>2. Places(p, taken) /\ Len(p) = Len(line)
        BY <3>1 DEF IsLine
      <3>3. Len(p) # 0
        BY <1>1, <1>2, <1>7, <3>2, PlacesType
      <3> QED BY <1>1, <3>2, <3>3, TextFacts
    <2>2. Echo(c) = <<BS, Blank, BS>> /\ Edited(c) = Front(line)
      BY <1>1, <1>7, <2>1 DEF Echo, Edited, Erases
    <2> DEFINE one == Append(Out, BS)
               two == Append(one, Blank)
    <2>3. BS \in Nat /\ Blank \in Nat
      BY DEF BS, Blank
    <2>4. one \in Chars /\ two \in Chars
      BY <1>4, <2>3, TextFacts
    <2>5. Out \o <<BS, Blank, BS>> = Append(two, BS)
      BY <1>4, <2>3, ThreeMore
    <2>6. /\ Shown(one) = Written(Shown(Out), BS)
          /\ Shown(two) = Written(Shown(one), Blank)
          /\ Shown(Append(two, BS)) = Written(Shown(two), BS)
      <3>1. Shown(one) = Written(Shown(Out), BS)
        BY <1>4, <2>3, ShownGrows
      <3> HIDE DEF one
      <3>2. Shown(two) = Written(Shown(one), Blank)
        BY <2>3, <2>4, ShownGrows
      <3> HIDE DEF two
      <3>3. Shown(Append(two, BS)) = Written(Shown(two), BS)
        BY <2>3, <2>4, ShownGrows
      <3> QED BY <3>1, <3>2, <3>3
    <2> HIDE DEF one, two
    <2>7. Shown(Out)' = Shown(Append(two, BS))
      <3>1. Out' = Append(two, BS)
        BY <1>5, <2>2, <2>5
      <3>2. Shown(Out)' = Shown(Out')
        OBVIOUS
      <3> QED BY <3>1, <3>2
    <2>8. Shows(Written(Written(Written(Shown(Out), BS), Blank), BS), Front(line))
      BY <1>1, <1>3, <2>1, ShowsLess
    <2> QED BY <1>1, <2>2, <2>6, <2>7, <2>8
  <1> QED BY <1>6, <1>7

LEMMA ScreenStep ==
  ConsoleShape /\ LineInv /\ ScreenInv /\ [ConsoleNext]_consoleVars => ScreenInv'
  <1> SUFFICES ASSUME ConsoleShape, LineInv, ScreenInv, [ConsoleNext]_consoleVars, job' = job,
                      job.fn = "fgets", job.uart # "none", pc' = "read", Clean(taken')
               PROVE  Shows(Shown(Out)', line')
    BY JobStays DEF ScreenInv, Typing
  <1>1. ASSUME UNCHANGED <<pc, line, taken>>, Out' = Out PROVE Shows(Shown(Out)', line')
    <2>1. Shows(Shown(Out), line)
      BY <1>1 DEF ScreenInv, Typing
    <2>2. Shown(Out)' = Shown(Out')
      OBVIOUS
    <2> QED BY <1>1, <2>1, <2>2
  <1>2. CASE GetChar
    <2>1. rx # <<>> /\ rx \in Chars /\ Take(Head(rx))
      BY <1>2 DEF GetChar, ConsoleShape
    <2>2. Head(rx) \in Nat /\ UNCHANGED <<wire, fifo>>
      BY <2>1, TextFacts DEF Take
    <2> DEFINE c == Head(rx)
    <2>3. c \in Nat /\ Take(c) /\ UNCHANGED <<wire, fifo>>
      BY <2>1, <2>2
    <2> HIDE DEF c
    <2> QED BY <2>3, ScreenEchoes
  <1>3. CASE GetNothing
    BY <1>3 DEF GetNothing
  <1>4. CASE EndLine \/ EndFormat \/ EndPrint
    BY <1>4 DEF EndLine, EndFormat, EndPrint
  <1>5. CASE Plain \/ ConvertNumber \/ ConvertString \/ ConvertChar \/ ConvertPercent \/ ConvertOther
    <2>1. pc = "format"
      BY <1>5 DEF Plain, ConvertNumber, ConvertString, ConvertChar, ConvertPercent,
             ConvertOther, Conversion, Formatting
    <2> QED BY <2>1 DEF ConsoleShape, Formatters, Printing
  <1>6. CASE PrintChar
    BY <1>6 DEF PrintChar, ConsoleShape
  <1>7. CASE Put
    <2>1. Out' = Out
      BY <1>7, PutKeepsOut
    <2> QED BY <1>1, <1>7, <2>1 DEF Put
  <1>8. CASE Transmit
    <2>1. Out' = Out
      BY <1>8, TransmitKeepsOut
    <2> QED BY <1>1, <1>8, <2>1 DEF Transmit, programVars
  <1>9. CASE Receive \/ Overrun
    BY <1>1, <1>9 DEF Receive, Overrun, programVars, Out
  <1>10. CASE UNCHANGED consoleVars
    BY <1>1, <1>10 DEF consoleVars, Out
  <1> QED
    BY <1>2, <1>3, <1>4, <1>5, <1>6, <1>7, <1>8, <1>9, <1>10 DEF ConsoleNext, Program

\* Whatever is typed, as long as only backspace erases, and only where something is to
\* be erased: whenever all that fgets has echoed has been handed to the UART, the
\* terminal shows the line in the caller's buffer, with the cursor behind it.
THEOREM ScreenShowsLineAlways == ConsoleSpec => []ScreenShowsLine
  <1>1. ConsoleSpec => []LineInv
    BY LineStart, LineStep, ShapeHolds, PTL DEF ConsoleSpec
  <1>2. ConsoleSpec => []ScreenInv
    BY <1>1, ScreenStart, ScreenStep, ShapeHolds, PTL DEF ConsoleSpec
  <1>3. ConsoleShape /\ ScreenInv => ScreenShowsLine
    <2> DEFINE Asked ==
          /\ job.fn = "fgets" /\ pc = "read" /\ todo = <<>> /\ job.uart # "none"
          /\ \A k \in DOMAIN taken :
               /\ taken[k] # DEL
               /\ taken[k] = BS => Kept(SubSeq(taken, 1, k - 1)) # {}
        screen == Shown(wire \o fifo)
    <2> SUFFICES ASSUME ConsoleShape, ScreenInv, Asked
                 PROVE  /\ screen.col = Len(line) /\ Len(line) <= Len(screen.row)
                        /\ \A k \in DOMAIN screen.row :
                             screen.row[k] = IF k <= Len(line) THEN line[k] ELSE Blank
      BY Zenon DEF ScreenShowsLine
    <2>1. DOMAIN taken = 1 .. Len(taken)
      BY DEF ConsoleShape, Chars
    <2>2. Clean(taken)
      BY <2>1, Zenon DEF Clean
    <2>3. Shows(screen, line)
      <3>1. Out = wire \o fifo
        BY OutEmpty
      <3>2. Shows(Shown(Out), line)
        BY <2>2 DEF ScreenInv, Typing
      <3> QED BY <3>1, <3>2
    <2> HIDE DEF screen
    <2>4. DOMAIN screen.row = 1 .. Len(screen.row)
      BY <2>3 DEF Shows, Screens, Chars
    <2> QED BY <2>3, <2>4 DEF Shows
  <1> QED BY <1>2, <1>3, ShapeHolds, PTL

-----------------------------------------------------------------------------
(* Every call, and the line, come nearer to their end with every step *)

Less == OpToRel(<, Nat)
RankOrder ==
  LexPairOrdering(Less,
    LexPairOrdering(Less, LexPairOrdering(Less, Less, Nat, Nat), Nat, Nat \X Nat),
    Nat, Nat \X (Nat \X Nat))

\* What is still to do: characters to be received and taken, stages of the call, parts
\* of the format or characters of the text or the line, and characters to be sent.
CharsLeft == 2 * Len(typed) + Len(rx)
StagesLeft ==
  IF pc = "format" THEN 3 ELSE IF pc \in {"print", "read"} THEN 2
  ELSE IF pc = "end" THEN 1 ELSE 0
TurnsLeft ==
  IF pc = "format" THEN Len(job.parts) + 1 - at
  ELSE IF pc = "print" THEN Len(str) - sent
  ELSE IF pc = "read" THEN job.size - 1 - Len(line) ELSE 0
SendsLeft == 2 * Len(todo) + Len(fifo)

Rank == <<CharsLeft, <<StagesLeft, <<TurnsLeft, SendsLeft>>>>>>
RankTyped ==
  CharsLeft \in Nat /\ StagesLeft \in Nat /\ TurnsLeft \in Nat /\ SendsLeft \in Nat
RankLowered == <<Rank', Rank>> \in RankOrder

LEMMA RankType == ConsoleShape => RankTyped
  <1> SUFFICES ASSUME ConsoleShape PROVE RankTyped
    OBVIOUS
  <1>1. /\ Len(typed) \in Nat /\ Len(rx) \in Nat /\ Len(todo) \in Nat /\ Len(fifo) \in Nat
        /\ Len(str) \in Nat /\ Len(line) \in Nat
    BY TextFacts DEF ConsoleShape
  <1>2. job.size \in Int /\ Len(job.parts) \in Nat
    BY JobFacts DEF ConsoleShape
  <1>3. /\ at \in 1 .. Len(job.parts) + 1 /\ sent \in 0 .. Len(str)
        /\ pc = "read" => Len(line) <= job.size - 1
    BY DEF ConsoleShape
  <1> QED BY <1>1, <1>2, <1>3 DEF RankTyped, CharsLeft, StagesLeft, TurnsLeft, SendsLeft

\* What the program does leaves less to do, of the characters it takes, of its
\* stages, of its turns or of what is still to be handed to the UART.
LEMMA ProgramLeavesLess ==
  ASSUME ConsoleShape, RankTyped, RankTyped', Program
  PROVE  \/ CharsLeft' < CharsLeft
         \/ /\ CharsLeft' = CharsLeft
            /\ \/ StagesLeft' < StagesLeft
               \/ StagesLeft' = StagesLeft /\ TurnsLeft' < TurnsLeft
               \/ StagesLeft' = StagesLeft /\ TurnsLeft' = TurnsLeft /\ SendsLeft' < SendsLeft
  <1>0. /\ job \in Jobs /\ job.size \in Int /\ Len(job.parts) \in Nat
        /\ str \in Chars /\ line \in Chars /\ todo \in Chars /\ fifo \in Chars
        /\ typed \in Chars /\ rx \in Chars /\ at \in Nat /\ sent \in Nat
        /\ Len(str) \in Nat /\ Len(line) \in Nat /\ Len(typed) \in Nat /\ Len(rx) \in Nat
        /\ Len(todo) \in Nat /\ Len(fifo) \in Nat
    BY JobFacts, TextFacts DEF ConsoleShape
  <1>1. CASE Plain \/ ConvertNumber \/ ConvertString \/ ConvertChar \/ ConvertPercent
             \/ ConvertOther
    <2>1. pc = "format" /\ at' = at + 1 /\ UNCHANGED <<job, pc, typed, rx>>
      BY <1>1, Zenon DEF Plain, ConvertNumber, ConvertString, ConvertChar, ConvertPercent,
         ConvertOther, Conversion, Formatting, Emit
    <2> DEFINE n == Len(job.parts)
    <2>2. n \in Nat /\ n' = n
      BY <1>0, <2>1
    <2>3. TurnsLeft = n + 1 - at /\ TurnsLeft' = n' + 1 - at'
      BY <2>1 DEF TurnsLeft
    <2> HIDE DEF n
    <2>4. TurnsLeft' < TurnsLeft
      BY <1>0, <2>1, <2>2, <2>3
    <2> QED BY <2>1, <2>4 DEF CharsLeft, StagesLeft
  <1>2. CASE EndFormat \/ EndPrint \/ EndLine
    <2>1. /\ UNCHANGED <<typed, rx>>
          /\ \/ pc = "format" /\ pc' \in {"print", "returned"}
             \/ pc \in {"print", "read", "end"} /\ pc' \in {"returned", "halted"}
      BY <1>2 DEF EndFormat, EndPrint, EndLine
    <2> QED BY <2>1 DEF CharsLeft, StagesLeft
  <1>3. CASE Put
    <2>1. /\ todo # <<>> /\ todo' = Tail(todo)
          /\ fifo' = fifo \/ fifo' = Append(fifo, Head(todo))
          /\ UNCHANGED <<job, pc, at, str, sent, line, typed, rx>>
      BY <1>3 DEF Put
    <2>2. Len(todo') = Len(todo) - 1 /\ Head(todo) \in Nat
      BY <1>0, <2>1, TextFacts
    <2>3. Len(Append(fifo, Head(todo))) = Len(fifo) + 1
      BY <1>0, <2>2, TextFacts
    <2>4. Len(fifo') \in Nat /\ Len(fifo') <= Len(fifo) + 1
      <3>1. CASE fifo' = fifo
        BY <1>0, <3>1
      <3>2. CASE fifo' = Append(fifo, Head(todo))
        BY <1>0, <2>3, <3>2
      <3> QED BY <2>1, <3>1, <3>2
    <2> QED BY <1>0, <2>1, <2>2, <2>4 DEF CharsLeft, StagesLeft, TurnsLeft, SendsLeft
  <1>4. CASE PrintChar
    <2>1. pc = "print" /\ sent' = sent + 1 /\ UNCHANGED <<pc, str, typed, rx>>
      BY <1>4 DEF PrintChar
    <2> QED BY <1>0, <2>1 DEF CharsLeft, StagesLeft, TurnsLeft
  <1>5. CASE GetChar
    <2>1. rx # <<>> /\ rx' = Tail(rx) /\ typed' = typed
      BY <1>5 DEF GetChar, Take
    <2>2. Len(rx') = Len(rx) - 1
      BY <1>0, <2>1, TextFacts
    <2> QED BY <1>0, <2>1, <2>2 DEF CharsLeft
  <1>6. CASE GetNothing
    <2>1. ~Erases(0) /\ ~EndsLine(0)
      BY DEF Erases, EndsLine, BS, DEL, CR, LF
    <2>2. pc = "read" /\ pc' = "read" /\ line' = Append(line, 0) /\ UNCHANGED <<job, typed, rx>>
      BY <1>6, <2>1 DEF GetNothing, Take, Edited
    <2>3. Len(line') = Len(line) + 1
      BY <1>0, <2>2, TextFacts
    <2> QED BY <1>0, <2>2, <2>3 DEF CharsLeft, StagesLeft, TurnsLeft
  <1> QED BY <1>1, <1>2, <1>3, <1>4, <1>5, <1>6 DEF Program

\* Every step, of the program or at the other end of the line, leaves less to do.
LEMMA StepLeavesLess ==
  ASSUME ConsoleShape, RankTyped, RankTyped', ConsoleNext
  PROVE  \/ CharsLeft' < CharsLeft
         \/ /\ CharsLeft' = CharsLeft
            /\ \/ StagesLeft' < StagesLeft
               \/ StagesLeft' = StagesLeft /\ TurnsLeft' < TurnsLeft
               \/ StagesLeft' = StagesLeft /\ TurnsLeft' = TurnsLeft /\ SendsLeft' < SendsLeft
  <1>0. /\ todo \in Chars /\ fifo \in Chars /\ typed \in Chars /\ rx \in Chars
        /\ Len(typed) \in Nat /\ Len(rx) \in Nat /\ Len(todo) \in Nat /\ Len(fifo) \in Nat
    BY TextFacts DEF ConsoleShape
  <1>1. CASE Program
    BY <1>1, ProgramLeavesLess
  <1>2. CASE Transmit
    <2>1. fifo # <<>> /\ fifo' = Tail(fifo)
          /\ UNCHANGED <<job, pc, at, str, sent, line, todo, typed, rx>>
      BY <1>2 DEF Transmit, programVars
    <2>2. Len(fifo') = Len(fifo) - 1
      BY <1>0, <2>1, TextFacts
    <2> QED BY <1>0, <2>1, <2>2 DEF CharsLeft, StagesLeft, TurnsLeft, SendsLeft
  <1>3. CASE Receive \/ Overrun
    <2>1. /\ typed # <<>> /\ typed' = Tail(typed)
          /\ rx' = rx \/ rx' = Append(rx, Head(typed))
      BY <1>3 DEF Receive, Overrun
    <2>2. Len(typed') = Len(typed) - 1 /\ Head(typed) \in Nat
      BY <1>0, <2>1, TextFacts
    <2>3. Len(Append(rx, Head(typed))) = Len(rx) + 1
      BY <1>0, <2>2, TextFacts
    <2>4. Len(rx') \in Nat /\ Len(rx') <= Len(rx) + 1
      <3>1. CASE rx' = rx
        BY <1>0, <3>1
      <3>2. CASE rx' = Append(rx, Head(typed))
        BY <1>0, <2>3, <3>2
      <3> QED BY <2>1, <3>1, <3>2
    <2> QED BY <1>0, <2>2, <2>4 DEF CharsLeft
  <1> QED BY <1>1, <1>2, <1>3 DEF ConsoleNext

\* No call goes on for ever, for any format, text, buffer, UART and input: each step,
\* of the program or of the line, lowers a rank that cannot be lowered for ever.  So
\* neither a full FIFO nor a key that erases what is typed keeps a call from its end.
\* With the fairness of ConsoleFairness, this is why CallsReturn holds.
THEOREM ConsoleNearsItsEnd ==
  /\ IsWellFoundedOn(RankOrder, Nat \X (Nat \X (Nat \X Nat)))
  /\ ConsoleSpec => [][RankLowered]_consoleVars
  <1>1. IsWellFoundedOn(RankOrder, Nat \X (Nat \X (Nat \X Nat)))
    BY NatLessThanWellFounded, WFLexPairOrdering DEF Less, RankOrder
  <1>2. ASSUME ConsoleShape, RankTyped, RankTyped', [ConsoleNext]_consoleVars
        PROVE  [RankLowered]_consoleVars
    <2> SUFFICES ASSUME ConsoleNext PROVE RankLowered
      BY <1>2
    <2> DEFINE c == CharsLeft  p == StagesLeft  q == TurnsLeft  n == SendsLeft
    <2>1. \/ c' < c
          \/ c' = c /\ p' < p
          \/ c' = c /\ p' = p /\ q' < q
          \/ c' = c /\ p' = p /\ q' = q /\ n' < n
      BY <1>2, StepLeavesLess
    <2> QED BY <1>2, <2>1
            DEF Rank, RankTyped, RankLowered, RankOrder, Less, LexPairOrdering, OpToRel
  <1> QED BY <1>1, <1>2, RankType, ShapeHolds, PTL DEF ConsoleSpec

=============================================================================
