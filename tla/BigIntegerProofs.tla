-------------------------- MODULE BigIntegerProofs --------------------------
(***************************************************************************)
(* Proofs about BigInteger, for numbers and blocks of every size: signed    *)
(* arithmetic computes what it is named for, the quotient rounded down; no  *)
(* call leaves a number that is not normal; so comparison, conversion to    *)
(* primitives and text agree with the integers in every state; and so does  *)
(* every call, which makes BigInteger an implementation of IntegerRegisters.*)
(***************************************************************************)
EXTENDS BigIntegerRefinement, BigUnsignedProductProofs

-----------------------------------------------------------------------------
(* Signs                                                                     *)

\* A number as Normal asks for.
IsNormal(x) ==
  /\ x \in [sign : SignValues, mag : Seq(Blocks)]
  /\ Canonical(x.mag) /\ (x.sign = 0 <=> x.mag = <<>>)

\* The sign of a number is that of the integer it stands for.
LEMMA NormalFacts ==
  ASSUME NEW x, IsNormal(x)
  PROVE  /\ x.sign \in {-1, 0, 1} /\ x.mag \in Seq(Blocks) /\ Canonical(x.mag)
         /\ Value(x.mag) \in Nat
         /\ x.sign = 0 <=> x.mag = <<>>
         /\ x.sign = 0 <=> Value(x.mag) = 0
         /\ x.sign = -1 => Held(x) = -Value(x.mag)
         /\ x.sign = 0 => Held(x) = 0
         /\ x.sign = 1 => Held(x) = Value(x.mag)
         /\ Held(x) \in Int
<1>1. x.sign \in {-1, 0, 1} /\ x.mag \in Seq(Blocks) /\ Canonical(x.mag) /\ (x.sign = 0 <=> x.mag = <<>>)
  BY DEF IsNormal, SignValues
<1>2. Value(x.mag) \in Nat
  BY <1>1, ValueIsFrom
<1>3. x.mag = <<>> => Value(x.mag) = 0
  BY ValueOfFew
<1>4. x.mag # <<>> => Value(x.mag) # 0
  <2> SUFFICES ASSUME x.mag # <<>> PROVE Value(x.mag) # 0
    OBVIOUS
  <2>1. Len(x.mag) - 1 \in Nat /\ Weight(Len(x.mag) - 1) <= Value(x.mag)
    BY <1>1, CanonicalIsLong
  <2>2. Weight(Len(x.mag) - 1) \in Nat \ {0}
    BY <2>1, Weights
  <2> QED
    BY <1>2, <2>1, <2>2
<1> DEFINE v == Value(x.mag)
           s == x.sign
<1>5. Held(x) = s * v /\ v \in Nat /\ s \in {-1, 0, 1}
  BY <1>1, <1>2 DEF Held
<1> HIDE DEF v, s
<1>6. /\ s = -1 => Held(x) = -v
      /\ s = 0 => Held(x) = 0
      /\ s = 1 => Held(x) = v
      /\ Held(x) \in Int
  BY <1>5
<1> QED
  BY <1>1, <1>2, <1>3, <1>4, <1>6 DEF v, s

\* The constructors and the corrections leave a number normal.
LEMMA IntegerFacts ==
  ASSUME NEW m \in Seq(Blocks), Canonical(m), NEW s \in {-1, 0, 1}, s = 0 => m = <<>>
  PROVE  /\ IsNormal(Integer(m, s))
         /\ Held(Integer(m, s)) = s * Value(m)
<1>1. IsNormal(Integer(m, s))
  BY DEF IsNormal, Integer, SignValues
<1>2. CASE m = <<>>
  <2>1. Value(m) = 0
    BY <1>2, ValueOfFew
  <2>2. Held(Integer(m, s)) = 0 * Value(m)
    BY <1>2 DEF Held, Integer
  <2> QED
    BY <1>1, <2>1, <2>2
<1>3. CASE m # <<>>
  BY <1>1, <1>3 DEF Held, Integer
<1> QED
  BY <1>2, <1>3

\* A number with a sign that is not zero, whose magnitude is not zero either.
LEMMA SignedFacts ==
  ASSUME NEW m \in Seq(Blocks), Canonical(m), NEW s \in {-1, 1}, Value(m) # 0
  PROVE  /\ IsNormal([sign |-> s, mag |-> m])
         /\ Held([sign |-> s, mag |-> m]) = s * Value(m)
<1>1. m # <<>>
  BY ValueOfFew
<1>2. Integer(m, s) = [sign |-> s, mag |-> m]
  BY <1>1 DEF Integer
<1>3. s \in {-1, 0, 1} /\ s # 0
  OBVIOUS
<1> QED
  BY <1>2, <1>3, IntegerFacts

\* Zero is normal.
LEMMA ZeroFacts == IsNormal(Zero) /\ Held(Zero) = 0
<1>1. <<>> \in Seq(Blocks)
  OBVIOUS
<1>2. Zero = Integer(<<>>, 0)
  BY DEF Zero, Integer
<1>3. Canonical(<<>>) /\ 0 \in {-1, 0, 1}
  BY DEF Canonical
<1>4. IsNormal(Integer(<<>>, 0)) /\ Held(Integer(<<>>, 0)) = 0 * Value(<<>>)
  BY <1>1, <1>3, IntegerFacts
<1> QED
  BY <1>2, <1>4, ValueOfFew

\* negate() gives the opposite.
LEMMA NegationIsRight ==
  ASSUME NEW x, IsNormal(x)
  PROVE  IsNormal(Negated(x)) /\ Held(Negated(x)) = -Held(x)
<1>1. /\ x.sign \in {-1, 0, 1} /\ x.mag \in Seq(Blocks) /\ Canonical(x.mag)
      /\ Value(x.mag) \in Nat
      /\ x.sign = 0 <=> x.mag = <<>>
  BY NormalFacts
<1>2. x = [sign |-> x.sign, mag |-> x.mag]
  BY DEF IsNormal
<1>3. Negated(x) = [sign |-> -x.sign, mag |-> x.mag]
  BY <1>2 DEF Negated
<1>4. -x.sign \in {-1, 0, 1} /\ (-x.sign = 0 <=> x.sign = 0)
  BY <1>1
<1>5. IsNormal(Negated(x))
  BY <1>1, <1>3, <1>4 DEF IsNormal, SignValues
<1>6. Held(Negated(x)) = (-x.sign) * Value(x.mag) /\ Held(x) = x.sign * Value(x.mag)
  BY <1>3 DEF Held
<1> DEFINE v == Value(x.mag)
           s == x.sign
<1> HIDE DEF v, s
<1>7. s \in {-1, 0, 1} /\ v \in Nat
  BY <1>1 DEF s, v
<1>8. (-s) * v = -(s * v)
  BY <1>7
<1> QED
  BY <1>5, <1>6, <1>8 DEF s, v

\* add() and subtract() compute the sum and the difference.
THEOREM SumIsRight ==
  ASSUME NEW x, NEW y, IsNormal(x), IsNormal(y)
  PROVE  IsNormal(Sum(x, y)) /\ Held(Sum(x, y)) = Held(x) + Held(y)
<1> DEFINE a == Value(x.mag)
           b == Value(y.mag)
           p == Held(x)
           q == Held(y)
<1>1. /\ x.sign \in {-1, 0, 1} /\ x.mag \in Seq(Blocks) /\ Canonical(x.mag)
      /\ a \in Nat
      /\ x.sign = 0 <=> a = 0
      /\ x.sign = -1 => p = -a
      /\ x.sign = 0 => p = 0
      /\ x.sign = 1 => p = a
      /\ p \in Int
  BY NormalFacts
<1>2. /\ y.sign \in {-1, 0, 1} /\ y.mag \in Seq(Blocks) /\ Canonical(y.mag)
      /\ b \in Nat
      /\ y.sign = 0 <=> b = 0
      /\ y.sign = -1 => q = -b
      /\ y.sign = 0 => q = 0
      /\ y.sign = 1 => q = b
      /\ q \in Int
  BY NormalFacts
<1>3. x = [sign |-> x.sign, mag |-> x.mag] /\ y = [sign |-> y.sign, mag |-> y.mag]
  BY DEF IsNormal
<1>4. CASE x.sign = 0
  <2>1. Sum(x, y) = y
    BY <1>4 DEF Sum
  <2> HIDE DEF a, b, p, q
  <2>2. q = p + q
    BY <1>1, <1>2, <1>4
  <2> QED
    BY <2>1, <2>2 DEF p, q
<1>5. CASE x.sign # 0 /\ y.sign = 0
  <2>1. Sum(x, y) = x
    BY <1>5 DEF Sum
  <2> HIDE DEF a, b, p, q
  <2>2. p = p + q
    BY <1>1, <1>2, <1>5
  <2> QED
    BY <2>1, <2>2 DEF p, q
<1>6. CASE x.sign # 0 /\ y.sign # 0 /\ x.sign = y.sign
  <2> DEFINE m == add(x.mag, y.mag)
             v == Value(m)
             s == x.sign
  <2>1. m \in Seq(Blocks) /\ Canonical(m) /\ v = a + b
    BY <1>1, <1>2, AdditionIsRight
  <2>2. Sum(x, y) = [sign |-> s, mag |-> m]
    BY <1>3, <1>6 DEF Sum
  <2>3. s \in {-1, 1}
    BY <1>1, <1>6
  <2> HIDE DEF a, b, m, v
  <2>4. v # 0
    BY <1>1, <1>2, <1>6, <2>1
  <2>5. IsNormal(Sum(x, y)) /\ Held(Sum(x, y)) = s * v
    BY <2>1, <2>2, <2>3, <2>4, SignedFacts DEF v
  <2> HIDE DEF p, q
  <2>6. s * v = p + q
    <3>1. v \in Nat /\ v = a + b
      BY <1>1, <1>2, <2>1
    <3>2. CASE s = 1
      <4>1. s * v = v /\ p = a /\ q = b
        BY <1>1, <1>2, <1>6, <3>1, <3>2
      <4> QED
        BY <3>1, <4>1
    <3>3. CASE s = -1
      <4>1. s * v = -v /\ p = -a /\ q = -b
        BY <1>1, <1>2, <1>6, <3>1, <3>3
      <4> QED
        BY <1>1, <1>2, <3>1, <4>1
    <3> QED
      BY <2>3, <3>2, <3>3
  <2> QED
    BY <2>5, <2>6 DEF p, q
<1>7. CASE x.sign # 0 /\ y.sign # 0 /\ x.sign # y.sign
  <2> DEFINE o == compareTo(x.mag, y.mag)
  <2>1. o = Order(a, b)
    BY <1>1, <1>2, ComparisonIsRight
  <2>2. CASE a = b
    <3>1. o = 0
      BY <1>1, <1>2, <2>1, <2>2 DEF Order
    <3>2. Sum(x, y) = Zero
      BY <1>7, <3>1 DEF Sum
    <3> HIDE DEF a, b, p, q
    <3>3. p + q = 0
      BY <1>1, <1>2, <1>7, <2>2
    <3> QED
      BY <3>2, <3>3, ZeroFacts DEF p, q
  <2>3. CASE a > b
    <3> DEFINE m == subtract(x.mag, y.mag)
               v == Value(m)
               s == x.sign
    <3>1. o = 1
      <4> HIDE DEF o, a, b
      <4> QED
        BY <1>1, <1>2, <2>1, <2>3 DEF Order
    <3>2. Sum(x, y) = [sign |-> s, mag |-> m]
      BY <1>3, <1>7, <3>1 DEF Sum
    <3>3. ~(a < b)
      <4> HIDE DEF a, b
      <4> QED
        BY <1>1, <1>2, <2>3
    <3>4. m \in Seq(Blocks) /\ Canonical(m) /\ v = a - b
      BY <1>1, <1>2, <3>3, SubtractionIsRight
    <3>5. s \in {-1, 1}
      BY <1>1, <1>7
    <3> HIDE DEF a, b, m, v
    <3>6. v # 0
      BY <1>1, <1>2, <2>3, <3>4
    <3>7. IsNormal(Sum(x, y)) /\ Held(Sum(x, y)) = s * v
      BY <3>2, <3>4, <3>5, <3>6, SignedFacts DEF v
    <3> HIDE DEF p, q
    <3>8. s * v = p + q
      <4>1. v \in Int
        BY <1>1, <1>2, <3>4
      <4>2. s = 1 => s * v = v
        BY <4>1
      <4>3. s = -1 => s * v = -v
        BY <4>1
      <4>4. a \in Int /\ b \in Int
        BY <1>1, <1>2
      <4>5. CASE s = 1
        <5>1. p = a /\ q = -b
          BY <1>1, <1>2, <1>7, <4>5
        <5> QED
          BY <3>4, <4>2, <4>4, <4>5, <5>1
      <4>6. CASE s = -1
        <5>1. p = -a /\ q = b
          BY <1>1, <1>2, <1>7, <4>6
        <5> QED
          BY <3>4, <4>3, <4>4, <4>6, <5>1
      <4> QED
        BY <3>5, <4>5, <4>6
    <3> QED
      BY <3>7, <3>8 DEF p, q
  <2>4. CASE a < b
    <3> DEFINE m == subtract(y.mag, x.mag)
               v == Value(m)
               s == y.sign
    <3>1. o = -1
      <4> HIDE DEF o, a, b
      <4> QED
        BY <1>1, <1>2, <2>1, <2>4 DEF Order
    <3>2. Sum(x, y) = [sign |-> s, mag |-> m]
      BY <1>3, <1>7, <3>1 DEF Sum
    <3>3. ~(b < a)
      <4> HIDE DEF a, b
      <4> QED
        BY <1>1, <1>2, <2>4
    <3>4. m \in Seq(Blocks) /\ Canonical(m) /\ v = b - a
      BY <1>1, <1>2, <3>3, SubtractionIsRight
    <3>5. s \in {-1, 1}
      BY <1>2, <1>7
    <3> HIDE DEF a, b, m, v
    <3>6. v # 0
      BY <1>1, <1>2, <2>4, <3>4
    <3>7. IsNormal(Sum(x, y)) /\ Held(Sum(x, y)) = s * v
      BY <3>2, <3>4, <3>5, <3>6, SignedFacts DEF v
    <3> HIDE DEF p, q
    <3>8. s * v = p + q
      <4>1. v \in Int
        BY <1>1, <1>2, <3>4
      <4>2. s = 1 => s * v = v
        BY <4>1
      <4>3. s = -1 => s * v = -v
        BY <4>1
      <4>4. a \in Int /\ b \in Int
        BY <1>1, <1>2
      <4>5. CASE s = 1
        <5>1. p = -a /\ q = b
          BY <1>1, <1>2, <1>7, <4>5
        <5> QED
          BY <3>4, <4>2, <4>4, <4>5, <5>1
      <4>6. CASE s = -1
        <5>1. p = a /\ q = -b
          BY <1>1, <1>2, <1>7, <4>6
        <5> QED
          BY <3>4, <4>3, <4>4, <4>6, <5>1
      <4> QED
        BY <3>5, <4>5, <4>6
    <3> QED
      BY <3>7, <3>8 DEF p, q
  <2>5. a = b \/ a > b \/ a < b
    <3> HIDE DEF a, b
    <3> QED
      BY <1>1, <1>2
  <2> QED
    BY <2>2, <2>3, <2>4, <2>5
<1> QED
  BY <1>4, <1>5, <1>6, <1>7

\* multiply() computes the product.
THEOREM ProductIsRight ==
  ASSUME NEW x, NEW y, IsNormal(x), IsNormal(y)
  PROVE  IsNormal(Product(x, y)) /\ Held(Product(x, y)) = Held(x) * Held(y)
<1> DEFINE a == Value(x.mag)
           b == Value(y.mag)
           p == Held(x)
           q == Held(y)
           c == a * b
<1>1. /\ x.sign \in {-1, 0, 1} /\ x.mag \in Seq(Blocks) /\ Canonical(x.mag)
      /\ a \in Nat
      /\ x.sign = 0 <=> a = 0
      /\ x.sign = -1 => p = -a
      /\ x.sign = 0 => p = 0
      /\ x.sign = 1 => p = a
      /\ p \in Int
  BY NormalFacts
<1>2. /\ y.sign \in {-1, 0, 1} /\ y.mag \in Seq(Blocks) /\ Canonical(y.mag)
      /\ b \in Nat
      /\ y.sign = 0 <=> b = 0
      /\ y.sign = -1 => q = -b
      /\ y.sign = 0 => q = 0
      /\ y.sign = 1 => q = b
      /\ q \in Int
  BY NormalFacts
<1>3. CASE x.sign = 0 \/ y.sign = 0
  <2>1. Product(x, y) = Zero
    BY <1>3 DEF Product
  <2> HIDE DEF a, b, p, q
  <2>2. p * q = 0
    BY <1>1, <1>2, <1>3
  <2> QED
    BY <2>1, <2>2, ZeroFacts DEF p, q
<1>4. CASE x.sign # 0 /\ y.sign # 0
  <2> DEFINE m == multiply(x.mag, y.mag)
             s == IF x.sign = y.sign THEN 1 ELSE -1
  <2>1. m \in Seq(Blocks) /\ Canonical(m) /\ Value(m) = c
    BY <1>1, <1>2, MultiplicationIsRight
  <2>2. Product(x, y) = [sign |-> s, mag |-> m]
    BY <1>4 DEF Product
  <2>3. s \in {-1, 1}
    OBVIOUS
  <2>4. c # 0
    <3> HIDE DEF a, b
    <3>1. a * 1 <= a * b /\ a * 1 = a /\ a * b \in Nat /\ a # 0
      <4>1. a \in Nat /\ b \in Nat /\ 1 \in Nat /\ 1 <= b /\ a # 0
        BY <1>1, <1>2, <1>4
      <4>2. a * 1 <= a * b /\ a * b \in Nat
        BY <4>1, Products
      <4> QED
        BY <4>1, <4>2
    <3> HIDE DEF c
    <3>2. a <= c /\ a \in Nat /\ a # 0 /\ c \in Nat
      BY <1>1, <3>1 DEF c
    <3> QED
      BY <3>2
  <2> HIDE DEF m, c
  <2>5. IsNormal(Product(x, y)) /\ Held(Product(x, y)) = s * c
    BY <2>1, <2>2, <2>3, <2>4, SignedFacts
  <2> HIDE DEF a, b, p, q
  <2>6. s * c = p * q
    <3>1. c \in Nat /\ c = a * b
      BY <1>1, <1>2, Products DEF c
    <3>2. p = a \/ p = -a
      BY <1>1, <1>4
    <3>3. CASE x.sign = 1 /\ y.sign = 1
      BY <1>1, <1>2, <3>1, <3>3
    <3>4. CASE x.sign = -1 /\ y.sign = -1
      <4>1. (-a) * (-b) = a * b
        BY <1>1, <1>2
      <4> QED
        BY <1>1, <1>2, <3>1, <3>4, <4>1
    <3>5. CASE x.sign = 1 /\ y.sign = -1
      <4>1. a * (-b) = -(a * b)
        BY <1>1, <1>2
      <4> QED
        BY <1>1, <1>2, <3>1, <3>5, <4>1
    <3>6. CASE x.sign = -1 /\ y.sign = 1
      <4>1. (-a) * b = -(a * b)
        BY <1>1, <1>2
      <4> QED
        BY <1>1, <1>2, <3>1, <3>6, <4>1
    <3> QED
      BY <1>1, <1>2, <1>4, <3>3, <3>4, <3>5, <3>6
  <2> QED
    BY <2>5, <2>6 DEF p, q
<1> QED
  BY <1>3, <1>4

\* A quotient that is rounded down, and its remainder, which has the sign of
\* the divisor.
RoundsDown(q, r, x, y) ==
  /\ IsNormal(q) /\ IsNormal(r)
  /\ Held(x) = Held(q) * Held(y) + Held(r)
  /\ Held(y) > 0 => 0 <= Held(r) /\ Held(r) < Held(y)
  /\ Held(y) < 0 => Held(y) < Held(r) /\ Held(r) <= 0

\* The arithmetic of the correction, where the signs differ: the dividend less
\* one has been divided.
LEMMA Corrected ==
  ASSUME NEW a \in Nat, NEW b \in Nat, NEW h \in Nat, NEW r \in Nat,
         a - 1 = h * b + r, r < b
  PROVE  /\ b - r - 1 \in Nat /\ b - r - 1 < b
         /\ -a = (-(h + 1)) * b + (b - r - 1)
         /\ a = (-(h + 1)) * (-b) + (-(b - r - 1))
<1> DEFINE c == h * b
<1>1. c \in Nat
  BY Products
<1>2. (-(h + 1)) * b = -c - b
  OBVIOUS
<1>3. (-(h + 1)) * (-b) = c + b
  OBVIOUS
<1>4. a - 1 = c + r
  OBVIOUS
<1> HIDE DEF c
<1>5. -a = (-c - b) + (b - r - 1)
  BY <1>1, <1>4
<1>6. a = (c + b) + (-(b - r - 1))
  BY <1>1, <1>4
<1>7. b - r - 1 \in Nat /\ b - r - 1 < b
  OBVIOUS
<1> QED
  BY <1>2, <1>3, <1>5, <1>6, <1>7

\* divideWithRemainder() rounds the quotient down, for every divisor but zero.
THEOREM DivisionRoundsDown ==
  ASSUME NEW x, NEW y, IsNormal(x), IsNormal(y), y.sign # 0
  PROVE  RoundsDown(Divided(x, y).quotient, Divided(x, y).remainder, x, y)
<1> DEFINE a == Value(x.mag)
           b == Value(y.mag)
           p == Held(x)
           q == Held(y)
<1>1. /\ x.sign \in {-1, 0, 1} /\ x.mag \in Seq(Blocks) /\ Canonical(x.mag)
      /\ a \in Nat
      /\ x.sign = 0 <=> a = 0
      /\ x.sign = 0 <=> x.mag = <<>>
      /\ x.sign = -1 => p = -a
      /\ x.sign = 0 => p = 0
      /\ x.sign = 1 => p = a
      /\ p \in Int
  BY NormalFacts
<1>2. /\ y.sign \in {-1, 1} /\ y.mag \in Seq(Blocks) /\ Canonical(y.mag) /\ y.mag # <<>>
      /\ b \in Nat /\ b # 0
      /\ y.sign = -1 => q = -b
      /\ y.sign = 1 => q = b
      /\ q \in Int
  BY NormalFacts
<1>3. CASE x.sign = 0
  <2>1. Divided(x, y) = [quotient |-> Zero, remainder |-> x]
    BY <1>3 DEF Divided
  <2>2. Divided(x, y).quotient = Zero /\ Divided(x, y).remainder = x
    BY <2>1
  <2>3. Held(x) = Held(Zero) * Held(y) + Held(x) /\ Held(x) = 0
    BY <1>1, <1>2, <1>3, ZeroFacts
  <2>4. /\ Held(y) > 0 => 0 <= Held(x) /\ Held(x) < Held(y)
        /\ Held(y) < 0 => Held(y) < Held(x) /\ Held(x) <= 0
    BY <1>2, <2>3
  <2>5. IsNormal(Zero) /\ IsNormal(x)
    BY ZeroFacts
  <2> QED
    BY <2>2, <2>3, <2>4, <2>5 DEF RoundsDown
<1>4. CASE x.sign # 0 /\ x.sign = y.sign
  <2> DEFINE d == divideWithRemainder(x.mag, y.mag)
             h == Value(d.quotient)
             r == Value(d.remainder)
             Q == Integer(d.quotient, 1)
             R == Integer(d.remainder, y.sign)
  <2>1. /\ d.quotient \in Seq(Blocks) /\ Canonical(d.quotient)
        /\ d.remainder \in Seq(Blocks) /\ Canonical(d.remainder)
        /\ a = h * b + r
        /\ r < b
    BY <1>1, <1>2, DivisionIsRight
  <2>2. Divided(x, y) = [quotient |-> Q, remainder |-> R]
    BY <1>2, <1>4 DEF Divided
  <2>3. Divided(x, y).quotient = Q /\ Divided(x, y).remainder = R
    BY <2>2
  <2>4. h \in Nat /\ r \in Nat
    BY <2>1, ValueIsFrom
  <2>5. IsNormal(Q) /\ Held(Q) = 1 * h
    <3>1. 1 \in {-1, 0, 1} /\ 1 # 0
      OBVIOUS
    <3> QED
      BY <2>1, <3>1, IntegerFacts
  <2>6. IsNormal(R) /\ Held(R) = y.sign * r
    <3>1. y.sign \in {-1, 0, 1} /\ y.sign # 0
      BY <1>2
    <3> QED
      BY <2>1, <3>1, IntegerFacts
  <2> DEFINE s == y.sign
  <2> HIDE DEF d, h, r, Q, R, a, b, p, q, s
  <2>7. Held(Q) = h
    BY <2>4, <2>5
  <2>8. /\ p = Held(Q) * q + Held(R)
        /\ q > 0 => 0 <= Held(R) /\ Held(R) < q
        /\ q < 0 => q < Held(R) /\ Held(R) <= 0
    <3> DEFINE c == h * b
    <3>0. c \in Nat /\ a = c + r
      BY <1>2, <2>1, <2>4, Products
    <3>1. CASE y.sign = 1
      <4>1. Held(R) = r /\ q = b /\ p = a
        BY <1>1, <1>2, <1>4, <2>4, <2>6, <3>1
      <4> QED
        BY <1>2, <2>1, <2>4, <2>7, <4>1
    <3>2. CASE y.sign = -1
      <4>1. Held(R) = -r /\ q = -b /\ p = -a
        BY <1>1, <1>2, <1>4, <2>4, <2>6, <3>2
      <4>2. h * (-b) = -c
        BY <1>2, <2>4
      <4> HIDE DEF c
      <4>3. p = h * q + Held(R)
        BY <2>4, <3>0, <4>1, <4>2
      <4> QED
        BY <1>2, <2>1, <2>4, <2>7, <4>1, <4>3
    <3> QED
      BY <1>2, <3>1, <3>2
  <2> QED
    BY <2>3, <2>5, <2>6, <2>8 DEF RoundsDown, p, q
<1>5. CASE x.sign # 0 /\ x.sign # y.sign
  <2> DEFINE x1 == decrement(x.mag)
             d == divideWithRemainder(x1, y.mag)
             h == Value(d.quotient)
             r == Value(d.remainder)
             q1 == increment(d.quotient)
             r0 == subtract(y.mag, d.remainder)
             r1 == decrement(r0)
             Q == Integer(q1, -1)
             R == Integer(r1, y.sign)
  <2>1. x1 \in Seq(Blocks) /\ Canonical(x1) /\ Value(x1) = a - 1
    BY <1>1, <1>5, DecrementIsRight
  <2>2. /\ d.quotient \in Seq(Blocks) /\ Canonical(d.quotient)
        /\ d.remainder \in Seq(Blocks) /\ Canonical(d.remainder)
        /\ a - 1 = h * b + r
        /\ r < b
    BY <1>2, <2>1, DivisionIsRight
  <2>3. Divided(x, y) = [quotient |-> Q, remainder |-> R]
    BY <1>2, <1>5 DEF Divided
  <2>4. Divided(x, y).quotient = Q /\ Divided(x, y).remainder = R
    BY <2>3
  <2>5. h \in Nat /\ r \in Nat
    BY <2>2, ValueIsFrom
  <2>6. q1 \in Seq(Blocks) /\ Canonical(q1) /\ Value(q1) = h + 1
    BY <2>2, IncrementIsRight
  <2>7. r0 \in Seq(Blocks) /\ Canonical(r0) /\ Value(r0) = b - r
    <3>1. ~(b < r)
      <4> HIDE DEF b, r
      <4> QED
        BY <1>2, <2>2, <2>5
    <3> QED
      BY <1>2, <2>2, <3>1, SubtractionIsRight
  <2>8. r0 # <<>>
    <3>1. Value(r0) # 0
      <4> HIDE DEF b, r, r0
      <4> QED
        BY <1>2, <2>2, <2>5, <2>7
    <3> QED
      BY <3>1, ValueOfFew
  <2>9. r1 \in Seq(Blocks) /\ Canonical(r1) /\ Value(r1) = b - r - 1
    BY <2>7, <2>8, DecrementIsRight
  <2>10. IsNormal(Q) /\ Held(Q) = (-1) * (h + 1)
    <3>1. -1 \in {-1, 0, 1} /\ -1 # 0
      OBVIOUS
    <3> HIDE DEF q1, h
    <3> QED
      BY <2>6, <3>1, IntegerFacts
  <2> DEFINE t == b - r - 1
  <2>11. IsNormal(R) /\ Held(R) = y.sign * t
    <3>1. y.sign \in {-1, 0, 1} /\ y.sign # 0
      BY <1>2
    <3> HIDE DEF r1, b, r
    <3> QED
      BY <2>9, <3>1, IntegerFacts
  <2> HIDE DEF x1, d, h, r, q1, r0, r1, Q, R, a, b, p, q
  <2>12. Held(Q) = -(h + 1)
    BY <2>5, <2>10
  <2>13. /\ t \in Nat /\ t < b
         /\ -a = (-(h + 1)) * b + t
         /\ a = (-(h + 1)) * (-b) + (-t)
    BY <1>1, <1>2, <2>2, <2>5, Corrected
  <2>14. /\ p = Held(Q) * q + Held(R)
         /\ q > 0 => 0 <= Held(R) /\ Held(R) < q
         /\ q < 0 => q < Held(R) /\ Held(R) <= 0
    <3> HIDE DEF t
    <3>1. CASE y.sign = 1
      <4>1. Held(R) = t /\ q = b /\ p = -a
        BY <1>1, <1>2, <1>5, <2>11, <2>13, <3>1
      <4>2. p = Held(Q) * q + Held(R)
        BY <2>12, <2>13, <4>1, Zenon
      <4> QED
        BY <1>2, <2>13, <4>1, <4>2
    <3>2. CASE y.sign = -1
      <4>1. Held(R) = -t /\ q = -b /\ p = a
        BY <1>1, <1>2, <1>5, <2>11, <2>13, <3>2
      <4>2. p = Held(Q) * q + Held(R)
        BY <2>12, <2>13, <4>1, Zenon
      <4> QED
        BY <1>2, <2>13, <4>1, <4>2
    <3> QED
      BY <1>2, <3>1, <3>2
  <2> QED
    BY <2>4, <2>10, <2>11, <2>14 DEF RoundsDown, p, q
<1> QED
  BY <1>3, <1>4, <1>5

\* operator ++ and operator -- count up and down, through zero.
THEOREM StepIsRight ==
  ASSUME NEW x, IsNormal(x), NEW s \in {-1, 1}
  PROVE  IsNormal(Stepped(x, s)) /\ Held(Stepped(x, s)) = Held(x) + s
<1> DEFINE a == Value(x.mag)
           p == Held(x)
<1>1. /\ x.sign \in {-1, 0, 1} /\ x.mag \in Seq(Blocks) /\ Canonical(x.mag)
      /\ a \in Nat
      /\ x.sign = 0 <=> a = 0
      /\ x.sign = 0 <=> x.mag = <<>>
      /\ x.sign = -1 => p = -a
      /\ x.sign = 0 => p = 0
      /\ x.sign = 1 => p = a
      /\ p \in Int
  BY NormalFacts
<1>2. CASE x.sign = -s
  <2> DEFINE m == decrement(x.mag)
             v == Value(m)
             e == x.sign
  <2>1. e \in {-1, 0, 1} /\ e # 0
    BY <1>1, <1>2
  <2>2. m \in Seq(Blocks) /\ Canonical(m) /\ v = a - 1
    BY <1>1, <2>1, DecrementIsRight
  <2>3. Stepped(x, s) = Integer(m, e)
    BY <1>2 DEF Stepped
  <2>4. IsNormal(Integer(m, e)) /\ Held(Integer(m, e)) = e * v
    BY <2>1, <2>2, IntegerFacts
  <2> HIDE DEF m, v, a, p
  <2>5. e * v = p + s
    <3>1. CASE s = 1
      BY <1>1, <1>2, <2>2, <3>1
    <3>2. CASE s = -1
      BY <1>1, <1>2, <2>2, <3>2
    <3> QED
      BY <3>1, <3>2
  <2> QED
    BY <2>3, <2>4, <2>5 DEF p
<1>3. CASE x.sign # -s
  <2> DEFINE m == increment(x.mag)
             v == Value(m)
  <2>1. m \in Seq(Blocks) /\ Canonical(m) /\ v = a + 1
    BY <1>1, IncrementIsRight
  <2>2. Stepped(x, s) = [sign |-> s, mag |-> m]
    BY <1>3 DEF Stepped
  <2> HIDE DEF m, v, a
  <2>3. v # 0
    BY <1>1, <2>1
  <2>4. IsNormal(Stepped(x, s)) /\ Held(Stepped(x, s)) = s * v
    BY <2>1, <2>2, <2>3, SignedFacts DEF v
  <2> HIDE DEF p
  <2>5. s * v = p + s
    <3>1. CASE s = 1
      BY <1>1, <1>3, <2>1, <3>1
    <3>2. CASE s = -1
      BY <1>1, <1>3, <2>1, <3>2
    <3> QED
      BY <3>1, <3>2
  <2> QED
    BY <2>4, <2>5 DEF p
<1> QED
  BY <1>2, <1>3

-----------------------------------------------------------------------------
(* Sums over sets                                                            *)

\* The sums of g over the subsets of S, as MapThenSumSet computes them.
AreSums(f, g, S) ==
  f = [s \in SUBSET S |->
         IF s = {} THEN 0
         ELSE g[CHOOSE x \in s : TRUE] + f[s \ {CHOOSE x \in s : TRUE}]]

\* They exist.
LEMMA SumsExist ==
  ASSUME NEW S, IsFiniteSet(S), NEW g \in [S -> Nat]
  PROVE  \E f : AreSums(f, g, S)
<1> DEFINE C == [s \in SUBSET S |-> CHOOSE x \in s : TRUE]
           G == [x \in S |-> [n \in Nat |-> g[x] + n]]
<1>1. \A s \in SUBSET S : s # {} => C[s] \in s
  OBVIOUS
<1>2. G \in [S -> [Nat -> Nat]]
  OBVIOUS
<1>3. \A s \in SUBSET S : C[s] = CHOOSE x \in s : TRUE
  OBVIOUS
<1>4. \A x \in S, n \in Nat : G[x][n] = g[x] + n
  OBVIOUS
<1> HIDE DEF C, G
<1>5. PICK f \in [SUBSET S -> Nat] : IsFold(f, S, C, 0, G)
  BY <1>1, <1>2, FoldExists, 0 \in Nat
<1>6. ASSUME NEW s \in SUBSET S
      PROVE  f[s] = IF s = {} THEN 0
                    ELSE g[CHOOSE x \in s : TRUE] + f[s \ {CHOOSE x \in s : TRUE}]
  <2>1. CASE s = {}
    BY <1>5, <2>1 DEF IsFold
  <2>2. CASE s # {}
    <3> DEFINE x == C[s]
    <3>1. x \in S /\ s \ {x} \in SUBSET S
      BY <1>1, <2>2
    <3>2. f[s] = G[x][f[s \ {x}]] /\ f[s \ {x}] \in Nat
      BY <1>5, <2>2, <3>1 DEF IsFold
    <3>3. f[s] = g[x] + f[s \ {x}]
      BY <1>4, <3>1, <3>2
    <3> QED
      BY <1>3, <2>2, <3>3
  <2> QED
    BY <2>1, <2>2
<1>7. f = [s \in SUBSET S |->
             IF s = {} THEN 0
             ELSE g[CHOOSE x \in s : TRUE] + f[s \ {CHOOSE x \in s : TRUE}]]
  BY <1>6
<1> QED
  BY <1>7 DEF AreSums

\* The sums of g, in whichever order the elements are taken.
AddUp(f, g, S) ==
  /\ f[{}] = 0
  /\ \A s \in SUBSET S : f[s] \in Nat
  /\ \A s \in SUBSET S : \A c \in s : f[s] = g[c] + f[s \ {c}]

\* They are the same in whichever order the elements are taken.
LEMMA SumsAdd ==
  ASSUME NEW S, IsFiniteSet(S), NEW g \in [S -> Nat], NEW f, AreSums(f, g, S)
  PROVE  AddUp(f, g, S)
<1> DEFINE Adds(s) == f[s] \in Nat /\ \A c \in s : f[s] = g[c] + f[s \ {c}]
           T == {m \in Nat : \A s \in SUBSET S : Cardinality(s) <= m => Adds(s)}
<1>1. ASSUME NEW s \in SUBSET S
      PROVE  IsFiniteSet(s) /\ Cardinality(s) \in Nat /\ (Cardinality(s) = 0 <=> s = {})
  <2>1. IsFiniteSet(s)
    BY FS_Subset
  <2> QED
    BY <2>1, FS_EmptySet, FS_CardinalityType
<1>2. ASSUME NEW s \in SUBSET S, NEW c \in s
      PROVE  c \in S /\ s \ {c} \in SUBSET S /\ Cardinality(s \ {c}) = Cardinality(s) - 1
  BY <1>1, FS_RemoveElement
<1>3. ASSUME NEW s \in SUBSET S, s # {}
      PROVE  \E x \in s : f[s] = g[x] + f[s \ {x}]
  <2>1. (CHOOSE x \in s : TRUE) \in s
    BY <1>3
  <2>2. f[s] = g[CHOOSE x \in s : TRUE] + f[s \ {CHOOSE x \in s : TRUE}]
    BY <1>3 DEF AreSums
  <2> QED
    BY <2>1, <2>2
<1>4. f[{}] = 0
  <2>1. {} \in SUBSET S
    OBVIOUS
  <2> QED
    BY <2>1 DEF AreSums
<1>5. 0 \in T
  <2>1. ASSUME NEW s \in SUBSET S, Cardinality(s) <= 0 PROVE Adds(s)
    <3>1. s = {}
      BY <1>1, <2>1
    <3> QED
      BY <1>4, <3>1
  <2> HIDE DEF Adds
  <2> QED
    BY <2>1
<1>6. ASSUME NEW m \in T PROVE m + 1 \in T
  <2>1. \A s \in SUBSET S : Cardinality(s) <= m => Adds(s)
    <3> HIDE DEF Adds
    <3> QED
      OBVIOUS
  <2>2. ASSUME NEW s \in SUBSET S, Cardinality(s) <= m + 1 PROVE Adds(s)
    <3>1. CASE s = {}
      BY <1>4, <3>1
    <3>2. CASE s # {}
      <4>1. PICK x \in s : f[s] = g[x] + f[s \ {x}]
        BY <1>3, <3>2
      <4>2. ASSUME NEW c \in s PROVE Adds(s \ {c})
        <5>1. s \ {c} \in SUBSET S /\ Cardinality(s \ {c}) <= m
          BY <1>1, <1>2, <2>2
        <5> HIDE DEF Adds
        <5> QED
          BY <2>1, <5>1
      <4>3. x \in S /\ g[x] \in Nat /\ f[s \ {x}] \in Nat
        BY <4>2
      <4>4. ASSUME NEW c \in s PROVE f[s] = g[c] + f[s \ {c}]
        <5>1. CASE c = x
          BY <4>1, <5>1
        <5>2. CASE c # x
          <6> DEFINE r == s \ {c, x}
          <6>1. (s \ {c}) \ {x} = r /\ (s \ {x}) \ {c} = r
            OBVIOUS
          <6>2. c \in s \ {x} /\ x \in s \ {c}
            BY <5>2
          <6>3. f[s \ {x}] = g[c] + f[r]
            BY <4>2, <6>1, <6>2
          <6>4. f[s \ {c}] = g[x] + f[r]
            BY <4>2, <6>1, <6>2
          <6>5. f[r] \in Nat
            <7>1. r \in SUBSET S /\ Cardinality(r) <= m
              <8>1. s \ {c} \in SUBSET S /\ Cardinality(s \ {c}) = Cardinality(s) - 1
                BY <1>2
              <8>2. r \in SUBSET S /\ Cardinality(r) = Cardinality(s \ {c}) - 1
                BY <1>2, <6>1, <6>2, <8>1
              <8>3. Cardinality(s) \in Nat
                BY <1>1
              <8> HIDE DEF r
              <8> QED
                BY <2>2, <8>1, <8>2, <8>3
            <7> HIDE DEF r, Adds
            <7>2. Adds(r)
              BY <2>1, <7>1
            <7> QED
              BY <7>2 DEF Adds
          <6> HIDE DEF r
          <6>6. g[c] \in Nat
            OBVIOUS
          <6> QED
            BY <4>1, <4>3, <6>3, <6>4, <6>5, <6>6
        <5> QED
          BY <5>1, <5>2
      <4>5. f[s] \in Nat
        BY <4>1, <4>3
      <4> QED
        BY <4>4, <4>5
    <3> QED
      BY <3>1, <3>2
  <2> HIDE DEF Adds
  <2> QED
    BY <2>2
<1> HIDE DEF Adds
<1>7. T = Nat
  <2> HIDE DEF T
  <2>1. T \in SUBSET Nat
    BY DEF T
  <2> QED
    BY <1>5, <1>6, <2>1, Induct
<1>8. ASSUME NEW s \in SUBSET S PROVE Adds(s)
  <2>1. Cardinality(s) \in T
    BY <1>1, <1>7
  <2>2. Cardinality(s) <= Cardinality(s)
    BY <1>1
  <2> QED
    BY <2>1, <2>2
<1> QED
  BY <1>4, <1>8 DEF Adds, AddUp

\* The intervals over which the digits are summed.
LEMMA Beginnings ==
  ASSUME NEW n \in Nat, NEW m \in 0 .. n - 1
  PROVE  /\ 0 .. m \in SUBSET (0 .. n - 1) /\ m \in 0 .. m
         /\ (0 .. m) \ {m} = 0 .. m - 1 /\ 0 .. m - 1 \in SUBSET (0 .. n - 1)
  OBVIOUS

\* Digits that are less than a radix stand for a number that fits into as many
\* digits.
LEMMA DigitsFit ==
  ASSUME NEW n \in Nat, NEW r \in Nat \ {0}, NEW w,
         \A i \in 0 .. n : w[i] \in Nat,
         w[0] = 1, \A i \in 0 .. n - 1 : w[i + 1] = r * w[i],
         NEW d \in [0 .. n - 1 -> 0 .. r - 1],
         NEW f, AreSums(f, [i \in 0 .. n - 1 |-> d[i] * w[i]], 0 .. n - 1)
  PROVE  f[0 .. n - 1] \in Nat /\ f[0 .. n - 1] < w[n]
<1> DEFINE S == 0 .. n - 1
           g == [i \in S |-> d[i] * w[i]]
<1>1. IsFiniteSet(S)
  BY FS_Interval
<1>2. g \in [S -> Nat]
  <2>1. ASSUME NEW i \in S PROVE d[i] * w[i] \in Nat
    <3>1. d[i] \in Nat /\ w[i] \in Nat
      OBVIOUS
    <3> QED
      BY <3>1, Products
  <2> QED
    BY <2>1
<1>3. /\ f[{}] = 0
      /\ \A s \in SUBSET S : f[s] \in Nat
      /\ \A s \in SUBSET S : \A c \in s : f[s] = g[c] + f[s \ {c}]
  <2> HIDE DEF S
  <2>1. AreSums(f, g, S)
    BY DEF S
  <2> HIDE DEF g
  <2>2. AddUp(f, g, S)
    BY <1>1, <1>2, <2>1, SumsAdd
  <2> QED
    BY <2>2 DEF AddUp
<1>4. 0 .. 0 - 1 = {}
  OBVIOUS
<1>5. f[0 .. 0 - 1] < w[0]
  BY <1>3, <1>4
<1>6. ASSUME NEW m \in 0 .. n - 1, f[0 .. m - 1] < w[m] PROVE f[0 .. m] < w[m + 1]
  <2>1. /\ 0 .. m \in SUBSET S /\ m \in 0 .. m /\ (0 .. m) \ {m} = 0 .. m - 1
        /\ 0 .. m - 1 \in SUBSET S
    BY Beginnings
  <2>2. f[0 .. m] = g[m] + f[0 .. m - 1] /\ f[0 .. m - 1] \in Nat
    <3> DEFINE t == 0 .. m
               u == 0 .. m - 1
    <3> HIDE DEF S, g, t, u
    <3>1. t \in SUBSET S /\ m \in t /\ t \ {m} = u /\ u \in SUBSET S
      BY <2>1 DEF t, u
    <3>2. f[t] = g[m] + f[u] /\ f[u] \in Nat
      BY <1>3, <3>1
    <3> QED
      BY <3>2 DEF t, u
  <2>3. g[m] = d[m] * w[m]
    OBVIOUS
  <2>4. d[m] \in Nat /\ d[m] < r /\ w[m] \in Nat /\ w[m + 1] = r * w[m]
    OBVIOUS
  <2>5. w[m] * d[m] + w[m] <= w[m] * r /\ w[m] * d[m] = d[m] * w[m] /\ w[m] * r = r * w[m]
        /\ w[m] * d[m] \in Nat /\ w[m] * r \in Nat
    BY <2>4, Products
  <2> DEFINE a == d[m] * w[m]
             b == r * w[m]
             c == f[0 .. m - 1]
             v == w[m]
  <2>6. a + w[m] <= b /\ a \in Nat /\ b \in Nat /\ f[0 .. m] = a + c /\ c < w[m] /\ c \in Nat /\ w[m + 1] = b
    BY <1>6, <2>2, <2>3, <2>4, <2>5
  <2>7. a + v <= b /\ a \in Nat /\ b \in Nat /\ c < v /\ c \in Nat /\ v \in Nat
    BY <2>4, <2>6
  <2> HIDE DEF a, b, c, v
  <2>8. a + c < b
    BY <2>7
  <2> QED
    BY <2>6, <2>8
<1> DEFINE Q == {m \in Nat : m <= n => f[0 .. m - 1] < w[m]}
<1>7. 0 \in Q
  BY <1>5
<1>8. ASSUME NEW m \in Q PROVE m + 1 \in Q
  <2>1. CASE m + 1 <= n
    <3>1. m \in 0 .. n - 1 /\ f[0 .. m - 1] < w[m] /\ (m + 1) - 1 = m
      BY <2>1
    <3>2. f[0 .. m] < w[m + 1]
      BY <1>6, <3>1
    <3>3. f[0 .. (m + 1) - 1] < w[m + 1]
      BY <3>1, <3>2, Zenon
    <3>4. m + 1 \in Nat
      OBVIOUS
    <3> QED
      BY <3>3, <3>4
  <2>2. CASE ~(m + 1 <= n)
    BY <2>2
  <2> QED
    BY <2>1, <2>2
<1>9. Q = Nat
  <2>1. Q \in SUBSET Nat
    OBVIOUS
  <2> HIDE DEF Q
  <2> QED
    BY <1>7, <1>8, <2>1, Induct
<1>10. n \in Q /\ n <= n
  <2> HIDE DEF Q
  <2> QED
    BY <1>9
<1>11. f[0 .. n - 1] < w[n]
  BY <1>10
<1>12. f[S] \in Nat
  <2>1. S \in SUBSET S
    OBVIOUS
  <2> HIDE DEF S
  <2> QED
    BY <1>3, <2>1
<1> QED
  BY <1>11, <1>12

-----------------------------------------------------------------------------
(* Numbers of digits                                                         *)

\* The number that the digits after the k-th stand for, in a radix.
NumberFrom(d, r, k) == IF k <= Len(d) THEN Tails(d, r)[k] ELSE 0

\* Those of digits and of blocks are found in the same way.
LEMMA NumberFromFacts ==
  ASSUME NEW d \in Seq(Nat), NEW r \in Nat, NEW k \in Nat
  PROVE  /\ NumberFrom(d, r, k) \in Nat
         /\ k >= Len(d) => NumberFrom(d, r, k) = 0
         /\ NumberFrom(d, r, k) = Block(d, k + 1) + r * NumberFrom(d, r, k + 1)
<1> DEFINE n == Len(d)
<1>1. n \in Nat /\ DOMAIN d = 1 .. n
  OBVIOUS
<1>2. /\ \A j \in 0 .. n : Tails(d, r)[j] \in Nat
      /\ Tails(d, r)[n] = 0
      /\ \A j \in 0 .. n - 1 : Tails(d, r)[j] = d[j + 1] + r * Tails(d, r)[j + 1]
  BY TailsFacts
<1> HIDE DEF n
<1>3. NumberFrom(d, r, k) \in Nat
  BY <1>1, <1>2 DEF NumberFrom, n
<1>4. k >= n => NumberFrom(d, r, k) = 0
  BY <1>1, <1>2 DEF NumberFrom, n
<1>5. NumberFrom(d, r, k) = Block(d, k + 1) + r * NumberFrom(d, r, k + 1)
  <2>1. CASE k \in 0 .. n - 1
    <3>1. k + 1 \in 1 .. n /\ k <= n /\ k + 1 <= n
      BY <1>1, <2>1
    <3>2. Block(d, k + 1) = d[k + 1]
      BY <1>1, <3>1 DEF Block
    <3>3. NumberFrom(d, r, k) = Tails(d, r)[k] /\ NumberFrom(d, r, k + 1) = Tails(d, r)[k + 1]
      BY <3>1 DEF NumberFrom, n
    <3>4. Tails(d, r)[k] = d[k + 1] + r * Tails(d, r)[k + 1]
      BY <1>2, <2>1
    <3> QED
      BY <3>2, <3>3, <3>4, Zenon
  <2>2. CASE k >= n
    <3>1. k + 1 \notin 1 .. n /\ ~(k + 1 <= n)
      BY <1>1, <2>2
    <3>2. Block(d, k + 1) = 0
      BY <1>1, <3>1 DEF Block
    <3>3. NumberFrom(d, r, k + 1) = 0
      BY <3>1 DEF NumberFrom, n
    <3>4. 0 + r * 0 = 0
      OBVIOUS
    <3> QED
      BY <1>4, <2>2, <3>2, <3>3, <3>4, Zenon
  <2>3. k \in 0 .. n - 1 \/ k >= n
    BY <1>1
  <2> QED
    BY <2>1, <2>2, <2>3
<1> QED
  BY <1>3, <1>4, <1>5 DEF n

\* The abstract number of some digits is the one from the first on.
LEMMA NumberOfDigits ==
  ASSUME NEW d, NEW r, Len(d) \in Nat
  PROVE  Abstract!NumberOf(d, r) = NumberFrom(d, r, 0)
<1>1. 0 <= Len(d)
  OBVIOUS
<1> QED
  BY <1>1 DEF Abstract!NumberOf, NumberFrom, Tails

\* The value of blocks is found so too.
LEMMA NumberOfBlocks ==
  ASSUME NEW x \in Seq(Blocks), NEW k \in Nat
  PROVE  From(x, k) = NumberFrom(x, Base, k)
<1>1. Values(x) = Tails(x, Base)
  BY DEF Values, Tails
<1> QED
  BY <1>1, Zenon DEF From, NumberFrom

\* Zeros that lead do not count.
LEMMA SameDigits ==
  ASSUME NEW x \in Seq(Nat), NEW y \in Seq(Nat), NEW r \in Nat,
         \A k \in Nat : Block(x, k) = Block(y, k)
  PROVE  NumberFrom(x, r, 0) = NumberFrom(y, r, 0)
<1> PICK n \in Nat : n >= Len(x) /\ n >= Len(y)
  <2>1. Len(x) \in Nat /\ Len(y) \in Nat
    OBVIOUS
  <2> QED
    BY <2>1, Len(x) + Len(y) \in Nat
<1> DEFINE S == {k \in 0 .. n : NumberFrom(x, r, k) = NumberFrom(y, r, k)}
<1>1. n \in S
  BY NumberFromFacts
<1>2. ASSUME NEW k \in 0 .. n - 1, k + 1 \in S PROVE k \in S
  <2>1. k \in Nat /\ k + 1 \in Nat /\ k \in 0 .. n
    OBVIOUS
  <2>2. NumberFrom(x, r, k + 1) = NumberFrom(y, r, k + 1)
    BY <1>2
  <2>3. Block(x, k + 1) = Block(y, k + 1)
    BY <2>1
  <2>4. /\ NumberFrom(x, r, k) = Block(x, k + 1) + r * NumberFrom(x, r, k + 1)
        /\ NumberFrom(y, r, k) = Block(y, k + 1) + r * NumberFrom(y, r, k + 1)
    BY <2>1, NumberFromFacts
  <2>5. NumberFrom(x, r, k) = NumberFrom(y, r, k)
    BY <2>2, <2>3, <2>4, Zenon
  <2> QED
    BY <2>1, <2>5
<1>3. \A k \in 0 .. n : k \in S
  <2> HIDE DEF S
  <2>1. S \in SUBSET (0 .. n)
    BY DEF S
  <2> QED
    BY <1>1, <1>2, <2>1, InductDown
<1> QED
  BY <1>3

\* Nor do those that zapLeadingZeros() drops.
LEMMA ZapKeepsNumber ==
  ASSUME NEW d \in Seq(Nat), NEW r \in Nat
  PROVE  /\ zapLeadingZeros(d) \in Seq(Nat)
         /\ NumberFrom(zapLeadingZeros(d), r, 0) = NumberFrom(d, r, 0)
<1> DEFINE z == zapLeadingZeros(d)
<1> HIDE DEF z
<1>1. z \in Seq(Nat) /\ \A k \in Nat : Block(z, k) = Block(d, k)
  BY ZapDigits DEF z
<1>2. NumberFrom(z, r, 0) = NumberFrom(d, r, 0)
  BY <1>1, SameDigits, Zenon
<1> QED
  BY <1>1, <1>2 DEF z

\* Digits, the weights of their places, and the numbers from each place on.
IsRead(n, r, w, d, u) ==
  /\ w[0] = 1
  /\ \A i \in 0 .. n : w[i] \in Nat /\ u[i] \in Nat
  /\ \A i \in 0 .. n - 1 : /\ d[i] \in Nat
                           /\ w[i + 1] = r * w[i]
                           /\ u[i] = d[i] + r * u[i + 1]

\* A number is the sum of its first weighted digits and of what follows them.
LEMMA SumOfDigits ==
  ASSUME NEW n \in Nat, NEW r \in Nat, NEW w, NEW d, NEW u, IsRead(n, r, w, d, u),
         NEW f, AreSums(f, [i \in 0 .. n - 1 |-> d[i] * w[i]], 0 .. n - 1)
  PROVE  u[0] = f[0 .. n - 1] + w[n] * u[n]
<1>0. /\ w[0] = 1
      /\ \A i \in 0 .. n : w[i] \in Nat /\ u[i] \in Nat
      /\ \A i \in 0 .. n - 1 : d[i] \in Nat /\ w[i + 1] = r * w[i] /\ u[i] = d[i] + r * u[i + 1]
  BY DEF IsRead
<1> DEFINE S == 0 .. n - 1
           g == [i \in S |-> d[i] * w[i]]
<1>1. IsFiniteSet(S)
  BY FS_Interval
<1>2. g \in [S -> Nat]
  <2>1. ASSUME NEW i \in S PROVE d[i] * w[i] \in Nat
    <3>1. d[i] \in Nat /\ w[i] \in Nat
      BY <1>0
    <3> QED
      BY <3>1, Products
  <2> QED
    BY <2>1
<1>3. /\ f[{}] = 0
      /\ \A s \in SUBSET S : f[s] \in Nat
      /\ \A s \in SUBSET S : \A c \in s : f[s] = g[c] + f[s \ {c}]
  <2> HIDE DEF S
  <2>1. AreSums(f, g, S)
    BY DEF S
  <2> HIDE DEF g
  <2>2. AddUp(f, g, S)
    BY <1>1, <1>2, <2>1, SumsAdd
  <2> QED
    BY <2>2 DEF AddUp
<1> DEFINE F(m) == f[0 .. m - 1]
           Right(m) == F(m) \in Nat /\ u[0] = F(m) + w[m] * u[m]
<1>4. Right(0)
  <2>1. F(0) = 0
    <3>1. 0 .. 0 - 1 = {}
      OBVIOUS
    <3> QED
      BY <1>3, <3>1
  <2>2. w[0] * u[0] = u[0] /\ u[0] \in Nat
    BY <1>0
  <2> HIDE DEF F
  <2> QED
    BY <2>1, <2>2
<1>5. ASSUME NEW m \in 0 .. n - 1, Right(m) PROVE Right(m + 1)
  <2>1. /\ 0 .. m \in SUBSET S /\ m \in 0 .. m /\ (0 .. m) \ {m} = 0 .. m - 1
        /\ 0 .. m - 1 \in SUBSET S
    BY Beginnings
  <2>2. F(m + 1) = g[m] + F(m)
    <3> DEFINE t == 0 .. m
               s == 0 .. m - 1
    <3>0. F(m + 1) = f[t] /\ F(m) = f[s]
      <4>1. (m + 1) - 1 = m
        OBVIOUS
      <4> QED
        BY <4>1
    <3> HIDE DEF S, g, t, s, F
    <3>1. t \in SUBSET S /\ m \in t /\ t \ {m} = s
      BY <2>1 DEF t, s
    <3>2. f[t] = g[m] + f[s]
      BY <1>3, <3>1
    <3> QED
      BY <3>0, <3>2
  <2>3. g[m] = d[m] * w[m]
    OBVIOUS
  <2>4. /\ d[m] \in Nat /\ w[m] \in Nat /\ w[m + 1] = r * w[m]
        /\ u[m] = d[m] + r * u[m + 1] /\ u[m + 1] \in Nat
    BY <1>0
  <2> DEFINE a == d[m]
             v == w[m]
             c == F(m)
             y == u[m + 1]
             h == a * v
             k == (r * v) * y
  <2>5. /\ c \in Nat /\ u[0] = c + v * u[m] /\ a \in Nat /\ v \in Nat /\ y \in Nat
    BY <1>5, <2>4
  <2> HIDE DEF a, v, c, y, F, g
  <2>6. v * (a + r * y) = h + k /\ h \in Nat /\ k \in Nat
    <3>1. r * y \in Nat /\ v * (a + r * y) = v * a + v * (r * y) /\ v * a = a * v /\ a * v \in Nat
      BY <2>5, Products
    <3>2. v * (r * y) = (v * r) * y /\ v * r = r * v /\ r * v \in Nat
      BY <2>5, Products
    <3>3. (r * v) * y \in Nat
      BY <2>5, <3>2, Products
    <3> QED
      BY <3>1, <3>2, <3>3
  <2>7. u[0] = c + (h + k)
    BY <2>4, <2>5, <2>6, Zenon DEF a, y
  <2>8. F(m + 1) = h + c /\ w[m + 1] * u[m + 1] = k
    <3>1. F(m + 1) = h + c
      BY <2>2, <2>3 DEF a, v, c
    <3>2. w[m + 1] * u[m + 1] = k
      BY <2>4, Zenon DEF v, y
    <3> QED
      BY <3>1, <3>2
  <2> DEFINE z == F(m + 1)
             l == w[m + 1] * u[m + 1]
  <2>9. z = h + c /\ l = k
    BY <2>8
  <2> HIDE DEF z, l, h, k
  <2>10. z \in Nat /\ u[0] = z + l
    BY <2>5, <2>6, <2>7, <2>9
  <2> QED
    BY <2>10 DEF z, l
<1> HIDE DEF F
<1> DEFINE Q == {m \in Nat : m <= n => Right(m)}
<1>6. 0 \in Q
  BY <1>4
<1>7. ASSUME NEW m \in Q PROVE m + 1 \in Q
  <2> SUFFICES ASSUME m + 1 <= n PROVE Right(m + 1)
    OBVIOUS
  <2>1. m \in 0 .. n - 1 /\ m <= n
    OBVIOUS
  <2>2. Right(m)
    BY <2>1
  <2> HIDE DEF Right
  <2> QED
    BY <1>5, <2>1, <2>2
<1>8. Q = Nat
  <2>1. Q \in SUBSET Nat
    OBVIOUS
  <2> HIDE DEF Q
  <2> QED
    BY <1>6, <1>7, <2>1, Induct
<1>9. Right(n)
  <2>1. n \in Q /\ n <= n
    <3> HIDE DEF Q
    <3> QED
      BY <1>8
  <2> HIDE DEF Right
  <2> QED
    BY <2>1
<1> QED
  BY <1>9 DEF F

-----------------------------------------------------------------------------
(* Blocks of bits and of pieces                                              *)

\* Powers of two, up to what a block holds.
LEMMA PowersAdd ==
  ASSUME NEW a \in Nat, NEW b \in Nat, a + b <= N
  PROVE  2 ^ (a + b) = 2 ^ a * 2 ^ b
<1> DEFINE Q == {m \in Nat : a + m <= N => 2 ^ (a + m) = 2 ^ a * 2 ^ m}
<1>1. N \in Nat /\ a \in 0 .. N
  BY BlockAssumption
<1>2. 2 ^ a \in Nat
  BY <1>1, Powers
<1>3. 0 \in Q
  <2>1. a + 0 = a /\ 2 ^ 0 = 1
    BY PowerAssumption
  <2>2. 2 ^ a * 1 = 2 ^ a
    BY <1>2
  <2>3. 2 ^ (a + 0) = 2 ^ a * 2 ^ 0
    BY <2>1, <2>2, Zenon
  <2> QED
    BY <2>3
<1>4. ASSUME NEW m \in Q PROVE m + 1 \in Q
  <2>1. CASE a + (m + 1) <= N
    <3>1. m \in Nat /\ a + m <= N /\ a + m \in 0 .. N - 1 /\ m \in 0 .. N - 1 /\ m \in 0 .. N
      BY <1>1, <2>1
    <3>2. 2 ^ (a + m) = 2 ^ a * 2 ^ m
      BY <3>1
    <3>3. 2 ^ ((a + m) + 1) = 2 * 2 ^ (a + m) /\ 2 ^ (m + 1) = 2 * 2 ^ m /\ 2 ^ m \in Nat
      BY <3>1, PowerAssumption
    <3> DEFINE p == 2 ^ a
               q == 2 ^ m
    <3> HIDE DEF p, q
    <3>4. p \in Nat /\ q \in Nat
      BY <1>2, <3>3 DEF p, q
    <3>5. 2 * (p * q) = p * (2 * q)
      <4>1. 2 * (p * q) = (2 * p) * q /\ 2 * p = p * 2 /\ (p * 2) * q = p * (2 * q)
        BY <3>4, Products
      <4> QED
        BY <4>1
    <3>6. (a + m) + 1 = a + (m + 1)
      BY <3>1
    <3>7. 2 ^ (a + (m + 1)) = 2 ^ a * 2 ^ (m + 1)
      BY <3>2, <3>3, <3>5, <3>6, Zenon DEF p, q
    <3> QED
      BY <3>1, <3>7
  <2>2. CASE ~(a + (m + 1) <= N)
    <3>1. m \in Nat
      OBVIOUS
    <3> QED
      BY <2>2, <3>1
  <2> QED
    BY <2>1, <2>2
<1>5. Q = Nat
  <2>1. Q \in SUBSET Nat
    OBVIOUS
  <2> HIDE DEF Q
  <2> QED
    BY <1>3, <1>4, <2>1, Induct
<1>6. b \in Q
  BY <1>5
<1> QED
  BY <1>6

\* Bits.
LEMMA BitType ==
  ASSUME NEW b \in Nat, NEW s \in 0 .. N - 1
  PROVE  BitOf(b, s) \in {0, 1}
  BY OneBit

\* The operations on bits give bits, and or one where a bit is set.
LEMMA OperationsType ==
  /\ And \in [0 .. 2 -> {0, 1}]
  /\ Or \in [0 .. 2 -> {0, 1}]
  /\ Xor \in [0 .. 2 -> {0, 1}]
  /\ \A set \in 1 .. 2 : Or[set] = 1
  BY DEF And, Or, Xor

\* An operation on bits makes a block of blocks: the number of its bits, each of
\* which counts.
LEMMA BitwiseFacts ==
  ASSUME NEW op \in [0 .. 2 -> {0, 1}], NEW m \in Nat, NEW n \in Nat
  PROVE  /\ Bitwise(op, m, n) \in Blocks
         /\ \A i \in 0 .. N - 1 : op[BitOf(m, i) + BitOf(n, i)] = 1 => Bitwise(op, m, n) # 0
         /\ \A u : /\ \A i \in 0 .. N : u[i] \in Nat
                   /\ \A i \in 0 .. N - 1 : u[i] = op[BitOf(m, i) + BitOf(n, i)] + 2 * u[i + 1]
                   => u[0] = Bitwise(op, m, n) + Base * u[N]
<1> DEFINE S == 0 .. N - 1
           d == [i \in S |-> op[BitOf(m, i) + BitOf(n, i)]]
           w == [i \in 0 .. N |-> 2 ^ i]
           g == [i \in S |-> d[i] * w[i]]
           h == CHOOSE h : h = [s \in SUBSET S |->
                  IF s = {} THEN 0
                  ELSE op[BitOf(m, CHOOSE x \in s : TRUE) + BitOf(n, CHOOSE x \in s : TRUE)] *
                         2 ^ (CHOOSE x \in s : TRUE) + h[s \ {CHOOSE x \in s : TRUE}]]
<1>1. N \in Nat /\ 2 ^ 0 = 1 /\ \A i \in 0 .. N - 1 : 2 ^ i \in Nat /\ 2 ^ (i + 1) = 2 * 2 ^ i
  BY BlockAssumption, PowerAssumption
<1>2. \A i \in S : BitOf(m, i) \in {0, 1} /\ BitOf(n, i) \in {0, 1}
  BY BitType
<1>3. d \in [S -> {0, 1}]
  <2>1. \A i \in S : op[BitOf(m, i) + BitOf(n, i)] \in {0, 1}
    <3>1. ASSUME NEW i \in S PROVE op[BitOf(m, i) + BitOf(n, i)] \in {0, 1}
      <4>1. BitOf(m, i) + BitOf(n, i) \in 0 .. 2
        BY <1>2
      <4> HIDE DEF S
      <4> QED
        BY <4>1
    <3> QED
      BY <3>1
  <2> QED
    BY <2>1
<1>4. \A i \in S : g[i] = op[BitOf(m, i) + BitOf(n, i)] * 2 ^ i
  <2>1. ASSUME NEW i \in S PROVE g[i] = op[BitOf(m, i) + BitOf(n, i)] * 2 ^ i
    <3>1. d[i] = op[BitOf(m, i) + BitOf(n, i)]
      OBVIOUS
    <3>2. w[i] = 2 ^ i
      <4>1. i \in 0 .. N
        BY <1>1
      <4> QED
        BY <4>1
    <3>3. g[i] = d[i] * w[i]
      <4> HIDE DEF d, w
      <4> QED
        OBVIOUS
    <3> HIDE DEF g, d, w
    <3> QED
      BY <3>1, <3>2, <3>3
  <2> QED
    BY <2>1
<1>5. \A i \in 0 .. N : w[i] = 2 ^ i
  OBVIOUS
<1>6. /\ \A i \in 0 .. N : w[i] \in Nat
      /\ w[0] = 1 /\ \A i \in 0 .. N - 1 : w[i + 1] = 2 * w[i]
      /\ w[N] = Base
  <2>1. \A i \in 0 .. N : 2 ^ i \in Nat
    BY Powers
  <2>2. \A i \in 0 .. N - 1 : i + 1 \in 0 .. N /\ i \in 0 .. N
    BY <1>1
  <2>3. 0 \in 0 .. N /\ N \in 0 .. N
    BY <1>1
  <2> HIDE DEF w
  <2> QED
    BY <1>1, <1>5, <2>1, <2>2, <2>3 DEF Base
<1>7. g \in [S -> Nat] /\ IsFiniteSet(S)
  <2>1. ASSUME NEW i \in S PROVE d[i] * w[i] \in Nat
    <3>1. d[i] \in Nat /\ w[i] \in Nat
      <4>1. i \in 0 .. N
        BY <1>1
      <4> HIDE DEF d, w
      <4> QED
        BY <1>3, <1>6, <4>1
    <3> QED
      BY <3>1, Products
  <2>2. IsFiniteSet(S)
    BY <1>1, FS_Interval
  <2> HIDE DEF d, w, S
  <2> QED
    BY <2>1, <2>2
<1> HIDE DEF d, w
<1>8. AreSums(h, g, S)
  <2> HIDE DEF g, h, S
  <2>1. PICK f : AreSums(f, g, S)
    BY <1>7, SumsExist
  <2>2. \A s \in SUBSET S : s # {} =>
           g[CHOOSE x \in s : TRUE] =
             op[BitOf(m, CHOOSE x \in s : TRUE) + BitOf(n, CHOOSE x \in s : TRUE)] *
               2 ^ (CHOOSE x \in s : TRUE)
    <3>1. ASSUME NEW s \in SUBSET S, s # {} PROVE (CHOOSE x \in s : TRUE) \in S
      BY <3>1
    <3> QED
      BY <1>4, <3>1
  <2>3. f = [s \in SUBSET S |->
               IF s = {} THEN 0
               ELSE op[BitOf(m, CHOOSE x \in s : TRUE) + BitOf(n, CHOOSE x \in s : TRUE)] *
                      2 ^ (CHOOSE x \in s : TRUE) + f[s \ {CHOOSE x \in s : TRUE}]]
    BY <2>1, <2>2 DEF AreSums
  <2>4. h = [s \in SUBSET S |->
               IF s = {} THEN 0
               ELSE op[BitOf(m, CHOOSE x \in s : TRUE) + BitOf(n, CHOOSE x \in s : TRUE)] *
                      2 ^ (CHOOSE x \in s : TRUE) + h[s \ {CHOOSE x \in s : TRUE}]]
    BY <2>3, Zenon DEF h
  <2> QED
    BY <2>2, <2>4 DEF AreSums
<1>9. Bitwise(op, m, n) = h[S]
  BY DEF Bitwise, MapThenSumSet, MapThenFoldSet
<1> HIDE DEF h
<1>10. h[S] \in Nat /\ h[S] < Base
  <2>1. 2 \in Nat \ {0} /\ 0 .. 2 - 1 = {0, 1}
    OBVIOUS
  <2> DEFINE r == 2
  <2>2. d \in [0 .. N - 1 -> 0 .. r - 1]
    BY <1>3, <2>1
  <2>3. AreSums(h, [i \in 0 .. N - 1 |-> d[i] * w[i]], 0 .. N - 1)
    BY <1>8
  <2>4. h[0 .. N - 1] \in Nat /\ h[0 .. N - 1] < w[N]
    BY <1>1, <1>6, <2>1, <2>2, <2>3, DigitsFit
  <2> QED
    BY <1>6, <2>4
<1>11. ASSUME NEW i \in S, op[BitOf(m, i) + BitOf(n, i)] = 1 PROVE h[S] # 0
  <2>1. AddUp(h, g, S)
    <3> HIDE DEF S, g
    <3> QED
      BY <1>7, <1>8, SumsAdd
  <2>2. h[S] = g[i] + h[S \ {i}] /\ h[S \ {i}] \in Nat
    <3>1. S \in SUBSET S /\ S \ {i} \in SUBSET S
      OBVIOUS
    <3> HIDE DEF S, g
    <3> QED
      BY <2>1, <3>1 DEF AddUp
  <2>3. 2 ^ i \in Nat \ {0}
    BY PowerAssumption
  <2>4. g[i] = 2 ^ i
    <3>1. g[i] = 1 * 2 ^ i
      BY <1>4, <1>11
    <3> HIDE DEF g
    <3> QED
      BY <2>3, <3>1
  <2> HIDE DEF S, g
  <2> QED
    BY <2>2, <2>3, <2>4
<1>12. ASSUME NEW u, \A i \in 0 .. N : u[i] \in Nat,
              \A i \in 0 .. N - 1 : u[i] = op[BitOf(m, i) + BitOf(n, i)] + 2 * u[i + 1]
       PROVE  u[0] = h[S] + Base * u[N]
  <2>1. AreSums(h, [i \in 0 .. N - 1 |-> d[i] * w[i]], 0 .. N - 1)
    BY <1>8
  <2>2. \A i \in 0 .. N - 1 : d[i] \in Nat /\ u[i] = d[i] + 2 * u[i + 1]
    <3>1. ASSUME NEW i \in 0 .. N - 1 PROVE d[i] \in Nat /\ u[i] = d[i] + 2 * u[i + 1]
      <4>1. d[i] \in Nat
        BY <1>3
      <4>2. d[i] = op[BitOf(m, i) + BitOf(n, i)]
        BY DEF d
      <4>3. u[i] = op[BitOf(m, i) + BitOf(n, i)] + 2 * u[i + 1]
        BY <1>12
      <4> QED
        BY <4>1, <4>2, <4>3, Zenon
    <3> QED
      BY <3>1
  <2> DEFINE r == 2
  <2>3. r \in Nat /\ \A i \in 0 .. N - 1 : w[i + 1] = r * w[i] /\ u[i] = d[i] + r * u[i + 1]
    BY <1>6, <2>2
  <2>4. u[0] = h[0 .. N - 1] + w[N] * u[N]
    <3> HIDE DEF r, g, S
    <3>1. N \in Nat /\ r \in Nat /\ IsRead(N, r, w, d, u)
      BY <1>1, <1>6, <1>12, <2>2, <2>3 DEF IsRead
    <3> QED
      BY <2>1, <3>1, SumOfDigits
  <2> QED
    BY <1>6, <2>4, Zenon
<1>13. h[S] \in Blocks
  <2> HIDE DEF S
  <2> QED
    BY <1>10, BaseType DEF Blocks
<1> HIDE DEF S
<1> QED
  BY <1>9, <1>11, <1>12, <1>13, Zenon DEF S

\* A block that is not zero has a bit that is set.
LEMMA SomeBit ==
  ASSUME NEW b \in Blocks, b # 0
  PROVE  \E s \in 0 .. N - 1 : BitOf(b, s) = 1
<1> SUFFICES ASSUME \A s \in 0 .. N - 1 : BitOf(b, s) # 1 PROVE FALSE
  OBVIOUS
<1> DEFINE Q == {m \in Nat : m <= N => 2 ^ m * (b \div 2 ^ m) = b}
<1>1. N \in Nat /\ Base \in Nat /\ Base > 1 /\ b \in Nat /\ b < Base
  BY BlockAssumption, BaseType DEF Blocks
<1>2. 0 \in Q
  <2>1. 2 ^ 0 = 1
    BY PowerAssumption
  <2>2. 1 * (b \div 1) = b
    BY <1>1
  <2>3. 2 ^ 0 * (b \div 2 ^ 0) = b
    BY <2>1, <2>2
  <2> QED
    BY <2>3
<1>3. ASSUME NEW m \in Q PROVE m + 1 \in Q
  <2>1. CASE m + 1 <= N
    <3>1. m \in 0 .. N - 1 /\ 2 ^ m * (b \div 2 ^ m) = b
      BY <1>1, <2>1
    <3>2. BitOf(b, m) = 0
      BY <1>1, <3>1, BitType
    <3>3. 2 ^ m * (b \div 2 ^ m) = 2 ^ (m + 1) * (b \div 2 ^ (m + 1)) + BitOf(b, m) * 2 ^ m
          /\ 2 ^ m \in Nat /\ 2 ^ (m + 1) \in Nat \ {0}
      BY <1>1, <3>1, OneBit
    <3>4. b \div 2 ^ (m + 1) \in Nat
      BY <1>1, <3>3, Quotients
    <3>5. 2 ^ (m + 1) * (b \div 2 ^ (m + 1)) \in Nat
      BY <3>3, <3>4, Products
    <3> DEFINE t == 2 ^ (m + 1) * (b \div 2 ^ (m + 1))
               p == 2 ^ m
               u == p * (b \div p)
    <3>6. u = t + 0 * p /\ p \in Nat /\ t \in Nat /\ u = b
      BY <3>1, <3>2, <3>3, <3>5
    <3> HIDE DEF t, p, u
    <3>7. t = b
      BY <3>6
    <3>8. m + 1 \in Nat
      BY <3>1
    <3> QED
      BY <3>7, <3>8 DEF t
  <2>2. CASE ~(m + 1 <= N)
    <3>1. m + 1 \in Nat
      OBVIOUS
    <3> QED
      BY <2>2, <3>1
  <2> QED
    BY <2>1, <2>2
<1>4. Q = Nat
  <2>1. Q \in SUBSET Nat
    OBVIOUS
  <2> HIDE DEF Q
  <2> QED
    BY <1>2, <1>3, <2>1, Induct
<1>5. N \in Q /\ N <= N
  <2> HIDE DEF Q
  <2> QED
    BY <1>1, <1>4
<1>6. Base * (b \div Base) = b
  BY <1>5 DEF Base
<1>7. b \div Base = 0
  <2>1. b = Base * 0 + b
    BY <1>1
  <2> QED
    BY <1>1, <2>1, QuotientIs
<1> QED
  BY <1>1, <1>6, <1>7

\* The shorter and the longer of two operands.
LEMMA OfTwoLengths ==
  ASSUME NEW m \in Nat, NEW n \in Nat
  PROVE  /\ Min({m, n}) \in {m, n}
         /\ Max({m, n}) \in {m, n} /\ m <= Max({m, n}) /\ n <= Max({m, n})
<1>1. CASE m <= n
  <2>1. \E i \in {m, n} : \A j \in {m, n} : i <= j
    BY <1>1
  <2>2. \E i \in {m, n} : \A j \in {m, n} : i >= j
    BY <1>1
  <2> QED
    BY <2>1, <2>2 DEF Min, Max
<1>2. CASE ~(m <= n)
  <2>1. \E i \in {m, n} : \A j \in {m, n} : i <= j
    BY <1>2
  <2>2. \E i \in {m, n} : \A j \in {m, n} : i >= j
    BY <1>2
  <2> QED
    BY <2>1, <2>2 DEF Min, Max
<1> QED
  BY <1>1, <1>2

\* A bitwise operation gives as many blocks as it is asked for.
LEMMA BlockwiseType ==
  ASSUME NEW op \in [0 .. 2 -> {0, 1}], NEW x \in Seq(Blocks), NEW y \in Seq(Blocks), NEW n \in Nat
  PROVE  /\ Blockwise(op, x, y, n) \in Seq(Blocks)
         /\ Len(Blockwise(op, x, y, n)) = n
         /\ \A k \in 1 .. n : Blockwise(op, x, y, n)[k] = Bitwise(op, Block(x, k), Block(y, k))
<1>1. ASSUME NEW k \in 1 .. n PROVE Bitwise(op, Block(x, k), Block(y, k)) \in Blocks
  <2>1. Block(x, k) \in Nat /\ Block(y, k) \in Nat
    <3>1. k \in Nat
      OBVIOUS
    <3>2. Block(x, k) \in Blocks /\ Block(y, k) \in Blocks
      BY <3>1, BlocksType
    <3> QED
      BY <3>2, BaseType DEF Blocks
  <2> QED
    BY <2>1, BitwiseFacts
<1>2. Blockwise(op, x, y, n) \in [1 .. n -> Blocks]
  BY <1>1 DEF Blockwise
<1> QED
  BY <1>2 DEF Blockwise

\* The bitwise operations leave no leading zero block.
LEMMA BitwiseIsCanonical ==
  ASSUME NEW x \in Seq(Blocks), NEW y \in Seq(Blocks), Canonical(x), Canonical(y)
  PROVE  /\ bitAnd(x, y) \in Seq(Blocks) /\ Canonical(bitAnd(x, y))
         /\ bitOr(x, y) \in Seq(Blocks) /\ Canonical(bitOr(x, y))
         /\ bitXor(x, y) \in Seq(Blocks) /\ Canonical(bitXor(x, y))
<1> DEFINE n == Max({Len(x), Len(y)})
           m == Min({Len(x), Len(y)})
           z == Blockwise(Or, x, y, n)
<1>1. /\ Len(x) \in Nat /\ Len(y) \in Nat /\ m \in Nat /\ n \in Nat
      /\ Len(x) <= n /\ Len(y) <= n /\ (n = Len(x) \/ n = Len(y))
  <2>1. Len(x) \in Nat /\ Len(y) \in Nat
    OBVIOUS
  <2>2. m \in {Len(x), Len(y)} /\ n \in {Len(x), Len(y)} /\ Len(x) <= n /\ Len(y) <= n
    BY <2>1, OfTwoLengths
  <2> HIDE DEF m, n
  <2> QED
    BY <2>1, <2>2
<1>2. bitAnd(x, y) \in Seq(Blocks) /\ Canonical(bitAnd(x, y))
  <2>1. Blockwise(And, x, y, m) \in Seq(Blocks)
    BY <1>1, OperationsType, BlockwiseType
  <2> QED
    BY <2>1, ZapFacts DEF bitAnd
<1>3. bitXor(x, y) \in Seq(Blocks) /\ Canonical(bitXor(x, y))
  <2>1. Blockwise(Xor, x, y, n) \in Seq(Blocks)
    BY <1>1, OperationsType, BlockwiseType
  <2> QED
    BY <2>1, ZapFacts DEF bitXor
<1> HIDE DEF n, m
<1>4. /\ z \in Seq(Blocks) /\ Len(z) = n
      /\ \A k \in 1 .. n : z[k] = Bitwise(Or, Block(x, k), Block(y, k))
  BY <1>1, OperationsType, BlockwiseType
<1>5. Canonical(z)
  <2> SUFFICES ASSUME z # <<>> PROVE Last(z) # 0
    BY DEF Canonical
  <2>1. n \in 1 .. n /\ Last(z) = z[n]
    <3> HIDE DEF z
    <3>1. Len(z) >= 1
      BY <1>4, LastBlock
    <3> QED
      BY <1>1, <1>4, <3>1 DEF Last
  <2> DEFINE a == Block(x, n)
             b == Block(y, n)
  <2>2. a \in Blocks /\ b \in Blocks /\ a \in Nat /\ b \in Nat
    BY <1>1, BlocksType, BaseType DEF Blocks
  <2>3. a # 0 \/ b # 0
    <3>1. CASE n = Len(x)
      <4>1. x # <<>>
        BY <2>1, <3>1
      <4> QED
        BY <3>1, <4>1, LastBlock DEF Canonical
    <3>2. CASE n = Len(y)
      <4>1. y # <<>>
        BY <2>1, <3>2
      <4> QED
        BY <3>2, <4>1, LastBlock DEF Canonical
    <3> QED
      BY <1>1, <3>1, <3>2
  <2> HIDE DEF a, b
  <2>4. \E i \in 0 .. N - 1 : BitOf(a, i) + BitOf(b, i) \in 1 .. 2
    <3>1. PICK i \in 0 .. N - 1 : BitOf(a, i) = 1 \/ BitOf(b, i) = 1
      BY <2>2, <2>3, SomeBit
    <3>2. BitOf(a, i) \in {0, 1} /\ BitOf(b, i) \in {0, 1}
      BY <2>2, BitType
    <3> QED
      BY <3>1, <3>2
  <2>5. Bitwise(Or, a, b) # 0
    BY <2>2, <2>4, BitwiseFacts, OperationsType
  <2> QED
    BY <1>4, <2>1, <2>5 DEF a, b
<1> QED
  BY <1>2, <1>3, <1>4, <1>5 DEF bitOr, n

\* Nor does setting a block or a bit, which replaces what it stood for.
LEMMA SetBlockFacts ==
  ASSUME NEW x \in Seq(Blocks), Canonical(x), NEW i \in Nat, NEW c \in Blocks
  PROVE  /\ setBlock(x, i, c) \in Seq(Blocks) /\ Canonical(setBlock(x, i, c))
         /\ Value(setBlock(x, i, c)) + Weight(i) * Block(x, i + 1) = Value(x) + Weight(i) * c
<1>0. 0 \in Blocks
  BY BaseType DEF Blocks
<1>1. CASE c = 0 /\ i < Len(x)
  <2> DEFINE z == [x EXCEPT ![i + 1] = 0]
  <2>1. /\ z \in Seq(Blocks)
        /\ Value(z) + Weight(i) * Block(x, i + 1) = Value(x) + Weight(i) * 0
    BY <1>0, <1>1, ChangeBlock
  <2>2. setBlock(x, i, c) = zapLeadingZeros(z)
    BY <1>1 DEF setBlock
  <2> HIDE DEF z
  <2>3. /\ zapLeadingZeros(z) \in Seq(Blocks) /\ Canonical(zapLeadingZeros(z))
        /\ Value(zapLeadingZeros(z)) = Value(z)
    BY <2>1, ZapFacts
  <2> QED
    BY <1>1, <2>1, <2>2, <2>3, Zenon
<1>2. CASE c = 0 /\ ~(i < Len(x))
  <2>1. setBlock(x, i, c) = x
    BY <1>2 DEF setBlock
  <2>2. i + 1 \in Nat /\ i + 1 > Len(x)
    BY <1>2
  <2>3. Block(x, i + 1) = 0
    BY <2>2, BlocksType
  <2> QED
    BY <1>2, <2>1, <2>3, Zenon
<1>3. CASE c # 0
  <2> DEFINE k == Max({0, i + 1 - Len(x)})
             y == x \o Zeros(k)
             z == [y EXCEPT ![i + 1] = c]
  <2>1. Len(x) \in Nat
    OBVIOUS
  <2>2. k \in Nat /\ i < Len(x) + k /\ (i < Len(x) => k = 0) /\ (i >= Len(x) => Len(x) + k = i + 1)
    <3>1. CASE i < Len(x)
      <4>1. \A j \in {0, i + 1 - Len(x)} : 0 >= j
        BY <2>1, <3>1
      <4>2. \A t \in {0, i + 1 - Len(x)} : (\A j \in {0, i + 1 - Len(x)} : t >= j) => t = 0
        BY <2>1, <3>1
      <4>3. k = 0
        BY <4>1, <4>2 DEF Max
      <4> QED
        BY <2>1, <3>1, <4>3
    <3>2. CASE ~(i < Len(x))
      <4> DEFINE u == i + 1 - Len(x)
      <4>1. \A j \in {0, u} : u >= j
        BY <2>1, <3>2
      <4>2. \A t \in {0, u} : (\A j \in {0, u} : t >= j) => t = u
        BY <2>1, <3>2
      <4>3. k = u
        BY <4>1, <4>2 DEF Max
      <4> HIDE DEF k
      <4> QED
        BY <2>1, <3>2, <4>3
    <3> QED
      BY <3>1, <3>2
  <2> HIDE DEF k
  <2>3. y \in Seq(Blocks) /\ Len(y) = Len(x) + k /\ Value(y) = Value(x)
    <3> DEFINE o == Zeros(k)
    <3>1. o \in Seq(Blocks) /\ Len(o) = k /\ Value(o) = 0
      BY <2>2, ZeroBlocks
    <3> HIDE DEF o
    <3>2. /\ x \o o \in Seq(Blocks) /\ Len(x \o o) = Len(x) + Len(o)
          /\ Value(x \o o) = Value(x) + Weight(Len(x)) * Value(o)
      BY <3>1, ConcatValue
    <3> DEFINE w == Weight(Len(x))
    <3>3. w \in Nat /\ Value(x) \in Nat
      BY <2>1, Weights, ValueIsFrom
    <3> HIDE DEF w
    <3>4. w * 0 = 0 /\ Value(x) + 0 = Value(x)
      BY <3>3
    <3>5. Value(x \o o) = Value(x)
      BY <3>1, <3>2, <3>4, Zenon DEF w
    <3> QED
      BY <3>1, <3>2, <3>5 DEF o
  <2>4. Block(y, i + 1) = Block(x, i + 1)
    <3>1. CASE i < Len(x)
      <4>1. Zeros(k) = <<>>
        BY <2>2, <3>1 DEF Zeros
      <4>2. y = x
        BY <4>1
      <4> QED
        BY <4>2, Zenon
    <3>2. CASE i >= Len(x)
      <4>1. i + 1 \in Nat /\ i + 1 > Len(x)
        BY <2>1, <3>2
      <4>2. Block(x, i + 1) = 0
        BY <4>1, BlocksType
      <4>3. Zeros(k) \in Seq({0}) /\ Len(Zeros(k)) = k
        BY <2>2 DEF Zeros
      <4> DEFINE o == Zeros(k)
      <4>4. y = x \o o
        OBVIOUS
      <4> HIDE DEF o, y
      <4>5. i + 1 \in 1 .. Len(x) + Len(o) /\ i + 1 > Len(x) /\ (i + 1) - Len(x) \in 1 .. Len(o)
        BY <2>1, <2>2, <3>2, <4>3 DEF o
      <4>6. y[i + 1] = o[(i + 1) - Len(x)]
        BY <4>3, <4>4, <4>5 DEF o
      <4>7. o[(i + 1) - Len(x)] = 0
        BY <4>3, <4>5 DEF o
      <4>8. Block(y, i + 1) = 0
        BY <4>6, <4>7 DEF Block
      <4> QED
        BY <4>2, <4>8
    <3> QED
      BY <2>1, <3>1, <3>2
  <2> HIDE DEF y
  <2>5. /\ z \in Seq(Blocks) /\ Len(z) = Len(y)
        /\ \A j \in Nat : Block(z, j) = IF j = i + 1 THEN c ELSE Block(y, j)
        /\ Value(z) + Weight(i) * Block(y, i + 1) = Value(y) + Weight(i) * c
    <3>1. i < Len(y)
      BY <2>1, <2>2, <2>3
    <3> QED
      BY <2>3, <3>1, ChangeBlock, Zenon
  <2> HIDE DEF z
  <2>6. z # <<>> /\ Last(z) = Block(z, Len(z))
    <3>1. z # <<>>
      BY <2>1, <2>2, <2>3, <2>5
    <3> QED
      BY <2>5, <3>1, LastBlock
  <2>7. Canonical(z)
    <3>1. CASE i >= Len(x)
      <4>1. Len(z) = i + 1 /\ i + 1 \in Nat
        BY <2>1, <2>2, <2>3, <2>5, <3>1
      <4> QED
        BY <1>3, <2>5, <2>6, <4>1 DEF Canonical
    <3>2. CASE i < Len(x)
      <4>1. y = x
        <5>1. Zeros(k) = <<>>
          BY <2>2, <3>2 DEF Zeros
        <5> QED
          BY <5>1 DEF y
      <4>2. x # <<>> /\ Last(x) = Block(x, Len(x)) /\ Last(x) # 0
        <5>1. x # <<>>
          BY <2>1, <3>2
        <5> QED
          BY <5>1, LastBlock DEF Canonical
      <4>3. Block(z, Len(x)) # 0
        BY <1>3, <2>1, <2>5, <4>1, <4>2
      <4>4. Last(z) # 0
        BY <2>5, <2>6, <4>1, <4>3
      <4> QED
        BY <4>4 DEF Canonical
    <3> QED
      BY <2>1, <3>1, <3>2
  <2>8. setBlock(x, i, c) = z
    BY <1>3 DEF setBlock, y, z, k
  <2>9. Value(z) + Weight(i) * Block(x, i + 1) = Value(x) + Weight(i) * c
    BY <2>3, <2>4, <2>5, Zenon
  <2> QED
    BY <2>5, <2>7, <2>8, <2>9, Zenon
<1> QED
  BY <1>1, <1>2, <1>3

\* setBit() changes one block, which stays within its width.
LEMMA SettingBit ==
  ASSUME NEW x \in Seq(Blocks), Canonical(x), NEW b \in Nat, NEW bit \in {0, 1}
  PROVE  /\ setBit(x, b, bit) \in Seq(Blocks) /\ Canonical(setBit(x, b, bit))
         /\ Value(setBit(x, b, bit)) + Unit(b) * getBit(x, b) = Value(x) + Unit(b) * bit
<1> DEFINE i == b \div N
           s == b % N
           c == Block(x, i + 1)
           t == BitOf(c, s)
           p == 2 ^ s
           v == c + (bit - t) * p
<1>1. i \in Nat /\ s \in 0 .. N - 1
  BY BitPlaces
<1>2. c \in Blocks /\ c \in Nat
  <2>1. i + 1 \in Nat
    BY <1>1
  <2>2. c \in Blocks
    BY <2>1, BlocksType
  <2> QED
    BY <2>2, BaseType DEF Blocks
<1>3. t \in {0, 1} /\ c + (1 - t) * p \in Blocks
  BY <1>1, <1>2, SetInBlock
<1>4. p \in Nat \ {0} /\ 2 ^ (s + 1) \in Nat \ {0}
      /\ p * (c \div p) = 2 ^ (s + 1) * (c \div 2 ^ (s + 1)) + t * p
  BY <1>1, <1>2, OneBit
<1>5. v \in Blocks
  <2>1. CASE bit = 1
    BY <1>3, <2>1
  <2>2. CASE bit = 0 /\ t = 0
    <3> HIDE DEF t, p, c
    <3>1. v = c
      BY <1>2, <1>4, <2>2
    <3> QED
      BY <1>2, <3>1
  <2>3. CASE bit = 0 /\ t = 1
    <3> DEFINE u == 2 ^ (s + 1) * (c \div 2 ^ (s + 1))
               h == p * (c \div p)
    <3>1. u \in Nat
      <4>1. c \div 2 ^ (s + 1) \in Nat
        BY <1>2, <1>4, Quotients
      <4> QED
        BY <1>4, <4>1, Products
    <3>2. h \in Nat /\ c % p \in Nat /\ c = h + (c % p)
      <4>1. c \div p \in Nat /\ c % p \in Nat /\ c = p * (c \div p) + (c % p)
        BY <1>2, <1>4, Quotients
      <4>2. h \in Nat
        BY <1>4, <4>1, Products
      <4> QED
        BY <4>1, <4>2
    <3>3. h = u + t * p
      BY <1>4
    <3> DEFINE r == c % p
    <3>4. r \in Nat /\ c = h + r
      BY <3>2
    <3> HIDE DEF u, h, t, p, c, r
    <3>5. v = c - p
      BY <1>2, <1>4, <2>3
    <3>6. p <= c
      BY <1>2, <1>4, <2>3, <3>1, <3>2, <3>3, <3>4
    <3> HIDE DEF v
    <3> QED
      BY <1>2, <1>4, <3>5, <3>6, BaseType DEF Blocks
  <2> QED
    BY <1>3, <2>1, <2>2, <2>3
<1>6. setBit(x, b, bit) = setBlock(x, i, v)
  BY DEF setBit, getBit
<1>7. getBit(x, b) = t /\ Unit(b) = Weight(i) * p
  BY DEF getBit, Unit
<1> HIDE DEF i, v
<1>8. /\ setBit(x, b, bit) \in Seq(Blocks) /\ Canonical(setBit(x, b, bit))
      /\ Value(setBit(x, b, bit)) + Weight(i) * c = Value(x) + Weight(i) * v
  BY <1>1, <1>5, <1>6, SetBlockFacts
<1> DEFINE w == Weight(i)
           S == Value(setBit(x, b, bit))
           V == Value(x)
<1>9. w \in Nat /\ S \in Nat /\ V \in Nat /\ S + w * c = V + w * v
  BY <1>1, <1>8, Weights, ValueIsFrom
<1>10. v \in Nat /\ v + t * p = c + bit * p /\ t * p \in Nat /\ bit * p \in Nat
  <2>1. v \in Nat
    BY <1>5, BaseType DEF Blocks
  <2>2. v = c + (bit - t) * p
    BY DEF v
  <2> HIDE DEF t, p, c
  <2>3. t = 0 \/ t = 1
    BY <1>3
  <2>4. 0 * p = 0 /\ 1 * p = p /\ (-1) * p = -p
    BY <1>4
  <2>5. CASE t = 0 /\ bit = 0
    BY <1>2, <2>1, <2>2, <2>4, <2>5
  <2>6. CASE t = 0 /\ bit = 1
    BY <1>2, <1>4, <2>1, <2>2, <2>4, <2>6
  <2>7. CASE t = 1 /\ bit = 0
    BY <1>2, <1>4, <2>1, <2>2, <2>4, <2>7
  <2>8. CASE t = 1 /\ bit = 1
    BY <1>2, <1>4, <2>1, <2>2, <2>4, <2>8
  <2> QED
    BY <2>3, <2>5, <2>6, <2>7, <2>8
<1> HIDE DEF c, s, t, p, w, S, V
<1>11. w * (v + t * p) = w * v + (w * p) * t /\ w * (c + bit * p) = w * c + (w * p) * bit
  <2>1. t \in Nat /\ bit \in Nat /\ p \in Nat
    BY <1>3, <1>4
  <2>2. w * (t * p) = (w * p) * t /\ w * (bit * p) = (w * p) * bit
    <3>1. t * p = p * t /\ bit * p = p * bit
      BY <2>1, Products
    <3>2. (w * p) * t = w * (p * t) /\ (w * p) * bit = w * (p * bit)
      BY <1>9, <2>1, Products
    <3> QED
      BY <3>1, <3>2, Zenon
  <2>3. w * (v + t * p) = w * v + w * (t * p) /\ w * (c + bit * p) = w * c + w * (bit * p)
    BY <1>2, <1>9, <1>10, Products
  <2> QED
    BY <2>2, <2>3, Zenon
<1> DEFINE e == w * v
           f == w * c
           g == (w * p) * t
           h == (w * p) * bit
<1>12. e \in Nat /\ f \in Nat /\ g \in Nat /\ h \in Nat
  <2>1. t \in Nat /\ bit \in Nat /\ p \in Nat
    BY <1>3, <1>4
  <2>2. w * p \in Nat
    BY <1>9, <2>1, Products
  <2> QED
    BY <1>2, <1>9, <1>10, <2>1, <2>2, Products
<1>13. e + g = f + h /\ S + f = V + e
  BY <1>9, <1>10, <1>11, Zenon
<1> HIDE DEF e, f, g, h
<1>14. S + g = V + h
  BY <1>9, <1>12, <1>13
<1> QED
  BY <1>7, <1>8, <1>14, Zenon DEF g, h, S, V, w

\* Nor do the shifts, of a number that is not zero.
LEMMA ShiftIsCanonical ==
  ASSUME NEW x \in Seq(Blocks), Canonical(x), x # <<>>, NEW b \in Int
  PROVE  /\ bitShiftLeft(x, b) \in Seq(Blocks) /\ Canonical(bitShiftLeft(x, b))
         /\ bitShiftRight(x, b) \in Seq(Blocks) /\ Canonical(bitShiftRight(x, b))
<1>1. CASE b < 0
  <2>1. -b \in Nat
    BY <1>1
  <2> QED
    BY <1>1, <2>1, LeftShiftIsRight, RightShiftIsRight DEF bitShiftLeft, bitShiftRight
<1>2. CASE ~(b < 0)
  <2>1. b \in Nat
    BY <1>2
  <2> QED
    BY <1>2, <2>1, LeftShiftIsRight, RightShiftIsRight DEF bitShiftLeft, bitShiftRight
<1> QED
  BY <1>1, <1>2

\* Where BigUnsigned does not throw, its results are canonical.
LEMMA MagnitudesStayCanonical ==
  ASSUME NEW x \in Seq(Blocks), NEW y \in Seq(Blocks), Canonical(x), Canonical(y),
         NEW by \in {"+", "-", "*", "/", "%", "&", "|", "^"},
         by \in {"/", "%"} => y # <<>>, by = "-" => ~Negative(x, y)
  PROVE  /\ MagnitudeCombination(by, x, y) \in Seq(Blocks)
         /\ Canonical(MagnitudeCombination(by, x, y))
<1>1. CASE by = "+"
  <2>1. MagnitudeCombination(by, x, y) = add(x, y)
    BY <1>1 DEF MagnitudeCombination
  <2> QED
    BY <2>1, AdditionIsRight
<1>2. CASE by = "-"
  <2>1. MagnitudeCombination(by, x, y) = subtract(x, y)
    BY <1>2 DEF MagnitudeCombination
  <2> QED
    BY <1>2, <2>1, SubtractionIsRight
<1>3. CASE by = "*"
  <2>1. MagnitudeCombination(by, x, y) = multiply(x, y)
    BY <1>3 DEF MagnitudeCombination
  <2> QED
    BY <2>1, MultiplicationIsRight
<1>4. CASE by = "/"
  <2>1. MagnitudeCombination(by, x, y) = divideWithRemainder(x, y).quotient
    BY <1>4 DEF MagnitudeCombination
  <2> QED
    BY <1>4, <2>1, DivisionIsRight
<1>5. CASE by = "%"
  <2>1. MagnitudeCombination(by, x, y) = divideWithRemainder(x, y).remainder
    BY <1>5 DEF MagnitudeCombination
  <2> QED
    BY <1>5, <2>1, DivisionIsRight
<1>6. CASE by = "&"
  <2>1. MagnitudeCombination(by, x, y) = bitAnd(x, y)
    BY <1>6 DEF MagnitudeCombination
  <2> QED
    BY <2>1, BitwiseIsCanonical
<1>7. CASE by = "|"
  <2>1. MagnitudeCombination(by, x, y) = bitOr(x, y)
    BY <1>7 DEF MagnitudeCombination
  <2> QED
    BY <2>1, BitwiseIsCanonical
<1>8. CASE by = "^"
  <2>1. MagnitudeCombination(by, x, y) = bitXor(x, y)
    BY <1>8 DEF MagnitudeCombination
  <2> QED
    BY <2>1, BitwiseIsCanonical
<1> QED
  BY <1>1, <1>2, <1>3, <1>4, <1>5, <1>6, <1>7, <1>8

\* The pieces of a block make a block, and the blocks the number of the pieces.
LEMMA PackedFacts ==
  ASSUME NEW pieces \in Seq(0 .. 2 ^ PieceBits - 1)
  PROVE  /\ pieces \in Seq(Nat) /\ 2 ^ PieceBits \in Nat
         /\ Packed(pieces) \in Seq(Blocks)
         /\ NumberFrom(Packed(pieces), Base, 0) = NumberFrom(pieces, 2 ^ PieceBits, 0)
<1> DEFINE q == N \div PieceBits
           r == 2 ^ PieceBits
           S == 0 .. q - 1
           w == [i \in 0 .. q |-> 2 ^ (PieceBits * i)]
<1>1. /\ N \in Nat \ {0} /\ PieceBits \in Nat \ {0} /\ PieceBits \in 0 .. N
      /\ N % PieceBits = 0
  BY BlockAssumption, IntegerAssumption
<1>2. q \in Nat /\ N = PieceBits * q /\ q # 0
  <2>1. q \in Nat /\ N = PieceBits * q + (N % PieceBits)
    BY <1>1, Quotients
  <2> DEFINE t == PieceBits * q
  <2>2. t \in Nat
    BY <1>1, <2>1, Products
  <2>3. N = t
    <3>1. N = t + (N % PieceBits)
      BY <2>1
    <3> HIDE DEF t, q
    <3>2. N = t + 0
      BY <1>1, <3>1
    <3> QED
      BY <2>2, <3>2
  <2>4. q # 0
    <3>1. PieceBits * 0 = 0
      BY <1>1
    <3> HIDE DEF q
    <3> QED
      BY <1>1, <2>3, <3>1
  <2> QED
    BY <2>1, <2>3, <2>4
<1>3. r \in Nat \ {0}
  BY <1>1, Powers
<1>4. pieces \in Seq(Nat)
  <2> HIDE DEF r
  <2>1. pieces \in Seq(0 .. r - 1) /\ 0 .. r - 1 \subseteq Nat
    BY <1>3 DEF r
  <2> DEFINE T == 0 .. r - 1
  <2>2. pieces \in Seq(T) /\ \A i \in T : i \in Nat
    BY <2>1
  <2> HIDE DEF T
  <2>3. Len(pieces) \in Nat /\ pieces \in [1 .. Len(pieces) -> T]
    BY <2>2
  <2>4. pieces \in [1 .. Len(pieces) -> Nat]
    BY <2>2, <2>3
  <2> QED
    BY <2>3, <2>4
<1> HIDE DEF q
<1>5. ASSUME NEW i \in 0 .. q
      PROVE  PieceBits * i \in 0 .. N /\ 2 ^ (PieceBits * i) \in Nat
  <2>1. i \in Nat /\ i <= q
    BY <1>2
  <2>2. PieceBits * i \in Nat /\ PieceBits * i <= PieceBits * q
    BY <1>1, <1>2, <2>1, Products
  <2> DEFINE u == PieceBits * i
             v == PieceBits * q
  <2>3. u \in Nat /\ u <= v /\ N = v
    BY <1>2, <2>2
  <2> HIDE DEF u, v
  <2>4. u \in 0 .. N
    BY <1>1, <2>3
  <2>5. 2 ^ u \in Nat
    BY <2>4, Powers
  <2> QED
    BY <2>4, <2>5 DEF u
<1>6. /\ \A i \in 0 .. q : w[i] \in Nat
      /\ w[0] = 1
      /\ \A i \in 0 .. q - 1 : w[i + 1] = r * w[i]
      /\ w[q] = Base
  <2>1. \A i \in 0 .. q : w[i] \in Nat
    BY <1>5
  <2>2. w[0] = 1
    <3>1. 0 \in 0 .. q /\ PieceBits * 0 = 0
      BY <1>1, <1>2
    <3> QED
      BY <3>1, PowerAssumption
  <2>3. w[q] = Base
    <3>1. q \in 0 .. q
      BY <1>2
    <3> QED
      BY <1>2, <3>1 DEF Base
  <2>4. ASSUME NEW i \in 0 .. q - 1 PROVE w[i + 1] = r * w[i]
    <3>1. i \in 0 .. q /\ i + 1 \in 0 .. q /\ i \in Nat
      BY <1>2
    <3> DEFINE u == PieceBits * i
    <3>2. PieceBits * (i + 1) = PieceBits + u
      BY <1>1, <3>1
    <3>3. u \in Nat /\ PieceBits + u <= N
      <4>1. u \in 0 .. N /\ PieceBits * (i + 1) \in 0 .. N
        BY <1>5, <3>1
      <4> HIDE DEF u
      <4> QED
        BY <1>1, <3>2, <4>1
    <3> HIDE DEF u
    <3>4. 2 ^ (PieceBits + u) = r * 2 ^ u
      BY <1>1, <3>3, PowersAdd
    <3>5. w[i + 1] = 2 ^ (PieceBits * (i + 1)) /\ w[i] = 2 ^ u
      BY <3>1 DEF u
    <3> HIDE DEF w, r
    <3> QED
      BY <3>2, <3>4, <3>5, Zenon
  <2> QED
    BY <2>1, <2>2, <2>3, <2>4
<1>7. \A i \in 0 .. q : w[i] = 2 ^ (PieceBits * i)
  OBVIOUS
<1> HIDE DEF w
<1>8. ASSUME NEW k \in Nat, k # 0
      PROVE  LET b == MapThenSumSet(LAMBDA i : Block(pieces, (k - 1) * q + i + 1) *
                                                 2 ^ (PieceBits * i),
                                    0 .. q - 1)
             IN /\ b \in Blocks
                /\ NumberFrom(pieces, r, (k - 1) * q) = b + Base * NumberFrom(pieces, r, k * q)
  <2> DEFINE d == [i \in S |-> Block(pieces, (k - 1) * q + i + 1)]
             g == [i \in S |-> d[i] * w[i]]
             h == CHOOSE h : h = [s \in SUBSET S |->
                    IF s = {} THEN 0
                    ELSE Block(pieces, (k - 1) * q + (CHOOSE x \in s : TRUE) + 1) *
                           2 ^ (PieceBits * (CHOOSE x \in s : TRUE)) + h[s \ {CHOOSE x \in s : TRUE}]]
  <2>1. d \in [S -> 0 .. r - 1]
    <3>1. ASSUME NEW j PROVE Block(pieces, j) \in 0 .. r - 1
      <4>1. 0 \in 0 .. r - 1
        <5> HIDE DEF r
        <5> QED
          BY <1>3
      <4> HIDE DEF r
      <4>2. pieces \in Seq(0 .. r - 1)
        BY DEF r
      <4>3. j \in DOMAIN pieces => pieces[j] \in 0 .. r - 1
        <5> DEFINE T == 0 .. r - 1
        <5>1. pieces \in Seq(T)
          BY <4>2
        <5> HIDE DEF T
        <5>2. j \in DOMAIN pieces => pieces[j] \in T
          BY <5>1
        <5> QED
          BY <5>2 DEF T
      <4> QED
        BY <4>1, <4>3 DEF Block
    <3> HIDE DEF S, r
    <3> QED
      BY <3>1
  <2>2. \A i \in S : g[i] = Block(pieces, (k - 1) * q + i + 1) * 2 ^ (PieceBits * i)
    <3>1. ASSUME NEW i \in S
          PROVE  g[i] = Block(pieces, (k - 1) * q + i + 1) * 2 ^ (PieceBits * i)
      <4>1. d[i] = Block(pieces, (k - 1) * q + i + 1)
        OBVIOUS
      <4>2. w[i] = 2 ^ (PieceBits * i)
        <5>1. i \in 0 .. q
          BY <1>2
        <5> QED
          BY <1>7, <5>1
      <4> HIDE DEF d
      <4>3. g[i] = d[i] * w[i]
        OBVIOUS
      <4> HIDE DEF g
      <4> QED
        BY <4>1, <4>2, <4>3
    <3> QED
      BY <3>1
  <2>3. g \in [S -> Nat] /\ IsFiniteSet(S)
    <3>1. ASSUME NEW i \in S PROVE d[i] * w[i] \in Nat
      <4>1. d[i] \in Nat /\ w[i] \in Nat
        <5>1. i \in 0 .. q
          BY <1>2
        <5> HIDE DEF d, r
        <5> QED
          BY <1>3, <1>6, <2>1, <5>1
      <4> QED
        BY <4>1, Products
    <3>2. IsFiniteSet(S)
      BY <1>2, FS_Interval
    <3> HIDE DEF d, S
    <3> QED
      BY <3>1, <3>2
  <2> HIDE DEF d
  <2>4. AreSums(h, g, S)
    <3> HIDE DEF g, h, S
    <3>1. PICK f : AreSums(f, g, S)
      BY <2>3, SumsExist
    <3>2. \A s \in SUBSET S : s # {} =>
             g[CHOOSE x \in s : TRUE] =
               Block(pieces, (k - 1) * q + (CHOOSE x \in s : TRUE) + 1) *
                 2 ^ (PieceBits * (CHOOSE x \in s : TRUE))
      <4>1. ASSUME NEW s \in SUBSET S, s # {} PROVE (CHOOSE x \in s : TRUE) \in S
        BY <4>1
      <4> QED
        BY <2>2, <4>1
    <3> DEFINE Chosen(s) ==
                 Block(pieces, (k - 1) * q + (CHOOSE x \in s : TRUE) + 1) *
                   2 ^ (PieceBits * (CHOOSE x \in s : TRUE))
    <3>3. \A s \in SUBSET S : s # {} => g[CHOOSE x \in s : TRUE] = Chosen(s)
      BY <3>2, Zenon
    <3>4. f = [s \in SUBSET S |->
                 IF s = {} THEN 0
                 ELSE g[CHOOSE x \in s : TRUE] + f[s \ {CHOOSE x \in s : TRUE}]]
      BY <3>1, Zenon DEF AreSums
    <3> HIDE DEF Chosen
    <3>5. f = [s \in SUBSET S |->
                 IF s = {} THEN 0 ELSE Chosen(s) + f[s \ {CHOOSE x \in s : TRUE}]]
      BY <3>3, <3>4
    <3>6. h = [s \in SUBSET S |->
                 IF s = {} THEN 0 ELSE Chosen(s) + h[s \ {CHOOSE x \in s : TRUE}]]
      BY <3>5, Zenon DEF h, Chosen
    <3>7. h = [s \in SUBSET S |->
                 IF s = {} THEN 0
                 ELSE g[CHOOSE x \in s : TRUE] + h[s \ {CHOOSE x \in s : TRUE}]]
      BY <3>3, <3>6
    <3> QED
      BY <3>7, Zenon DEF AreSums
  <2>5. MapThenSumSet(LAMBDA i : Block(pieces, (k - 1) * q + i + 1) * 2 ^ (PieceBits * i),
                      0 .. q - 1) = h[S]
    BY DEF MapThenSumSet, MapThenFoldSet
  <2> HIDE DEF h
  <2>6. h[S] \in Nat /\ h[S] < Base
    <3>1. d \in [0 .. q - 1 -> 0 .. r - 1]
      BY <2>1
    <3>2. AreSums(h, [i \in 0 .. q - 1 |-> d[i] * w[i]], 0 .. q - 1)
      BY <2>4
    <3> HIDE DEF r
    <3>3. h[0 .. q - 1] \in Nat /\ h[0 .. q - 1] < w[q]
      BY <1>2, <1>3, <1>6, <3>1, <3>2, DigitsFit
    <3> QED
      BY <1>6, <3>3
  <2>7. h[S] \in Blocks
    <3> HIDE DEF S
    <3> QED
      BY <2>6, BaseType DEF Blocks
  <2>8. NumberFrom(pieces, r, (k - 1) * q) = h[S] + Base * NumberFrom(pieces, r, k * q)
    <3> DEFINE o == (k - 1) * q
               u == [i \in 0 .. q |-> NumberFrom(pieces, r, o + i)]
    <3>1. o \in Nat /\ o + q = k * q
      <4>1. k - 1 \in Nat /\ k = (k - 1) + 1
        BY <1>8
      <4>2. q * (k - 1) \in Nat /\ q * ((k - 1) + 1) = q * (k - 1) + q * 1 /\ q * 1 = q
        BY <1>2, <4>1, Products
      <4>3. q * (k - 1) = (k - 1) * q /\ q * k = k * q
        BY <1>2, <1>8, <4>1, Products
      <4> QED
        BY <4>1, <4>2, <4>3
    <3>2. \A i \in 0 .. q : u[i] = NumberFrom(pieces, r, o + i)
      BY Zenon
    <3> HIDE DEF u
    <3>3. \A i \in 0 .. q - 1 : d[i] = Block(pieces, o + i + 1)
      BY Zenon DEF d
    <3> HIDE DEF o, S, g, r
    <3>4. ASSUME NEW i \in 0 .. q PROVE u[i] \in Nat
      <4>1. o + i \in Nat
        BY <1>2, <3>1
      <4>2. NumberFrom(pieces, r, o + i) \in Nat
        BY <1>3, <1>4, <4>1, NumberFromFacts
      <4> QED
        BY <3>2, <4>2, Zenon
    <3>5. ASSUME NEW i \in 0 .. q - 1 PROVE d[i] \in Nat /\ u[i] = d[i] + r * u[i + 1]
      <4>1. i \in 0 .. q /\ i + 1 \in 0 .. q /\ o + i \in Nat /\ o + (i + 1) = (o + i) + 1
        BY <1>2, <3>1
      <4>2. NumberFrom(pieces, r, o + i) =
              Block(pieces, o + i + 1) + r * NumberFrom(pieces, r, (o + i) + 1)
        BY <1>3, <1>4, <4>1, NumberFromFacts
      <4>3. u[i] = NumberFrom(pieces, r, o + i) /\ u[i + 1] = NumberFrom(pieces, r, (o + i) + 1)
        BY <3>2, <4>1, Zenon
      <4>4. d[i] \in Nat
        BY <1>3, <2>1 DEF S
      <4> QED
        BY <3>3, <4>2, <4>3, <4>4, Zenon
    <3>6. AreSums(h, [i \in 0 .. q - 1 |-> d[i] * w[i]], 0 .. q - 1)
      BY <2>4 DEF S, g
    <3>7. u[0] = h[0 .. q - 1] + w[q] * u[q]
      <4>1. q \in Nat /\ r \in Nat /\ IsRead(q, r, w, d, u)
        BY <1>2, <1>3, <1>6, <3>4, <3>5 DEF IsRead
      <4> QED
        BY <3>6, <4>1, SumOfDigits
    <3>8. u[0] = NumberFrom(pieces, r, o) /\ u[q] = NumberFrom(pieces, r, k * q)
      <4>1. 0 \in 0 .. q /\ q \in 0 .. q /\ o + 0 = o
        BY <1>2, <3>1
      <4> QED
        BY <3>1, <3>2, <4>1
    <3> QED
      BY <1>6, <3>7, <3>8, Zenon DEF o, S
  <2> QED
    BY <2>5, <2>7, <2>8, Zenon
<1> DEFINE n == (Len(pieces) + q - 1) \div q
<1>9. n \in Nat
  <2>1. Len(pieces) + q - 1 \in Nat
    BY <1>2
  <2> QED
    BY <1>2, <2>1, Quotients
<1>10. \A k \in 1 .. n : k \in Nat /\ k # 0
  BY <1>9
<1>11. Packed(pieces) = [k \in 1 .. n |->
          MapThenSumSet(LAMBDA i : Block(pieces, (k - 1) * q + i + 1) * 2 ^ (PieceBits * i),
                        0 .. q - 1)]
  BY DEF Packed, q
<1>12. n * q \in Nat /\ Len(pieces) <= n * q
  <2> DEFINE l == Len(pieces)
             t == l + q - 1
  <2>1. l \in Nat /\ t \in Nat
    BY <1>2
  <2>2. t % q \in Nat /\ t % q < q /\ t = q * n + (t % q)
    BY <1>2, <2>1, Quotients
  <2>3. n * q = q * n /\ n * q \in Nat
    BY <1>2, <1>9, Products
  <2> DEFINE v == n * q
             m == t % q
  <2>4. v \in Nat /\ m \in Nat /\ m < q /\ l + q - 1 = v + m
    BY <2>2, <2>3
  <2> HIDE DEF v, m, n, l
  <2>5. l <= v
    BY <1>2, <2>1, <2>4
  <2> QED
    BY <2>4, <2>5 DEF v, l
<1> HIDE DEF n
<1>13. Packed(pieces) \in [1 .. n -> Blocks] /\ Packed(pieces) \in Seq(Blocks)
       /\ Len(Packed(pieces)) = n
  <2>1. \A k \in 1 .. n :
          MapThenSumSet(LAMBDA i : Block(pieces, (k - 1) * q + i + 1) * 2 ^ (PieceBits * i),
                        0 .. q - 1) \in Blocks
    BY <1>8, <1>10, Zenon
  <2>2. Packed(pieces) \in [1 .. n -> Blocks]
    BY <1>11, <2>1, Zenon
  <2> QED
    BY <1>9, <2>2
<1>14. NumberFrom(Packed(pieces), Base, 0) = NumberFrom(pieces, r, 0)
  <2> DEFINE x == Packed(pieces)
             T == {k \in 0 .. n : NumberFrom(x, Base, k) = NumberFrom(pieces, r, k * q)}
  <2>1. x \in Seq(Blocks) /\ x \in Seq(Nat) /\ Len(x) = n /\ Base \in Nat
    BY <1>13, BlocksType, BaseType
  <2>2. ASSUME NEW k \in 0 .. n - 1
        PROVE  NumberFrom(pieces, r, k * q) =
                 Block(x, k + 1) + Base * NumberFrom(pieces, r, (k + 1) * q)
    <3>1. k + 1 \in Nat /\ k + 1 # 0 /\ (k + 1) - 1 = k /\ k + 1 \in 1 .. n
      BY <1>9
    <3>2. Block(x, k + 1) = x[k + 1]
      BY <2>1, <3>1, BlocksType
    <3>3. x[k + 1] = MapThenSumSet(LAMBDA i : Block(pieces, ((k + 1) - 1) * q + i + 1) *
                                                2 ^ (PieceBits * i),
                                   0 .. q - 1)
      BY <1>11, <3>1, Zenon
    <3>4. NumberFrom(pieces, r, ((k + 1) - 1) * q) =
            x[k + 1] + Base * NumberFrom(pieces, r, (k + 1) * q)
      BY <1>8, <3>1, <3>3, Zenon
    <3> QED
      BY <3>1, <3>2, <3>4, Zenon
  <2> HIDE DEF x, r
  <2>3. n \in T
    <3>1. NumberFrom(x, Base, n) = 0
      BY <1>9, <2>1, NumberFromFacts
    <3>2. NumberFrom(pieces, r, n * q) = 0
      BY <1>3, <1>4, <1>12, NumberFromFacts
    <3> QED
      BY <1>9, <3>1, <3>2
  <2>4. ASSUME NEW k \in 0 .. n - 1, k + 1 \in T PROVE k \in T
    <3>1. k \in 0 .. n /\ k \in Nat
      BY <1>9
    <3>2. NumberFrom(x, Base, k) = Block(x, k + 1) + Base * NumberFrom(x, Base, k + 1)
      BY <2>1, <3>1, NumberFromFacts
    <3>3. NumberFrom(x, Base, k + 1) = NumberFrom(pieces, r, (k + 1) * q)
      BY <2>4
    <3> QED
      BY <2>2, <3>1, <3>2, <3>3, Zenon
  <2>5. 0 \in T
    <3>1. T \in SUBSET (0 .. n) /\ 0 \in 0 .. n
      BY <1>9
    <3> HIDE DEF T
    <3>2. \A k \in 0 .. n : k \in T
      BY <1>9, <2>3, <2>4, <3>1, InductDown
    <3> QED
      BY <3>1, <3>2
  <2>6. NumberFrom(x, Base, 0) = NumberFrom(pieces, r, 0 * q)
    BY <2>5
  <2>7. 0 * q = 0
    BY <1>2
  <2> QED
    BY <2>6, <2>7, Zenon DEF x
<1> QED
  BY <1>3, <1>4, <1>13, <1>14

\* One turn of the conversion from digits.
WithDigit(digit, x, base) ==
  add(multiply(x, <<base>>), IF digit = 0 THEN <<>> ELSE <<digit>>)

\* A block alone is a number, and so is none.
LEMMA OneBlock ==
  /\ \A b \in Blocks : <<b>> \in Seq(Blocks) /\ (b # 0 => Canonical(<<b>>))
  /\ <<>> \in Seq(Blocks) /\ Canonical(<<>>)
  BY DEF Canonical, Last

\* A turn keeps the number without a leading zero block.
LEMMA WithDigitType ==
  ASSUME NEW digit \in Blocks, NEW base \in Blocks, base # 0,
         NEW x \in Seq(Blocks), Canonical(x)
  PROVE  WithDigit(digit, x, base) \in Seq(Blocks) /\ Canonical(WithDigit(digit, x, base))
<1> DEFINE d == IF digit = 0 THEN <<>> ELSE <<digit>>
           m == multiply(x, <<base>>)
<1>1. d \in Seq(Blocks) /\ Canonical(d)
  BY OneBlock
<1>2. m \in Seq(Blocks) /\ Canonical(m)
  BY OneBlock, MultiplicationIsRight
<1> HIDE DEF d, m
<1>3. add(m, d) \in Seq(Blocks) /\ Canonical(add(m, d))
  BY <1>1, <1>2, AdditionIsRight
<1> QED
  BY <1>3 DEF WithDigit, m, d

\* The numbers that the last digits stand for.
LEMMA FromDigitsFolds ==
  ASSUME NEW digits \in Seq(Blocks), NEW base \in Blocks, base # 0
  PROVE  \E f : /\ f[Len(digits)] = <<>>
                /\ \A k \in 0 .. Len(digits) - 1 :
                     f[k] = WithDigit(digits[k + 1], f[k + 1], base)
                /\ FromDigits(digits, base) = f[0]
<1> DEFINE P == {x \in Seq(Blocks) : Canonical(x)}
           n == Len(digits)
           S == 1 .. n
           C == [s \in SUBSET S |-> Min(s)]
           G == [i \in S |-> [x \in P |-> WithDigit(digits[i], x, base)]]
           h == CHOOSE h : h = [s \in SUBSET S |->
                  IF s = {} THEN <<>> ELSE WithDigit(digits[Min(s)], h[s \ {Min(s)}], base)]
<1>1. n \in Nat /\ DOMAIN digits = S /\ IsFiniteSet(S)
  BY FS_Interval
<1>2. ASSUME NEW i \in S, NEW x \in P PROVE WithDigit(digits[i], x, base) \in P
  <2>1. digits[i] \in Blocks
    OBVIOUS
  <2> QED
    BY <2>1, WithDigitType
<1>3. G \in [S -> [P -> P]] /\ \A i \in S, x \in P : G[i][x] = WithDigit(digits[i], x, base)
  <2> HIDE DEF S, P
  <2> QED
    BY <1>2
<1>4. ASSUME NEW s \in SUBSET S, s # {}
      PROVE  Min(s) \in s /\ C[s] = Min(s) /\ \A j \in s : Min(s) <= j
  <2>1. s \in SUBSET Nat
    OBVIOUS
  <2>2. \E m \in s : \A j \in s : m <= j
    BY <1>4, <2>1, Least
  <2> QED
    BY <2>2 DEF Min
<1>5. <<>> \in P
  BY OneBlock
<1> HIDE DEF S, P, G, C
<1>6. PICK g \in [SUBSET S -> P] : IsFold(g, S, C, <<>>, G)
  <2>1. \A s \in SUBSET S : s # {} => C[s] \in s
    BY <1>4
  <2> QED
    BY <1>1, <1>3, <1>5, <2>1, FoldExists
<1>7. ASSUME NEW s \in SUBSET S
      PROVE  g[s] = IF s = {} THEN <<>> ELSE WithDigit(digits[Min(s)], g[s \ {Min(s)}], base)
  <2>1. CASE s = {}
    BY <1>6, <2>1 DEF IsFold
  <2>2. CASE s # {}
    <3>1. Min(s) \in S /\ s \ {Min(s)} \in SUBSET S /\ C[s] = Min(s)
      BY <1>4, <2>2
    <3>2. g[s] = G[Min(s)][g[s \ {Min(s)}]]
      BY <1>6, <2>2, <3>1 DEF IsFold
    <3>3. g[s \ {Min(s)}] \in P
      BY <3>1
    <3> QED
      BY <1>3, <2>2, <3>1, <3>2, <3>3
  <2> QED
    BY <2>1, <2>2
<1>8. g = [s \in SUBSET S |->
             IF s = {} THEN <<>> ELSE WithDigit(digits[Min(s)], g[s \ {Min(s)}], base)]
  BY <1>7
<1>9. h = [s \in SUBSET S |->
             IF s = {} THEN <<>> ELSE WithDigit(digits[Min(s)], h[s \ {Min(s)}], base)]
  BY <1>8, Zenon
<1>10. FromDigits(digits, base) = h[S]
  <2>1. h = CHOOSE t : t = [s \in SUBSET (DOMAIN digits) |->
             IF s = {} THEN <<>> ELSE WithDigit(digits[Min(s)], t[s \ {Min(s)}], base)]
    BY <1>1
  <2> HIDE DEF h
  <2> QED
    BY <1>1, <2>1 DEF FromDigits, FoldRight, MapThenFoldSet, WithDigit
<1> HIDE DEF h
<1> DEFINE f == [k \in 0 .. n |-> h[k + 1 .. n]]
<1>11. f[n] = <<>>
  <2>1. n \in 0 .. n /\ n + 1 .. n = {}
    BY <1>1
  <2>2. f[n] = h[{}]
    BY <2>1
  <2>3. {} \in SUBSET S
    OBVIOUS
  <2> HIDE DEF f
  <2> QED
    BY <1>9, <2>2, <2>3
<1>12. ASSUME NEW k \in 0 .. n - 1 PROVE f[k] = WithDigit(digits[k + 1], f[k + 1], base)
  <2> DEFINE s == k + 1 .. n
             i == k + 1
  <2>1. /\ s \in SUBSET S /\ i \in s /\ \A j \in s : i <= j /\ j \in Int
        /\ k \in 0 .. n /\ k + 1 \in 0 .. n /\ s \ {i} = (k + 1) + 1 .. n
    BY <1>1 DEF S
  <2>2. f[k] = h[s] /\ f[k + 1] = h[s \ {i}]
    BY <2>1
  <2> HIDE DEF s, i, f
  <2>3. Min(s) = i
    <3>1. s # {}
      BY <2>1
    <3>2. Min(s) \in s /\ \A j \in s : Min(s) <= j
      BY <1>4, <2>1, <3>1
    <3> QED
      BY <2>1, <3>2
  <2>4. h[s] = WithDigit(digits[Min(s)], h[s \ {Min(s)}], base)
    <3>1. s # {}
      BY <2>1
    <3> QED
      BY <1>9, <2>1, <3>1
  <2> QED
    BY <2>2, <2>3, <2>4 DEF i
<1>13. FromDigits(digits, base) = f[0]
  <2>1. 0 \in 0 .. n /\ 0 + 1 .. n = S
    BY <1>1 DEF S
  <2> QED
    BY <1>10, <2>1
<1> HIDE DEF f
<1> QED
  BY <1>11, <1>12, <1>13

\* A number that is read from digits has no leading zero block.
LEMMA ReadIsCanonical ==
  ASSUME NEW digits \in Seq(Blocks), NEW base \in Blocks, base # 0
  PROVE  FromDigits(digits, base) \in Seq(Blocks) /\ Canonical(FromDigits(digits, base))
<1> DEFINE n == Len(digits)
<1>1. PICK f : /\ f[n] = <<>>
               /\ \A k \in 0 .. n - 1 : f[k] = WithDigit(digits[k + 1], f[k + 1], base)
               /\ FromDigits(digits, base) = f[0]
  BY FromDigitsFolds
<1>2. n \in Nat
  OBVIOUS
<1> DEFINE T == {k \in 0 .. n : f[k] \in Seq(Blocks) /\ Canonical(f[k])}
<1>3. n \in T
  <2>1. f[n] \in Seq(Blocks) /\ Canonical(f[n])
    <3> HIDE DEF n
    <3> QED
      BY <1>1, OneBlock
  <2> QED
    BY <1>2, <2>1
<1>4. ASSUME NEW k \in 0 .. n - 1, k + 1 \in T PROVE k \in T
  <2>1. k \in 0 .. n /\ k + 1 \in 1 .. n
    BY <1>2
  <2>2. digits[k + 1] \in Blocks
    BY <2>1
  <2>3. f[k + 1] \in Seq(Blocks) /\ Canonical(f[k + 1])
    BY <1>4
  <2>4. f[k] \in Seq(Blocks) /\ Canonical(f[k])
    BY <1>1, <2>2, <2>3, WithDigitType
  <2> QED
    BY <2>1, <2>4
<1>5. \A k \in 0 .. n : k \in T
  <2>1. T \in SUBSET (0 .. n)
    OBVIOUS
  <2> HIDE DEF T, n
  <2> QED
    BY <1>2, <1>3, <1>4, <2>1, InductDown
<1>6. 0 \in T
  <2> HIDE DEF T
  <2> QED
    BY <1>2, <1>5
<1> QED
  BY <1>1, <1>6

\* stringToBigUnsigned() does so for digits that it does not reject.
LEMMA MagnitudeIsCanonical ==
  ASSUME NEW digits \in Seq(Nat), ~BadDigits(digits, Radix)
  PROVE  MagnitudeOf(digits, Radix) \in Seq(Blocks) /\ Canonical(MagnitudeOf(digits, Radix))
<1>1. Radix \in Blocks /\ Radix # 0 /\ Radix - 1 \in Blocks
  BY IntegerAssumption, BaseType DEF Blocks
<1>2. \A i \in DOMAIN digits : digits[i] \in Blocks
  <2>1. ASSUME NEW i \in DOMAIN digits PROVE digits[i] \in Blocks
    <3>1. digits[i] \in Nat /\ ~(digits[i] >= Radix)
      BY DEF BadDigits
    <3>2. Base \in Nat /\ Radix \in Nat /\ Radix <= Base - 1
      BY IntegerAssumption, BaseType
    <3> DEFINE d == digits[i]
    <3> HIDE DEF d
    <3>3. d \in 0 .. Base - 1
      BY <3>1, <3>2 DEF d
    <3> QED
      BY <3>3 DEF d, Blocks
  <2> QED
    BY <2>1
<1> DEFINE r == Reverse(digits)
           n == Len(digits)
<1>3. r \in Seq(Blocks)
  <2>1. ASSUME NEW i \in 1 .. n PROVE digits[(n - i) + 1] \in Blocks
    <3>1. (n - i) + 1 \in 1 .. n
      OBVIOUS
    <3> QED
      BY <1>2, <3>1
  <2>2. r = [i \in 1 .. n |-> digits[(n - i) + 1]]
    BY DEF Reverse
  <2>3. n \in Nat
    OBVIOUS
  <2>4. r \in [1 .. n -> Blocks]
    BY <2>1, <2>2
  <2> HIDE DEF r, n
  <2> QED
    BY <2>3, <2>4
<1> HIDE DEF r
<1>4. zapLeadingZeros(r) \in Seq(Blocks)
  BY <1>3, ZapFacts
<1> QED
  BY <1>1, <1>4, ReadIsCanonical DEF MagnitudeOf, r

-----------------------------------------------------------------------------
(* The calls keep every number normal                                        *)

\* A number is zero where it has no block.
LEMMA ZeroHasNoBlock ==
  ASSUME NEW m \in Seq(Blocks), Canonical(m)
  PROVE  m = <<>> <=> Value(m) = 0
<1>1. m = <<>> => Value(m) = 0
  BY ValueOfFew
<1>2. ASSUME m # <<>> PROVE Value(m) # 0
  <2>1. Len(m) - 1 \in Nat /\ Weight(Len(m) - 1) <= Value(m)
    BY <1>2, CanonicalIsLong
  <2>2. Weight(Len(m) - 1) \in Nat \ {0} /\ Value(m) \in Nat
    BY <2>1, Weights, ValueIsFrom
  <2> QED
    BY <2>1, <2>2
<1> QED
  BY <1>1, <1>2

\* What a block alone stands for.
LEMMA ValueOfBlock ==
  ASSUME NEW b \in Blocks
  PROVE  Value(<<b>>) = b
<1>1. <<b>> \in Seq(Blocks) /\ Len(<<b>>) = 1 /\ Block(<<b>>, 1) = b /\ b \in Nat
  BY BaseType DEF Blocks, Block
<1> DEFINE v == Value(<<b>>)
           u == From(<<b>>, 1)
<1>2. v = From(<<b>>, 0) /\ v \in Nat
  BY <1>1, ValueIsFrom
<1>3. From(<<b>>, 0) = Block(<<b>>, 0 + 1) + Base * From(<<b>>, 0 + 1)
  BY <1>1, FromFacts
<1>4. u = 0
  <2>1. 1 \in Nat /\ 1 >= Len(<<b>>)
    BY <1>1
  <2> QED
    BY <1>1, <2>1, FromFacts
<1>5. v = b + Base * 0
  BY <1>1, <1>2, <1>3, <1>4
<1> QED
  BY <1>1, <1>5, BaseType

\* The magnitude of a primitive, the least included.
LEMMA PrimitiveFacts ==
  ASSUME NEW w \in 1 .. N, NEW n \in -(2 ^ (w - 1)) .. 2 ^ w - 1
  PROVE  /\ magOf(n, w) \in Blocks /\ (magOf(n, w) = 0 <=> n = 0)
         /\ magOf(n, w) = Abstract!Magnitude(n)
<1> DEFINE p == 2 ^ (w - 1)
           q == 2 ^ w
<1>1. w - 1 \in 0 .. N - 1 /\ w \in 0 .. N /\ (w - 1) + 1 = w
  BY BlockAssumption
<1>2. p \in Nat \ {0} /\ q = 2 * p
  BY <1>1, PowerAssumption
<1>3. Base \in Nat /\ Base > 1
  BY BaseType
<1>4. q <= Base
  <2>1. q \in Nat \ {0} /\ 2 ^ (N - w) \in Nat \ {0} /\ q * 2 ^ (N - w) = Base
    BY <1>1, Powers
  <2> DEFINE t == 2 ^ (N - w)
  <2>2. t \in Nat /\ 1 <= t /\ q * t = Base
    BY <2>1
  <2> HIDE DEF q, t
  <2>3. q * 1 <= q * t
    BY <2>1, <2>2, Products
  <2> QED
    BY <2>1, <2>2, <2>3
<1> HIDE DEF p, q
<1>5. n \in Int /\ -p <= n /\ n < q
  BY <1>2 DEF p, q
<1>6. CASE n < 0
  <2> DEFINE m == -n
  <2>1. m \in Nat /\ m # 0 /\ m < q /\ m < Base
    BY <1>2, <1>3, <1>4, <1>5, <1>6
  <2>2. m = q * 0 + m /\ m = Base * 0 + m /\ q \in Nat \ {0} /\ Base \in Nat \ {0}
    BY <1>2, <1>3, <2>1
  <2> HIDE DEF m
  <2>3. m % q = m /\ m % Base = m
    BY <2>1, <2>2, QuotientIs
  <2>4. magOf(n, w) = m
    BY <1>6, <2>3 DEF magOf, m, q
  <2>5. Abstract!Magnitude(n) = m
    BY <1>6 DEF Abstract!Magnitude, m
  <2>6. m \in Blocks /\ (m = 0 <=> n = 0)
    BY <1>3, <1>5, <1>6, <2>1 DEF Blocks
  <2> QED
    BY <2>4, <2>5, <2>6
<1>7. CASE ~(n < 0)
  <2>1. magOf(n, w) = n % Base
    BY <1>7 DEF magOf
  <2>2. n \in Nat /\ n < Base
    <3>1. n \in Nat /\ q \in Nat
      BY <1>2, <1>5, <1>7
    <3> QED
      BY <1>3, <1>4, <1>5, <3>1
  <2>3. n % Base = n
    <3>1. n = Base * 0 + n /\ Base \in Nat \ {0}
      BY <1>3, <2>2
    <3> QED
      BY <2>2, <3>1, QuotientIs
  <2>4. Abstract!Magnitude(n) = n
    BY <1>7 DEF Abstract!Magnitude
  <2> QED
    BY <1>3, <2>1, <2>2, <2>3, <2>4 DEF Blocks
<1> QED
  BY <1>6, <1>7

\* The operators of BigInteger give normal numbers, for a divisor that is not
\* zero.
LEMMA CombinationIsNormal ==
  ASSUME NEW x, NEW y, IsNormal(x), IsNormal(y),
         NEW by \in {"+", "-", "*", "/", "%"}, by \in {"/", "%"} => y.sign # 0
  PROVE  IsNormal(Combination(by, x, y))
<1>1. CASE by = "+"
  <2>1. Combination(by, x, y) = Sum(x, y)
    BY <1>1 DEF Combination
  <2> QED
    BY <2>1, SumIsRight
<1>2. CASE by = "-"
  <2>1. Combination(by, x, y) = Sum(x, Negated(y))
    BY <1>2 DEF Combination
  <2>2. IsNormal(Negated(y))
    BY NegationIsRight
  <2> QED
    BY <2>1, <2>2, SumIsRight
<1>3. CASE by = "*"
  <2>1. Combination(by, x, y) = Product(x, y)
    BY <1>3 DEF Combination
  <2> QED
    BY <2>1, ProductIsRight
<1>4. CASE by = "/"
  <2>1. Combination(by, x, y) = Divided(x, y).quotient
    BY <1>4 DEF Combination
  <2> QED
    BY <1>4, <2>1, DivisionRoundsDown DEF RoundsDown
<1>5. CASE by = "%"
  <2>1. Combination(by, x, y) = Divided(x, y).remainder
    BY <1>5 DEF Combination
  <2> QED
    BY <1>5, <2>1, DivisionRoundsDown DEF RoundsDown
<1> QED
  BY <1>1, <1>2, <1>3, <1>4, <1>5

\* Dividing into two objects does too, for every divisor.
LEMMA DividedIsNormal ==
  ASSUME NEW x, NEW y, IsNormal(x), IsNormal(y)
  PROVE  IsNormal(Divided(x, y).quotient) /\ IsNormal(Divided(x, y).remainder)
<1>1. CASE y.sign = 0
  <2>1. Divided(x, y) = [quotient |-> Zero, remainder |-> x]
    BY <1>1 DEF Divided
  <2> QED
    BY <2>1, ZeroFacts
<1>2. CASE y.sign # 0
  BY <1>2, DivisionRoundsDown DEF RoundsDown
<1> QED
  BY <1>1, <1>2

\* The constructor from a magnitude.
LEMMA MagnitudeIsNormal ==
  ASSUME NEW m \in Seq(Blocks), Canonical(m), NEW s \in {-1, 0, 1}, s = 0 => m = <<>>
  PROVE  IsNormal(Integer(m, s))
  BY IntegerFacts

-----------------------------------------------------------------------------
(* The invariant: the numbers are normal, and a call is one that the program *)
(* may make.                                                                 *)

NumbersAreNormal == \A z \in Objects : IsNormal(reg[z])

CallIsMade ==
  /\ call \in {Returned, Thrown} \cup Calls
  /\ call.op = "shift" => reg[call.a].mag # <<>>
  /\ call.op = "move" => call.z # call.a

IInv ==
  /\ reg \in [Objects -> [sign : SignValues, mag : Seq(Blocks)]]
  /\ NumbersAreNormal
  /\ CallIsMade

\* The arguments of the calls.
OfTwoCall(c) == c.z \in Objects /\ c.a \in Objects /\ c.b \in Objects
OfOneCall(c) == c.z \in Objects /\ c.a \in Objects

\* Each call has arguments of the types that its handler expects.
LEMMA CallFacts ==
  ASSUME NEW c \in {Returned, Thrown} \cup Calls
  PROVE  /\ c.op = "combine" => OfTwoCall(c) /\ c.by \in {"+", "-", "*", "/", "%"}
         /\ c.op = "magnitude" =>
              OfTwoCall(c) /\ c.by \in {"+", "-", "*", "/", "%", "&", "|", "^"}
         /\ c.op \in {"subtract", "divide"} => OfTwoCall(c)
         /\ c.op \in {"negate", "copy", "increase", "decrease", "move"} => OfOneCall(c)
         /\ c.op = "step" => c.z \in Objects /\ c.n \in {-1, 1}
         /\ c.op = "shift" => OfOneCall(c) /\ c.n \in Int /\ c.left \in BOOLEAN
         /\ c.op = "set" =>
              OfOneCall(c) /\ c.i \in Nat /\ c.n \in Blocks /\ (c.radix = 2 => c.n \in {0, 1})
                /\ (c.radix # 2 => c.radix = Base)
         /\ c.op = "primitive" =>
              c.z \in Objects /\ c.width \in 1 .. N /\ c.n \in -Base .. Base - 1
                /\ c.n \in -(2 ^ (c.width - 1)) .. 2 ^ c.width - 1
         /\ c.op = "data" =>
              c.z \in Objects /\ c.sign \in SignValues
                /\ (IF c.radix = Base THEN c.digits \in Seq(Blocks)
                    ELSE c.digits \in Seq(0 .. 2 ^ PieceBits - 1) /\ c.radix = 2 ^ PieceBits)
         /\ c.op = "text" =>
              c.z \in Objects /\ c.sign \in {-1, 1} /\ c.digits \in Seq(Nat) /\ c.radix = Radix
         /\ c \in Calls => c.op \notin {"returned", "thrown"}
<1> DEFINE OfTwo(op, by) == [op : {op}, z : Objects, a : Objects, b : Objects, by : by]
           OfOne(op)     == [op : {op}, z : Objects, a : Objects]
           Setting(n, radix) ==
             [op : {"set"}, z : Objects, a : Objects, i : Places, n : n, radix : {radix}]
           Reading(op, digits, radix, sign) ==
             [op : {op}, z : Objects, digits : digits, radix : {radix}, sign : sign]
           Primitive == {t \in [op : {"primitive"}, z : Objects, n : -Base .. Base - 1, width : 1 .. N] :
                           t.n \in -(2 ^ (t.width - 1)) .. 2 ^ t.width - 1}
<1>1. CASE c \in {Returned, Thrown} /\ c \notin Calls
  <2>1. c.op \in {"returned", "thrown"}
    BY <1>1 DEF Returned, Thrown
  <2> QED
    BY <1>1, <2>1
<1>2. CASE c \in OfTwo("combine", {"+", "-", "*", "/", "%"})
  <2>1. c.op = "combine" /\ OfTwoCall(c) /\ c.by \in {"+", "-", "*", "/", "%"}
    BY <1>2 DEF OfTwoCall
  <2> QED
    BY <2>1
<1>3. CASE c \in OfTwo("magnitude", {"+", "-", "*", "/", "%", "&", "|", "^"})
  <2>1. /\ c.op = "magnitude" /\ OfTwoCall(c)
        /\ c.by \in {"+", "-", "*", "/", "%", "&", "|", "^"}
    BY <1>3 DEF OfTwoCall
  <2> QED
    BY <2>1
<1>4. CASE c \in OfTwo("subtract", {"-"}) \cup OfTwo("divide", {"/"})
  <2>1. c.op \in {"subtract", "divide"} /\ OfTwoCall(c)
    BY <1>4 DEF OfTwoCall
  <2> QED
    BY <2>1
<1>5. CASE c \in OfOne("negate") \cup OfOne("copy") \cup OfOne("increase")
                   \cup OfOne("decrease") \cup OfOne("move")
  <2>1. c.op \in {"negate", "copy", "increase", "decrease", "move"} /\ OfOneCall(c)
    BY <1>5 DEF OfOneCall
  <2> QED
    BY <2>1
<1>6. CASE c \in [op : {"step"}, z : Objects, n : {-1, 1}]
  <2>1. c.op = "step" /\ c.z \in Objects /\ c.n \in {-1, 1}
    BY <1>6
  <2> QED
    BY <2>1
<1>7. CASE c \in [op : {"shift"}, z : Objects, a : Objects, n : Counts, left : BOOLEAN]
  <2>1. c.op = "shift" /\ OfOneCall(c) /\ c.n \in Int /\ c.left \in BOOLEAN
    BY <1>7, IntegerAssumption DEF OfOneCall
  <2> QED
    BY <2>1
<1>8. CASE c \in Setting({0, 1}, 2) \cup Setting(Blocks, Base)
  <2>1. c.op = "set" /\ OfOneCall(c) /\ c.i \in Nat
    BY <1>8, IntegerAssumption DEF OfOneCall
  <2>2. c.n \in Blocks /\ (c.radix = 2 => c.n \in {0, 1}) /\ (c.radix # 2 => c.radix = Base)
    <3>1. 0 \in Blocks /\ 1 \in Blocks /\ (Base = 2 => Blocks = {0, 1})
      BY BaseType DEF Blocks
    <3> HIDE DEF Primitive
    <3> QED
      BY <1>8, <3>1
  <2> QED
    BY <2>1, <2>2
<1>9. CASE c \in Primitive
  <2>1. /\ c.op = "primitive" /\ c.z \in Objects /\ c.width \in 1 .. N
        /\ c.n \in -Base .. Base - 1 /\ c.n \in -(2 ^ (c.width - 1)) .. 2 ^ c.width - 1
    BY <1>9
  <2> QED
    BY <2>1
<1>10. CASE c \in Reading("data", Arrays, Base, SignValues)
  <2>1. c.op = "data" /\ c.z \in Objects /\ c.sign \in SignValues /\ c.radix = Base
        /\ c.digits \in Seq(Blocks)
    BY <1>10, IntegerAssumption
  <2> QED
    BY <2>1
<1>11. CASE c \in Reading("data", Pieces, 2 ^ PieceBits, SignValues)
  <2>1. c.op = "data" /\ c.z \in Objects /\ c.sign \in SignValues /\ c.radix = 2 ^ PieceBits
        /\ c.digits \in Seq(0 .. 2 ^ PieceBits - 1)
    BY <1>11, IntegerAssumption
  <2>2. c.radix = Base => c.digits \in Seq(Blocks)
    BY <2>1 DEF Blocks
  <2> QED
    BY <2>1, <2>2
<1>12. CASE c \in Reading("text", Texts, Radix, {-1, 1})
  <2>1. c.op = "text" /\ c.z \in Objects /\ c.sign \in {-1, 1} /\ c.digits \in Seq(Nat)
        /\ c.radix = Radix
    BY <1>12, IntegerAssumption
  <2> QED
    BY <2>1
<1>13. c \in Calls =>
         \/ c \in OfTwo("combine", {"+", "-", "*", "/", "%"})
         \/ c \in OfTwo("magnitude", {"+", "-", "*", "/", "%", "&", "|", "^"})
         \/ c \in OfTwo("subtract", {"-"}) \cup OfTwo("divide", {"/"})
         \/ c \in OfOne("negate") \cup OfOne("copy") \cup OfOne("increase")
                   \cup OfOne("decrease") \cup OfOne("move")
         \/ c \in [op : {"step"}, z : Objects, n : {-1, 1}]
         \/ c \in [op : {"shift"}, z : Objects, a : Objects, n : Counts, left : BOOLEAN]
         \/ c \in Setting({0, 1}, 2) \cup Setting(Blocks, Base)
         \/ c \in Primitive
         \/ c \in Reading("data", Arrays, Base, SignValues)
         \/ c \in Reading("data", Pieces, 2 ^ PieceBits, SignValues)
         \/ c \in Reading("text", Texts, Radix, {-1, 1})
  BY Zenon DEF Calls
<1> HIDE DEF OfTwo, OfOne, Setting, Reading, Primitive
<1> QED
  BY <1>1, <1>2, <1>3, <1>4, <1>5, <1>6, <1>7, <1>8, <1>9, <1>10, <1>11, <1>12, <1>13

\* A call that returns a normal number keeps the invariant.
LEMMA ReturnKeeps ==
  ASSUME IInv, NEW x, IsNormal(x), call.z \in Objects, Returns(x)
  PROVE  IInv'
<1>1. x \in [sign : SignValues, mag : Seq(Blocks)]
  BY DEF IsNormal
<1>2. reg' \in [Objects -> [sign : SignValues, mag : Seq(Blocks)]]
  BY <1>1 DEF Returns, IInv
<1>3. NumbersAreNormal'
  <2>1. ASSUME NEW z \in Objects PROVE IsNormal(reg'[z])
    <3>1. reg'[z] = IF z = call.z THEN x ELSE reg[z]
      BY DEF Returns, IInv
    <3> QED
      BY <3>1 DEF IInv, NumbersAreNormal
  <2> QED
    BY <2>1 DEF NumbersAreNormal
<1>4. CallIsMade'
  <2>1. call' = Returned /\ call'.op = "returned"
    BY DEF Returns, Returned
  <2> QED
    BY <2>1 DEF CallIsMade
<1> QED
  BY <1>2, <1>3, <1>4 DEF IInv

\* A call that throws keeps the invariant too.
LEMMA ThrowKeeps ==
  ASSUME IInv, Throws
  PROVE  IInv'
<1>1. reg' = reg /\ call' = Thrown /\ call'.op = "thrown"
  BY DEF Throws, Thrown
<1>2. CallIsMade'
  BY <1>1 DEF CallIsMade
<1>3. NumbersAreNormal'
  BY <1>1 DEF IInv, NumbersAreNormal
<1> QED
  BY <1>1, <1>2, <1>3 DEF IInv

\* So does one that leaves zero as well.
LEMMA SpoilingKeeps ==
  ASSUME IInv, call.z \in Objects, call' = Thrown, reg' = [reg EXCEPT ![call.z] = Zero]
  PROVE  IInv'
<1>1. IsNormal(Zero) /\ Zero \in [sign : SignValues, mag : Seq(Blocks)]
  BY ZeroFacts DEF IsNormal
<1>2. /\ reg' \in [Objects -> [sign : SignValues, mag : Seq(Blocks)]]
      /\ \A z \in Objects : reg'[z] = IF z = call.z THEN Zero ELSE reg[z]
  BY <1>1 DEF IInv
<1>3. NumbersAreNormal'
  BY <1>1, <1>2 DEF IInv, NumbersAreNormal
<1>4. CallIsMade'
  <2>1. call'.op = "thrown"
    BY DEF Thrown
  <2> QED
    BY <2>1 DEF CallIsMade
<1> QED
  BY <1>2, <1>3, <1>4 DEF IInv

\* What the invariant says of an operand.
LEMMA Operand ==
  ASSUME IInv, NEW z \in Objects
  PROVE  /\ IsNormal(reg[z])
         /\ reg[z].mag \in Seq(Blocks) /\ Canonical(reg[z].mag)
         /\ reg[z].sign = 0 <=> reg[z].mag = <<>>
  BY DEF IInv, NumbersAreNormal, IsNormal

\* The call that is made is one of those that the program makes.
LEMMA CallIsKnown ==
  ASSUME IInv
  PROVE  call \in {Returned, Thrown} \cup Calls
  BY DEF IInv, CallIsMade

\* Every object is zero at first: the default constructor.
THEOREM InitIInv == Init => IInv
<1> SUFFICES ASSUME Init PROVE IInv
  OBVIOUS
<1>1. IsNormal(Zero) /\ Zero \in [sign : SignValues, mag : Seq(Blocks)]
  BY ZeroFacts DEF IsNormal
<1>2. reg \in [Objects -> [sign : SignValues, mag : Seq(Blocks)]] /\ NumbersAreNormal
  BY <1>1 DEF Init, NumbersAreNormal
<1>3. call = Returned /\ call.op = "returned"
  BY DEF Init, Returned
<1>4. CallIsMade
  BY <1>3 DEF CallIsMade
<1> QED
  BY <1>2, <1>4 DEF IInv

\* Every action keeps the invariant, as long as no call is a misuse.
THEOREM StepIInv ==
  ASSUME IInv, [Next]_vars, "shift_zero" \notin Misuses, "self_move" \notin Misuses
  PROVE  IInv'
<1>1. CASE UNCHANGED vars
  BY <1>1 DEF vars, IInv, NumbersAreNormal, CallIsMade
<1>2. CASE Request
  <2>1. reg' = reg /\ call' \in Calls
    BY <1>2 DEF Request
  <2>2. call'.op = "shift" => reg[call'.a].mag # <<>>
    BY <1>2 DEF Request
  <2>3. call'.op = "move" => call'.z # call'.a
    BY <1>2 DEF Request
  <2>4. CallIsMade'
    BY <2>1, <2>2, <2>3 DEF CallIsMade
  <2>5. NumbersAreNormal'
    BY <2>1 DEF IInv, NumbersAreNormal
  <2> QED
    BY <2>1, <2>4, <2>5 DEF IInv
<1>3. CASE Combine
  <2> DEFINE x == reg[call.a]
             y == reg[call.b]
  <2>1. call.op = "combine"
    BY <1>3 DEF Combine
  <2>2. OfTwoCall(call) /\ call.by \in {"+", "-", "*", "/", "%"}
    BY <2>1, CallIsKnown, CallFacts
  <2>3. IsNormal(x) /\ IsNormal(y) /\ call.z \in Objects
    BY <2>2, Operand DEF OfTwoCall
  <2>4. CASE call.by \in {"/", "%"} /\ y.sign = 0
    BY <1>3, <2>4, ThrowKeeps DEF Combine
  <2>5. CASE ~(call.by \in {"/", "%"} /\ y.sign = 0)
    <3>1. Returns(Combination(call.by, x, y))
      BY <1>3, <2>5 DEF Combine
    <3>2. IsNormal(Combination(call.by, x, y))
      <4> HIDE DEF x, y
      <4> QED
        BY <2>2, <2>3, <2>5, CombinationIsNormal
    <3> QED
      BY <2>3, <3>1, <3>2, ReturnKeeps
  <2> QED
    BY <2>4, <2>5
<1>4. CASE DivideInto
  <2> DEFINE x == reg[call.a]
             y == reg[call.b]
             d == Divided(x, y)
  <2>1. call.op = "divide"
    BY <1>4 DEF DivideInto
  <2>2. OfTwoCall(call)
    BY <2>1, CallIsKnown, CallFacts
  <2>3. IsNormal(x) /\ IsNormal(y) /\ call.z \in Objects /\ call.a \in Objects
    BY <2>2, Operand DEF OfTwoCall
  <2>4. IsNormal(d.quotient) /\ IsNormal(d.remainder)
    <3> HIDE DEF x, y
    <3> QED
      BY <2>3, DividedIsNormal
  <2>5. CASE call.z = call.a
    BY <1>4, <2>5, ThrowKeeps DEF DivideInto
  <2>6. CASE call.z # call.a
    <3> HIDE DEF d
    <3>1. /\ call' = Returned
          /\ reg' = [reg EXCEPT ![call.z] = d.quotient, ![call.a] = d.remainder]
      BY <1>4, <2>6 DEF DivideInto, d
    <3>2. /\ d.quotient \in [sign : SignValues, mag : Seq(Blocks)]
          /\ d.remainder \in [sign : SignValues, mag : Seq(Blocks)]
      BY <2>4 DEF IsNormal
    <3>3. reg' \in [Objects -> [sign : SignValues, mag : Seq(Blocks)]]
      BY <3>1, <3>2 DEF IInv
    <3>4. NumbersAreNormal'
      <4>1. ASSUME NEW z \in Objects PROVE IsNormal(reg'[z])
        <5>1. reg'[z] = IF z = call.a THEN d.remainder
                        ELSE IF z = call.z THEN d.quotient ELSE reg[z]
          BY <3>1 DEF IInv
        <5> QED
          BY <2>4, <5>1 DEF IInv, NumbersAreNormal
      <4> QED
        BY <4>1 DEF NumbersAreNormal
    <3>5. CallIsMade'
      BY <3>1 DEF CallIsMade, Returned
    <3> QED
      BY <3>3, <3>4, <3>5 DEF IInv
  <2> QED
    BY <2>5, <2>6
<1>5. CASE Negate
  <2>1. call.op = "negate" /\ Returns(Negated(reg[call.a]))
    BY <1>5 DEF Negate
  <2>2. OfOneCall(call)
    BY <2>1, CallIsKnown, CallFacts
  <2>3. IsNormal(Negated(reg[call.a]))
    BY <2>2, Operand, NegationIsRight DEF OfOneCall
  <2> QED
    BY <2>1, <2>2, <2>3, ReturnKeeps DEF OfOneCall
<1>6. CASE Step
  <2>1. call.op = "step" /\ Returns(Stepped(reg[call.z], call.n))
    BY <1>6 DEF Step
  <2>2. call.z \in Objects /\ call.n \in {-1, 1}
    BY <2>1, CallIsKnown, CallFacts
  <2>3. IsNormal(Stepped(reg[call.z], call.n))
    BY <2>2, Operand, StepIsRight
  <2> QED
    BY <2>1, <2>2, <2>3, ReturnKeeps
<1>7. CASE Copy
  <2>1. call.op = "copy" /\ Returns(reg[call.a])
    BY <1>7 DEF Copy
  <2>2. OfOneCall(call)
    BY <2>1, CallIsKnown, CallFacts
  <2>3. IsNormal(reg[call.a])
    BY <2>2, Operand DEF OfOneCall
  <2> QED
    BY <2>1, <2>2, <2>3, ReturnKeeps DEF OfOneCall
<1>8. CASE Move
  <2>1. call.op = "move"
    BY <1>8 DEF Move
  <2>2. OfOneCall(call) /\ call.z # call.a
    BY <2>1, CallIsKnown, CallFacts DEF IInv, CallIsMade
  <2>3. call.z \in Objects /\ call.a \in Objects
    BY <2>2 DEF OfOneCall
  <2>4. /\ call' = Returned
        /\ reg' = [reg EXCEPT ![call.z] = reg[call.a], ![call.a] = [sign |-> 0, mag |-> <<>>]]
    BY <1>8, <2>2 DEF Move
  <2>5. IsNormal(Zero) /\ Zero \in [sign : SignValues, mag : Seq(Blocks)]
    BY ZeroFacts DEF IsNormal
  <2>6. /\ reg' \in [Objects -> [sign : SignValues, mag : Seq(Blocks)]]
        /\ \A z \in Objects : reg'[z] = IF z = call.a THEN Zero
                                        ELSE IF z = call.z THEN reg[call.a] ELSE reg[z]
    <3>1. reg' = [reg EXCEPT ![call.z] = reg[call.a], ![call.a] = Zero]
      BY <2>4, Zenon DEF Zero
    <3> QED
      BY <2>3, <2>5, <3>1 DEF IInv
  <2>7. NumbersAreNormal'
    <3>1. ASSUME NEW z \in Objects PROVE IsNormal(reg'[z])
      BY <2>3, <2>5, <2>6 DEF IInv, NumbersAreNormal
    <3> QED
      BY <3>1 DEF NumbersAreNormal
  <2>8. CallIsMade'
    BY <2>4 DEF CallIsMade, Returned
  <2> QED
    BY <2>6, <2>7, <2>8 DEF IInv
<1>9. CASE CombineMagnitudes
  <2> DEFINE x == reg[call.a].mag
             y == reg[call.b].mag
             m == MagnitudeCombination(call.by, x, y)
             bad == \/ call.by \in {"/", "%"} /\ y = <<>>
                    \/ call.by = "-" /\ Negative(x, y)
  <2>1. call.op = "magnitude"
    BY <1>9 DEF CombineMagnitudes
  <2>2. OfTwoCall(call) /\ call.by \in {"+", "-", "*", "/", "%", "&", "|", "^"}
    BY <2>1, CallIsKnown, CallFacts
  <2>3. x \in Seq(Blocks) /\ y \in Seq(Blocks) /\ Canonical(x) /\ Canonical(y) /\ call.z \in Objects
    BY <2>2, Operand DEF OfTwoCall
  <2>4. CASE bad
    BY <1>9, <2>4, ThrowKeeps DEF CombineMagnitudes
  <2>5. CASE ~bad
    <3>1. Returns(Integer(m, 1))
      BY <1>9, <2>5 DEF CombineMagnitudes
    <3>2. m \in Seq(Blocks) /\ Canonical(m)
      <4> HIDE DEF x, y
      <4> QED
        BY <2>2, <2>3, <2>5, MagnitudesStayCanonical
    <3> HIDE DEF m
    <3>3. IsNormal(Integer(m, 1))
      BY <3>2, MagnitudeIsNormal
    <3> QED
      BY <2>3, <3>1, <3>3, ReturnKeeps
  <2> QED
    BY <2>4, <2>5
<1>10. CASE SubtractHere
  <2> DEFINE x == reg[call.a].mag
             y == reg[call.b].mag
             m == MagnitudeCombination("-", x, y)
  <2>1. call.op = "subtract" /\ m = subtract(x, y)
    BY <1>10 DEF SubtractHere, MagnitudeCombination
  <2>2. OfTwoCall(call)
    BY <2>1, CallIsKnown, CallFacts
  <2>3. x \in Seq(Blocks) /\ y \in Seq(Blocks) /\ Canonical(x) /\ Canonical(y) /\ call.z \in Objects
    BY <2>2, Operand DEF OfTwoCall
  <2>4. CASE Negative(x, y)
    <3>1. call' = Thrown /\ (reg' = [reg EXCEPT ![call.z] = Zero] \/ reg' = reg)
      BY <1>10, <2>3, <2>4 DEF SubtractHere, IInv
    <3> QED
      BY <2>3, <3>1, SpoilingKeeps, ThrowKeeps DEF Throws
  <2>5. CASE ~Negative(x, y)
    <3>1. Returns(Integer(m, 1))
      BY <1>10, <2>1, <2>5 DEF SubtractHere
    <3>2. m \in Seq(Blocks) /\ Canonical(m)
      <4> HIDE DEF x, y
      <4> QED
        BY <2>3, <2>5, MagnitudesStayCanonical
    <3> HIDE DEF m
    <3>3. IsNormal(Integer(m, 1))
      BY <3>2, MagnitudeIsNormal
    <3> QED
      BY <2>3, <3>1, <3>3, ReturnKeeps
  <2> QED
    BY <2>4, <2>5
<1>11. CASE IncreaseMagnitude
  <2> DEFINE m == increment(reg[call.a].mag)
  <2>1. call.op = "increase" /\ Returns(Integer(m, 1))
    BY <1>11 DEF IncreaseMagnitude
  <2>2. OfOneCall(call)
    BY <2>1, CallIsKnown, CallFacts
  <2>3. m \in Seq(Blocks) /\ Canonical(m)
    BY <2>2, Operand, IncrementIsRight DEF OfOneCall
  <2> HIDE DEF m
  <2>4. IsNormal(Integer(m, 1))
    BY <2>3, MagnitudeIsNormal
  <2> QED
    BY <2>1, <2>2, <2>4, ReturnKeeps DEF OfOneCall
<1>12. CASE DecreaseMagnitude
  <2> DEFINE x == reg[call.a].mag
             m == decrement(x)
  <2>1. call.op = "decrease"
    BY <1>12 DEF DecreaseMagnitude
  <2>2. OfOneCall(call)
    BY <2>1, CallIsKnown, CallFacts
  <2>3. CASE x = <<>>
    BY <1>12, <2>3, ThrowKeeps DEF DecreaseMagnitude
  <2>4. CASE x # <<>>
    <3>1. Returns(Integer(m, 1))
      BY <1>12, <2>4 DEF DecreaseMagnitude
    <3>2. m \in Seq(Blocks) /\ Canonical(m)
      BY <2>2, <2>4, Operand, DecrementIsRight DEF OfOneCall
    <3> HIDE DEF m
    <3>3. IsNormal(Integer(m, 1))
      BY <3>2, MagnitudeIsNormal
    <3> QED
      BY <2>2, <3>1, <3>3, ReturnKeeps DEF OfOneCall
  <2> QED
    BY <2>3, <2>4
<1>13. CASE ShiftMagnitude
  <2> DEFINE x == reg[call.a].mag
             m == IF call.left THEN bitShiftLeft(x, call.n) ELSE bitShiftRight(x, call.n)
  <2>1. call.op = "shift" /\ Returns(Integer(m, 1))
    BY <1>13 DEF ShiftMagnitude
  <2>2. OfOneCall(call) /\ call.n \in Int
    BY <2>1, CallIsKnown, CallFacts
  <2>3. x # <<>>
    BY <2>1 DEF IInv, CallIsMade
  <2>4. m \in Seq(Blocks) /\ Canonical(m)
    <3>1. x \in Seq(Blocks) /\ Canonical(x)
      BY <2>2, Operand DEF OfOneCall
    <3> HIDE DEF x
    <3> QED
      BY <2>2, <2>3, <3>1, ShiftIsCanonical
  <2> HIDE DEF m
  <2>5. IsNormal(Integer(m, 1))
    BY <2>4, MagnitudeIsNormal
  <2> QED
    BY <2>1, <2>2, <2>5, ReturnKeeps DEF OfOneCall
<1>14. CASE SetInMagnitude
  <2> DEFINE x == reg[call.a].mag
             m == IF call.radix = 2 THEN setBit(x, call.i, call.n) ELSE setBlock(x, call.i, call.n)
  <2>1. call.op = "set" /\ Returns(Integer(m, 1))
    BY <1>14 DEF SetInMagnitude
  <2>2. OfOneCall(call) /\ call.i \in Nat /\ call.n \in Blocks /\ (call.radix = 2 => call.n \in {0, 1})
    BY <2>1, CallIsKnown, CallFacts
  <2>3. m \in Seq(Blocks) /\ Canonical(m)
    <3>1. x \in Seq(Blocks) /\ Canonical(x)
      BY <2>2, Operand DEF OfOneCall
    <3> HIDE DEF x
    <3> QED
      BY <2>2, <3>1, SettingBit, SetBlockFacts
  <2> HIDE DEF m
  <2>4. IsNormal(Integer(m, 1))
    BY <2>3, MagnitudeIsNormal
  <2> QED
    BY <2>1, <2>2, <2>4, ReturnKeeps DEF OfOneCall
<1>15. CASE FromPrimitive
  <2> DEFINE n == call.n
             w == call.width
             b == magOf(n, w)
             m == zapLeadingZeros(<<b>>)
             x == IF n < 2 ^ (w - 1) THEN [sign |-> SignOf(n), mag |-> m] ELSE Integer(<<n>>, 1)
  <2>1. call.op = "primitive" /\ Returns(x)
    BY <1>15 DEF FromPrimitive
  <2>2. /\ call.z \in Objects /\ w \in 1 .. N /\ n \in -Base .. Base - 1
        /\ n \in -(2 ^ (w - 1)) .. 2 ^ w - 1
    BY <2>1, CallIsKnown, CallFacts
  <2>3. CASE n < 2 ^ (w - 1)
    <3>1. b \in Blocks /\ (b = 0 <=> n = 0)
      <4> HIDE DEF n, w
      <4> QED
        BY <2>2, PrimitiveFacts
    <3> HIDE DEF b
    <3>2. m \in Seq(Blocks) /\ Canonical(m) /\ Value(m) = b
      <4>1. <<b>> \in Seq(Blocks) /\ Value(<<b>>) = b
        BY <3>1, ValueOfBlock
      <4> QED
        BY <4>1, ZapFacts
    <3> HIDE DEF m
    <3>3. m = <<>> <=> n = 0
      BY <3>1, <3>2, ZeroHasNoBlock
    <3>4. SignOf(n) \in {-1, 0, 1} /\ (SignOf(n) = 0 <=> n = 0)
      <4>1. n \in Int
        BY <2>2, BaseType
      <4> QED
        BY <4>1 DEF SignOf, Order
    <3>5. x = [sign |-> SignOf(n), mag |-> m]
      BY <2>3
    <3>6. IsNormal(x)
      <4> HIDE DEF x
      <4> QED
        BY <3>2, <3>3, <3>4, <3>5 DEF IsNormal, SignValues
    <3> HIDE DEF x
    <3> QED
      BY <2>1, <2>2, <3>6, ReturnKeeps
  <2>4. CASE ~(n < 2 ^ (w - 1))
    <3>1. 2 ^ (w - 1) \in Nat \ {0}
      <4>1. w - 1 \in 0 .. N - 1
        BY <2>2, BlockAssumption
      <4> QED
        BY <4>1, PowerAssumption
    <3>2. n \in Blocks /\ n # 0
      <4> DEFINE p == 2 ^ (w - 1)
      <4>1. p \in Nat \ {0} /\ ~(n < p)
        BY <2>4, <3>1
      <4> HIDE DEF p, n
      <4> QED
        BY <2>2, <4>1, BaseType DEF Blocks
    <3>3. <<n>> \in Seq(Blocks) /\ Canonical(<<n>>)
      BY <3>2, OneBlock
    <3>4. x = Integer(<<n>>, 1)
      BY <2>4
    <3>5. IsNormal(x)
      <4> DEFINE u == <<n>>
      <4>1. u \in Seq(Blocks) /\ Canonical(u) /\ x = Integer(u, 1)
        BY <3>3, <3>4
      <4> HIDE DEF x, u
      <4>2. IsNormal(Integer(u, 1))
        BY <4>1, MagnitudeIsNormal
      <4> QED
        BY <4>1, <4>2
    <3> HIDE DEF x
    <3> QED
      BY <2>1, <2>2, <3>5, ReturnKeeps
  <2> QED
    BY <2>3, <2>4
<1>16. CASE FromData
  <2> DEFINE digits == IF call.radix = Base THEN call.digits ELSE Packed(call.digits)
             m == zapLeadingZeros(digits)
  <2>1. call.op = "data"
    BY <1>16 DEF FromData
  <2>2. /\ call.z \in Objects /\ call.sign \in SignValues
        /\ IF call.radix = Base THEN call.digits \in Seq(Blocks)
           ELSE call.digits \in Seq(0 .. 2 ^ PieceBits - 1)
    BY <2>1, CallIsKnown, CallFacts
  <2>3. digits \in Seq(Blocks)
    <3>1. CASE call.radix = Base
      BY <2>2, <3>1
    <3>2. CASE call.radix # Base
      <4>1. Packed(call.digits) \in Seq(Blocks)
        BY <2>2, <3>2, PackedFacts
      <4> QED
        BY <3>2, <4>1
    <3> QED
      BY <3>1, <3>2
  <2>4. m \in Seq(Blocks) /\ Canonical(m)
    <3> HIDE DEF digits
    <3> QED
      BY <2>3, ZapFacts
  <2>5. IF call.sign = 0 /\ m # <<>> THEN Throws ELSE Returns(Integer(m, call.sign))
    BY <1>16 DEF FromData
  <2> HIDE DEF m
  <2>6. CASE call.sign = 0 /\ m # <<>>
    BY <2>5, <2>6, ThrowKeeps
  <2>7. CASE ~(call.sign = 0 /\ m # <<>>)
    <3>1. Returns(Integer(m, call.sign))
      BY <2>5, <2>7
    <3>2. IsNormal(Integer(m, call.sign))
      BY <2>2, <2>4, <2>7, MagnitudeIsNormal DEF SignValues
    <3> QED
      BY <2>2, <3>1, <3>2, ReturnKeeps
  <2> QED
    BY <2>6, <2>7
<1>17. CASE Parse
  <2> DEFINE m == MagnitudeOf(call.digits, Radix)
  <2>1. call.op = "text"
    BY <1>17 DEF Parse
  <2>2. call.z \in Objects /\ call.sign \in {-1, 1} /\ call.digits \in Seq(Nat)
    BY <2>1, CallIsKnown, CallFacts
  <2>3. CASE BadDigits(call.digits, Radix)
    BY <1>17, <2>3, ThrowKeeps DEF Parse
  <2>4. CASE ~BadDigits(call.digits, Radix)
    <3>1. Returns(Integer(m, call.sign))
      BY <1>17, <2>4 DEF Parse
    <3>2. m \in Seq(Blocks) /\ Canonical(m)
      BY <2>2, <2>4, MagnitudeIsCanonical
    <3> HIDE DEF m
    <3>3. call.sign \in {-1, 0, 1} /\ call.sign # 0
      BY <2>2
    <3>4. IsNormal(Integer(m, call.sign))
      BY <3>2, <3>3, MagnitudeIsNormal
    <3> QED
      BY <2>2, <3>1, <3>4, ReturnKeeps
  <2> QED
    BY <2>3, <2>4
<1> QED
  BY <1>1, <1>2, <1>3, <1>4, <1>5, <1>6, <1>7, <1>8, <1>9, <1>10, <1>11, <1>12, <1>13,
     <1>14, <1>15, <1>16, <1>17 DEF Next

\* Whatever calls a program makes, every BigInteger has no leading zero block, and
\* the sign zero just where it is zero: unless it shifts zero to the left or moves
\* a number to itself, whose results break these rules.
THEOREM NumbersStayNormal ==
  ASSUME "shift_zero" \notin Misuses, "self_move" \notin Misuses
  PROVE  Spec => []Normal
<1>1. Init => IInv
  BY InitIInv
<1>2. IInv /\ [Next]_vars => IInv'
  BY StepIInv
<1>3. IInv => Normal
  BY DEF IInv, NumbersAreNormal, IsNormal, Normal
<1> QED
  BY <1>1, <1>2, <1>3, PTL DEF Spec

-----------------------------------------------------------------------------
(* Comparison                                                                *)

\* The order of integers is one of three.
LEMMA OrderFacts ==
  ASSUME NEW a \in Int, NEW b \in Int
  PROVE  /\ Order(a, b) \in {-1, 0, 1}
         /\ Order(a, b) = -1 <=> a < b
         /\ Order(a, b) = 0 <=> a = b
         /\ Order(a, b) = 1 <=> a > b
         /\ Order(-a, -b) = -Order(a, b)
  BY DEF Order

\* compareTo() orders normal numbers as the integers that they stand for.
LEMMA IntegersCompare ==
  ASSUME NEW x, NEW y, IsNormal(x), IsNormal(y)
  PROVE  compareIntegers(x, y) = Order(Held(x), Held(y))
<1> DEFINE a == Value(x.mag)
           b == Value(y.mag)
           p == Held(x)
           q == Held(y)
           o == compareTo(x.mag, y.mag)
<1>1. /\ x.sign \in {-1, 0, 1} /\ x.mag \in Seq(Blocks) /\ Canonical(x.mag)
      /\ a \in Nat
      /\ x.sign = 0 <=> a = 0
      /\ x.sign = -1 => p = -a
      /\ x.sign = 0 => p = 0
      /\ x.sign = 1 => p = a
      /\ p \in Int
  BY NormalFacts
<1>2. /\ y.sign \in {-1, 0, 1} /\ y.mag \in Seq(Blocks) /\ Canonical(y.mag)
      /\ b \in Nat
      /\ y.sign = 0 <=> b = 0
      /\ y.sign = -1 => q = -b
      /\ y.sign = 0 => q = 0
      /\ y.sign = 1 => q = b
      /\ q \in Int
  BY NormalFacts
<1>3. o = Order(a, b)
  BY <1>1, <1>2, ComparisonIsRight
<1> HIDE DEF a, b, p, q, o
<1>4. CASE x.sign # y.sign
  <2>1. compareIntegers(x, y) = Order(x.sign, y.sign)
    BY <1>4 DEF compareIntegers
  <2>2. Order(x.sign, y.sign) = Order(p, q)
    BY <1>1, <1>2, <1>4 DEF Order
  <2> QED
    BY <2>1, <2>2 DEF p, q
<1>5. CASE x.sign = y.sign
  <2>1. compareIntegers(x, y) = x.sign * o
    BY <1>5 DEF compareIntegers, o
  <2>2. o \in {-1, 0, 1}
    BY <1>1, <1>2, <1>3, OrderFacts
  <2>3. x.sign * o = Order(p, q)
    <3>1. CASE x.sign = 1
      BY <1>1, <1>2, <1>3, <1>5, <2>2, <3>1
    <3>2. CASE x.sign = 0
      <4>1. a = 0 /\ b = 0 /\ p = 0 /\ q = 0
        BY <1>1, <1>2, <1>5, <3>2
      <4>2. x.sign * o = 0 /\ Order(p, q) = 0
        BY <2>2, <3>2, <4>1 DEF Order
      <4> QED
        BY <4>2
    <3>3. CASE x.sign = -1
      <4>1. x.sign * o = -o
        BY <2>2, <3>3
      <4>2. p = -a /\ q = -b
        BY <1>1, <1>2, <1>5, <3>3
      <4>3. Order(-a, -b) = -Order(a, b)
        BY <1>1, <1>2, OrderFacts
      <4> QED
        BY <1>3, <4>1, <4>2, <4>3
    <3> QED
      BY <1>1, <3>1, <3>2, <3>3
  <2> QED
    BY <2>1, <2>3 DEF p, q
<1> QED
  BY <1>4, <1>5

\* operator == tells numbers apart as the integers that they stand for.
LEMMA IntegersEqual ==
  ASSUME NEW x, NEW y, IsNormal(x), IsNormal(y)
  PROVE  EqualIntegers(x, y) <=> Held(x) = Held(y)
<1>1. /\ x.sign \in {-1, 0, 1} /\ x.mag \in Seq(Blocks) /\ Canonical(x.mag)
      /\ Held(x) \in Int
  BY NormalFacts
<1>2. /\ y.sign \in {-1, 0, 1} /\ y.mag \in Seq(Blocks) /\ Canonical(y.mag)
      /\ Held(y) \in Int
  BY NormalFacts
<1>3. ASSUME EqualIntegers(x, y) PROVE Held(x) = Held(y)
  <2>1. x.sign = y.sign /\ Len(x.mag) = Len(y.mag) /\ \A i \in DOMAIN x.mag : x.mag[i] = y.mag[i]
    BY <1>3 DEF EqualIntegers, Equal
  <2> DEFINE m == x.mag
             n == y.mag
  <2>2. m \in Seq(Blocks) /\ n \in Seq(Blocks) /\ Len(m) = Len(n) /\ \A i \in DOMAIN m : m[i] = n[i]
    BY <1>1, <1>2, <2>1
  <2> HIDE DEF m, n
  <2>3. m = n
    BY <2>2
  <2> QED
    BY <2>1, <2>3 DEF Held, m, n
<1>4. ASSUME Held(x) = Held(y) PROVE EqualIntegers(x, y)
  <2>1. Order(Held(x), Held(y)) = 0
    BY <1>1, <1>2, <1>4, OrderFacts
  <2>2. compareIntegers(x, y) = 0
    BY <2>1, IntegersCompare
  <2>3. x.sign = y.sign
    <3>1. x.sign # y.sign => Order(x.sign, y.sign) = 0
      BY <2>2 DEF compareIntegers
    <3> QED
      BY <1>1, <1>2, <3>1, OrderFacts
  <2>4. CASE x.sign = 0
    <3>1. x.mag = <<>> /\ y.mag = <<>>
      BY <2>3, <2>4 DEF IsNormal
    <3> QED
      BY <2>3, <3>1 DEF EqualIntegers, Equal
  <2>5. CASE x.sign # 0
    <3> DEFINE m == x.mag
               n == y.mag
               o == compareTo(m, n)
    <3>1. x.sign * o = 0 /\ o \in {-1, 0, 1}
      <4>1. o = Order(Value(m), Value(n)) /\ Value(m) \in Nat /\ Value(n) \in Nat
        BY <1>1, <1>2, ComparisonIsRight, ValueIsFrom
      <4>2. o \in {-1, 0, 1}
        BY <4>1, OrderFacts
      <4> QED
        BY <2>2, <2>3, <4>2 DEF compareIntegers
    <3> HIDE DEF o
    <3>2. o = 0
      BY <1>1, <2>5, <3>1
    <3> DEFINE differing == {i \in DOMAIN m : m[i] # n[i]}
    <3>3. m \in Seq(Blocks) /\ n \in Seq(Blocks)
      BY <1>1, <1>2
    <3> HIDE DEF m, n
    <3>4. Len(m) = Len(n)
      <4>1. Len(m) # Len(n) => Order(Len(m), Len(n)) = 0
        BY <3>2 DEF o, compareTo
      <4>2. Len(m) \in Int /\ Len(n) \in Int
        BY <3>3
      <4> DEFINE a == Len(m)
                 b == Len(n)
      <4>3. a \in Int /\ b \in Int /\ (a # b => Order(a, b) = 0)
        BY <4>1, <4>2
      <4> HIDE DEF a, b
      <4>4. a = b
        BY <4>3, OrderFacts
      <4> QED
        BY <4>4 DEF a, b
    <3>5. differing = {}
      <4> SUFFICES ASSUME differing # {} PROVE FALSE
        OBVIOUS
      <4>1. o = Order(m[Max(differing)], n[Max(differing)])
        BY <3>4 DEF o, compareTo
      <4>2. Max(differing) \in differing
        <5>1. differing \in SUBSET (0 .. Len(m)) /\ Len(m) \in Nat
          BY <3>3
        <5> HIDE DEF differing
        <5> QED
          BY <5>1, MaxFacts
      <4> DEFINE i == Max(differing)
      <4>3. i \in DOMAIN m /\ i \in DOMAIN n /\ m[i] # n[i]
        BY <3>3, <3>4, <4>2
      <4> HIDE DEF i
      <4>4. m[i] \in Int /\ n[i] \in Int
        <5>1. m[i] \in Blocks /\ n[i] \in Blocks
          BY <3>3, <4>3
        <5> QED
          BY <5>1, BaseType DEF Blocks
      <4> QED
        BY <3>2, <4>1, <4>3, <4>4, OrderFacts DEF i
    <3>6. Equal(m, n)
      BY <3>4, <3>5 DEF Equal
    <3> QED
      BY <2>3, <3>6 DEF EqualIntegers, m, n
  <2> QED
    BY <2>4, <2>5
<1> QED
  BY <1>3, <1>4

-----------------------------------------------------------------------------
(* The length in bits                                                        *)

\* A number of so many bits is less than the next power of two and not less
\* than its own, also where a bit begins a block.
LEMMA LengthFacts ==
  ASSUME NEW x \in Seq(Blocks), Canonical(x)
  PROVE  /\ bitLength(x) \in Nat
         /\ Value(x) < Unit(bitLength(x))
         /\ x # <<>> => bitLength(x) # 0 /\ Unit(bitLength(x) - 1) <= Value(x)
<1>1. CASE x = <<>>
  <2>1. bitLength(x) = 0 /\ Value(x) = 0
    BY <1>1, ValueOfFew DEF bitLength
  <2> QED
    BY <1>1, <2>1, FirstUnit
<1>2. CASE x # <<>>
  <2> DEFINE t == Last(x)
             i == Len(x) - 1
             L == {l \in 0 .. N : t < 2 ^ l}
             l == Min(L)
             w == Weight(i)
             v == Value(x)
  <2>1. Len(x) \in Nat /\ i \in Nat /\ Len(x) = i + 1
    BY <1>2, LastBlock
  <2>2. t \in Blocks /\ t \in Nat /\ t < Base /\ t # 0 /\ t = Block(x, Len(x))
    <3>1. t = Block(x, Len(x)) /\ t # 0
      BY <1>2, LastBlock DEF Canonical
    <3>2. Block(x, Len(x)) \in Blocks
      BY <2>1, BlocksType
    <3> QED
      BY <3>1, <3>2, BaseType DEF Blocks
  <2>3. N \in Nat \ {0} /\ N \in L
    BY <2>2, BlockAssumption DEF Base
  <2>4. l \in L /\ \A j \in L : l <= j
    <3>0. L \in SUBSET Nat
      BY <2>3
    <3> HIDE DEF L
    <3>1. L \in SUBSET Nat /\ L # {}
      BY <2>3, <3>0
    <3>2. \E m \in L : \A j \in L : m <= j
      BY <3>1, Least
    <3> QED
      BY <3>2 DEF Min
  <2>5. l \in 0 .. N /\ t < 2 ^ l
    BY <2>4
  <2>6. l # 0
    <3> HIDE DEF l, L, t
    <3>1. ASSUME l = 0 PROVE FALSE
      <4>1. t < 2 ^ 0
        BY <2>5, <3>1
      <4>2. t < 1
        BY <4>1, PowerAssumption
      <4> QED
        BY <2>2, <4>2
    <3> QED
      BY <3>1
  <2>7. l - 1 \in 0 .. N - 1 /\ 2 ^ (l - 1) <= t
    <3>1. l - 1 \in 0 .. N - 1 /\ l - 1 \in 0 .. N /\ ~(l <= l - 1)
      <4> HIDE DEF l
      <4> QED
        BY <2>3, <2>5, <2>6
    <3>2. l - 1 \notin L
      <4> HIDE DEF L, l
      <4> QED
        BY <2>4, <3>1
    <3>3. 2 ^ (l - 1) \in Nat
      <4> HIDE DEF l
      <4> QED
        BY <3>1, PowerAssumption
    <3>4. ~(t < 2 ^ (l - 1))
      <4> HIDE DEF l, t
      <4> QED
        BY <3>1, <3>2 DEF L
    <3> HIDE DEF l, t
    <3> QED
      BY <2>2, <3>1, <3>3, <3>4
  <2>8. bitLength(x) = i * N + l
    <3> HIDE DEF i, l
    <3>1. bitLength(x) = l + i * N
      BY <1>2 DEF bitLength, l, L, t, i
    <3> DEFINE c == i * N
    <3>2. c \in Nat /\ l \in Nat
      BY <2>1, <2>3, <2>5, Products
    <3>3. bitLength(x) = l + c
      BY <3>1
    <3> HIDE DEF c
    <3>4. bitLength(x) = c + l
      BY <3>2, <3>3
    <3> QED
      BY <3>4 DEF c
  <2> HIDE DEF L, l, t, w, v
  <2>9. w * t <= v /\ v < w * (t + 1) /\ w \in Nat \ {0} /\ v \in Nat
    <3> DEFINE a == SubSeq(x, 1, i)
               b == SubSeq(x, i + 1, Len(x))
    <3>1. i \in 0 .. Len(x)
      BY <2>1
    <3>2. a \in Seq(Blocks) /\ Len(a) = i /\ b \in Seq(Blocks) /\ Len(b) = Len(x) - i
          /\ Value(x) = Value(a) + Weight(i) * Value(b)
      BY <3>1, CutValue
    <3>3. Value(b) = t
      <4>1. b = <<t>>
        <5>1. b[1] = x[Len(x)] /\ Len(b) = 1
          BY <2>1, <3>2
        <5>2. t = x[Len(x)]
          BY DEF t, Last
        <5> HIDE DEF b
        <5>3. b = <<b[1]>>
          BY <3>2, <5>1
        <5> QED
          BY <5>1, <5>2, <5>3
      <4> QED
        BY <2>2, <4>1, ValueOfBlock
    <3>4. Value(a) < Weight(i) /\ Value(a) \in Nat /\ Weight(i) \in Nat \ {0}
      <4> HIDE DEF i, a
      <4>1. Len(a) <= i
        BY <2>1, <3>2
      <4> QED
        BY <2>1, <3>2, <4>1, BelowWeight, ValueIsFrom, Weights
    <3> DEFINE r == Value(a)
               h == w * t
    <3>5. v = r + h /\ r < w /\ r \in Nat /\ w \in Nat \ {0}
      <4> HIDE DEF a, b
      <4> QED
        BY <3>2, <3>3, <3>4 DEF v, w
    <3>6. h \in Nat /\ w * (t + 1) = h + w * 1
      BY <2>2, <3>5, Products
    <3> HIDE DEF r, h
    <3>7. h <= v /\ v < h + w /\ v \in Nat
      BY <3>5, <3>6
    <3>8. w * 1 = w
      BY <3>5
    <3> QED
      BY <3>5, <3>6, <3>7, <3>8 DEF h
  <2>10. ASSUME NEW s \in 0 .. N
         PROVE  Unit(i * N + s) = w * 2 ^ s /\ i * N + s \in Nat /\ 2 ^ s \in Nat \ {0}
    <3> HIDE DEF i
    <3> DEFINE c == i * N
    <3>1. c \in Nat
      BY <2>1, <2>3, Products
    <3>2. 2 ^ s \in Nat \ {0}
      BY Powers
    <3>3. CASE s # N
      <4>1. s \in Nat /\ s < N
        BY <2>3, <3>3
      <4>2. c = N * i
        BY <2>1, <2>3, Products
      <4>3. (c + s) \div N = i /\ (c + s) % N = s /\ c + s \in Nat
        <5>1. c + s = N * i + s /\ c + s \in Nat
          <6> HIDE DEF c
          <6> QED
            BY <3>1, <4>1, <4>2
        <5> HIDE DEF c
        <5> QED
          BY <2>1, <2>3, <4>1, <5>1, QuotientIs
      <4> QED
        BY <3>2, <4>3 DEF Unit, w
    <3>4. CASE s = N
      <4> DEFINE j == i + 1
      <4>1. c + N = j * N /\ j \in Nat
        BY <2>1, <2>3
      <4>2. Unit(j * N) = Weight(j)
        <5> HIDE DEF j
        <5> QED
          BY <4>1, BlockUnits
      <4>3. Weight(j) = Base * w /\ Base * w = w * Base
        BY <2>1, <2>9, BaseType, Weights, Products DEF w
      <4> HIDE DEF c, j
      <4>4. Unit(c + s) = w * Base
        BY <3>4, <4>1, <4>2, <4>3
      <4>5. c + s \in Nat
        BY <2>3, <3>1, <3>4
      <4> QED
        BY <3>2, <3>4, <4>4, <4>5 DEF Base, c
    <3> QED
      BY <3>3, <3>4
  <2>11. v < Unit(bitLength(x)) /\ bitLength(x) \in Nat
    <3> DEFINE p == 2 ^ l
    <3>1. Unit(bitLength(x)) = w * p /\ bitLength(x) \in Nat /\ p \in Nat
      BY <2>5, <2>8, <2>10
    <3>2. t + 1 <= p /\ t + 1 \in Nat
      <4>1. t < p
        BY <2>5
      <4> HIDE DEF p
      <4> QED
        BY <2>2, <3>1, <4>1
    <3> HIDE DEF p
    <3>3. w * (t + 1) <= w * p
      BY <2>9, <3>1, <3>2, Products
    <3> DEFINE a == w * (t + 1)
               b == w * p
    <3>4. a \in Nat /\ b \in Nat /\ a <= b /\ v < a
      BY <2>9, <3>1, <3>2, <3>3, Products
    <3> HIDE DEF a, b
    <3>5. v < b
      BY <2>9, <3>4
    <3> QED
      BY <3>1, <3>5 DEF b
  <2>12. Unit(bitLength(x) - 1) <= v /\ bitLength(x) # 0
    <3> DEFINE s == l - 1
               p == 2 ^ s
               c == i * N
    <3>1. s \in 0 .. N /\ p <= t /\ c \in Nat /\ l \in Nat \ {0} /\ bitLength(x) = c + l
      BY <2>1, <2>3, <2>5, <2>6, <2>7, <2>8, Products
    <3>2. Unit(c + s) = w * p /\ p \in Nat
      BY <2>10, <3>1
    <3> HIDE DEF c
    <3>3. bitLength(x) - 1 = c + s /\ bitLength(x) # 0
      BY <3>1
    <3> HIDE DEF s, p
    <3>4. w * p <= w * t
      BY <2>2, <2>9, <3>1, <3>2, Products
    <3> DEFINE a == w * p
               b == w * t
    <3>5. a \in Nat /\ b \in Nat /\ a <= b /\ b <= v
      BY <2>2, <2>9, <3>2, <3>4, Products
    <3> HIDE DEF a, b
    <3>6. a <= v
      BY <2>9, <3>5
    <3> QED
      BY <3>2, <3>3, <3>6 DEF a
  <2> QED
    BY <2>11, <2>12 DEF v
<1> QED
  BY <1>1, <1>2

\* Units are powers of two, as far as ComparesRight looks.
LEMMA UnitsArePowers ==
  ASSUME NEW l \in 0 .. N * (MaxBlocks + 1)
  PROVE  2 ^ l = Unit(l)
<1> DEFINE top == N * (MaxBlocks + 1)
           Q == {m \in Nat : m <= top => 2 ^ m = Unit(m)}
<1>1. top \in Nat
  BY BlockAssumption, IntegerAssumption, Products
<1>2. \A m \in 0 .. top - 1 : 2 ^ (m + 1) = 2 * 2 ^ m
  BY LengthAssumption
<1> HIDE DEF top
<1>3. 0 \in Q
  BY PowerAssumption, FirstUnit
<1>4. ASSUME NEW m \in Q PROVE m + 1 \in Q
  <2>1. m \in Nat /\ m + 1 \in Nat
    OBVIOUS
  <2>2. CASE m + 1 <= top
    <3>1. m \in 0 .. top - 1 /\ 2 ^ m = Unit(m)
      BY <1>1, <2>1, <2>2
    <3>2. 2 ^ (m + 1) = 2 * 2 ^ m /\ Unit(m + 1) = 2 * Unit(m)
      BY <1>2, <2>1, <3>1, Units
    <3>3. 2 ^ (m + 1) = Unit(m + 1)
      BY <3>1, <3>2, Zenon
    <3> QED
      BY <2>1, <3>3
  <2>3. CASE ~(m + 1 <= top)
    BY <2>1, <2>3
  <2> QED
    BY <2>2, <2>3
<1>5. Q = Nat
  <2>1. Q \in SUBSET Nat
    OBVIOUS
  <2> HIDE DEF Q
  <2> QED
    BY <1>3, <1>4, <2>1, Induct
<1>6. l \in Q /\ l <= top
  <2>1. l \in Nat /\ l <= top
    BY DEF top
  <2> HIDE DEF Q
  <2> QED
    BY <1>5, <2>1
<1> QED
  BY <1>6

\* They grow.
LEMMA UnitsGrow ==
  ASSUME NEW l \in Nat, NEW m \in Nat, l <= m
  PROVE  Unit(l) <= Unit(m)
<1> DEFINE Q == {k \in Nat : Unit(l) <= Unit(l + k)}
<1>1. 0 \in Q
  <2>1. l + 0 = l /\ Unit(l) \in Nat
    BY Units
  <2> QED
    BY <2>1
<1>2. ASSUME NEW k \in Q PROVE k + 1 \in Q
  <2>1. k + 1 \in Nat /\ l + k \in Nat /\ l + (k + 1) = (l + k) + 1
    OBVIOUS
  <2> DEFINE i == l + k
  <2>2. i \in Nat /\ Unit(l) <= Unit(i)
    OBVIOUS
  <2> HIDE DEF i
  <2>3. Unit(i) \in Nat /\ Unit(i + 1) = 2 * Unit(i) /\ Unit(l) \in Nat
    BY <2>2, Units
  <2>4. Unit(l) <= Unit(i + 1)
    BY <2>2, <2>3
  <2> QED
    BY <2>1, <2>4 DEF i
<1>3. Q = Nat
  <2>1. Q \in SUBSET Nat
    OBVIOUS
  <2> HIDE DEF Q
  <2> QED
    BY <1>1, <1>2, <2>1, Induct
<1>4. m - l \in Q /\ l + (m - l) = m
  <2>1. m - l \in Nat
    OBVIOUS
  <2> HIDE DEF Q
  <2> QED
    BY <1>3, <2>1
<1> QED
  BY <1>4

\* bitLength() is the least number of bits that the magnitude fits into.
LEMMA LengthIsRight ==
  ASSUME NEW x \in Seq(Blocks), Canonical(x), NEW l \in Nat
  PROVE  bitLength(x) <= l <=> Value(x) < Unit(l)
<1> DEFINE n == bitLength(x)
           v == Value(x)
<1>1. /\ n \in Nat /\ v \in Nat
      /\ v < Unit(n)
      /\ x # <<>> => n # 0 /\ Unit(n - 1) <= v
  BY LengthFacts, ValueIsFrom
<1>2. x = <<>> => n = 0
  BY DEF bitLength
<1> HIDE DEF n, v
<1>3. ASSUME n <= l PROVE v < Unit(l)
  <2>1. Unit(n) <= Unit(l) /\ Unit(n) \in Nat /\ Unit(l) \in Nat
    BY <1>1, <1>3, UnitsGrow, Units
  <2> QED
    BY <1>1, <2>1
<1>4. ASSUME ~(n <= l) PROVE ~(v < Unit(l))
  <2>1. x # <<>> /\ n - 1 \in Nat /\ l <= n - 1
    BY <1>1, <1>2, <1>4
  <2>2. Unit(l) <= Unit(n - 1) /\ Unit(n - 1) \in Nat /\ Unit(l) \in Nat
    BY <2>1, UnitsGrow, Units
  <2> QED
    BY <1>1, <2>1, <2>2
<1> QED
  BY <1>3, <1>4 DEF n, v

\* Between calls comparison is that of integers, == is equality and bitLength()
\* the length of the magnitude in bits, for blocks of every width: BigInteger.cc
\* compares the signs and then the magnitudes from the top.
THEOREM ComparisonStaysRight ==
  ASSUME "shift_zero" \notin Misuses, "self_move" \notin Misuses
  PROVE  Spec => []ComparesRight
<1>1. ASSUME IInv PROVE ComparesRight
  <2>1. ASSUME NEW a \in Objects, NEW b \in Objects
        PROVE  /\ compareIntegers(reg[a], reg[b]) = Order(Held(reg[a]), Held(reg[b]))
               /\ EqualIntegers(reg[a], reg[b]) <=> Held(reg[a]) = Held(reg[b])
               /\ \A l \in 0 .. N * (MaxBlocks + 1) :
                    bitLength(reg[a].mag) <= l <=> Value(reg[a].mag) < 2 ^ l
    <3>1. /\ IsNormal(reg[a]) /\ IsNormal(reg[b])
          /\ reg[a].mag \in Seq(Blocks) /\ Canonical(reg[a].mag)
      BY <1>1, Operand
    <3>2. ASSUME NEW l \in 0 .. N * (MaxBlocks + 1)
          PROVE  bitLength(reg[a].mag) <= l <=> Value(reg[a].mag) < 2 ^ l
      <4>1. l \in Nat /\ 2 ^ l = Unit(l)
        BY UnitsArePowers
      <4>2. bitLength(reg[a].mag) <= l <=> Value(reg[a].mag) < Unit(l)
        BY <3>1, <4>1, LengthIsRight
      <4> QED
        BY <4>1, <4>2
    <3>3. compareIntegers(reg[a], reg[b]) = Order(Held(reg[a]), Held(reg[b]))
      BY <3>1, IntegersCompare
    <3>4. EqualIntegers(reg[a], reg[b]) <=> Held(reg[a]) = Held(reg[b])
      BY <3>1, IntegersEqual
    <3> QED
      BY <3>2, <3>3, <3>4
  <2> QED
    BY <2>1 DEF ComparesRight
<1>2. Init => IInv
  BY InitIInv
<1>3. IInv /\ [Next]_vars => IInv'
  BY StepIInv
<1> QED
  BY <1>1, <1>2, <1>3, PTL DEF Spec

-----------------------------------------------------------------------------
(* Conversion to primitives                                                  *)

\* The remainder in the two ranges that two's complement uses.
LEMMA TwoRanges ==
  ASSUME NEW p \in Nat \ {0}, NEW t \in 0 .. 4 * p - 1
  PROVE  /\ t < 2 * p => t % (2 * p) = t
         /\ t >= 2 * p => t % (2 * p) = t - 2 * p
<1> DEFINE q == 2 * p
<1>1. q \in Nat \ {0} /\ t \in Nat
  OBVIOUS
<1>2. ASSUME t < q PROVE t % q = t
  <2>1. t = q * 0 + t
    BY <1>1
  <2> HIDE DEF q
  <2> QED
    BY <1>1, <1>2, <2>1, QuotientIs
<1>3. ASSUME t >= q PROVE t % q = t - q
  <2>1. t = q * 1 + (t - q) /\ t - q \in Nat /\ t - q < q
    BY <1>1, <1>3
  <2> HIDE DEF q
  <2> QED
    BY <1>1, <2>1, QuotientIs
<1> QED
  BY <1>2, <1>3

\* The widths of primitives.
LEMMA WidthFacts ==
  ASSUME NEW w \in 1 .. N
  PROVE  /\ 2 ^ (w - 1) \in Nat \ {0} /\ 2 ^ w = 2 * 2 ^ (w - 1)
         /\ 2 ^ w \in Nat \ {0} /\ 2 ^ w <= Base /\ Base \in Nat \ {0}
<1> DEFINE p == 2 ^ (w - 1)
           q == 2 ^ w
           t == 2 ^ (N - w)
<1>1. w - 1 \in 0 .. N - 1 /\ w \in 0 .. N /\ (w - 1) + 1 = w
  BY BlockAssumption
<1>2. p \in Nat \ {0} /\ q = 2 * p
  BY <1>1, PowerAssumption
<1>3. q \in Nat \ {0} /\ t \in Nat \ {0} /\ q * t = Base
  BY <1>1, Powers
<1> HIDE DEF p, q, t
<1>4. q * 1 <= q * t /\ q * 1 = q
  <2>1. 1 <= t /\ 1 \in Nat
    BY <1>3
  <2> QED
    BY <1>3, <2>1, Products
<1>5. q <= Base
  BY <1>3, <1>4
<1> QED
  BY <1>2, <1>3, <1>5, BaseType DEF p, q

\* A normal number of another length than one block is zero or beyond every
\* primitive.
LEMMA BlocksOfNumber ==
  ASSUME NEW x, IsNormal(x)
  PROVE  /\ x.sign = 0 => Len(x.mag) = 0 /\ Block(x.mag, 1) = 0
         /\ Len(x.mag) = 0 => x.sign = 0
         /\ Len(x.mag) = 1 => Block(x.mag, 1) = Value(x.mag)
         /\ Len(x.mag) > 1 => Base <= Value(x.mag)
         /\ Block(x.mag, 1) \in Blocks /\ Len(x.mag) \in Nat
<1> DEFINE m == x.mag
<1>1. m \in Seq(Blocks) /\ Canonical(m) /\ (x.sign = 0 <=> m = <<>>)
  BY DEF IsNormal
<1> HIDE DEF m
<1>2. Block(m, 1) \in Blocks /\ Len(m) \in Nat /\ (1 > Len(m) => Block(m, 1) = 0)
  BY <1>1, BlocksType
<1>3. m = <<>> <=> Len(m) = 0
  BY <1>1
<1>4. ASSUME Len(m) = 1 PROVE Block(m, 1) = Value(m)
  <2>0. m \in Seq(Blocks) /\ Len(m) = 1 /\ 1 \in 1 .. Len(m)
    BY <1>1, <1>4
  <2>1. m = <<m[1]>> /\ m[1] \in Blocks
    BY <2>0
  <2>2. Value(<<m[1]>>) = m[1]
    BY <2>1, ValueOfBlock
  <2>3. Block(m, 1) = m[1]
    BY <2>0, BlocksType
  <2> QED
    BY <2>1, <2>2, <2>3
<1>5. ASSUME Len(m) > 1 PROVE Base <= Value(m)
  <2>1. m # <<>> /\ 1 <= Len(m) - 1
    BY <1>2, <1>3, <1>5
  <2>2. Len(m) - 1 \in Nat /\ Weight(Len(m) - 1) <= Value(m)
    BY <1>1, <2>1, CanonicalIsLong
  <2>3. Weight(1) <= Weight(Len(m) - 1) /\ Weight(Len(m) - 1) \in Nat /\ Value(m) \in Nat
    BY <1>1, <2>1, <2>2, WeightGrows, Weights, ValueIsFrom
  <2>4. Weight(0 + 1) = Base * 1
    BY Weights
  <2>5. Weight(1) = Base
    BY <2>4, BaseType
  <2> QED
    BY <2>2, <2>3, <2>5, BaseType
<1> QED
  BY <1>1, <1>2, <1>3, <1>4, <1>5 DEF m

\* Two's complement of w bits.
LEMMA TwosComplement ==
  ASSUME NEW w \in 1 .. N, NEW n \in Int,
         -(2 ^ (w - 1)) <= n, n < 3 * 2 ^ (w - 1)
  PROVE  /\ n < 2 ^ (w - 1) => Signed(n, w) = n
         /\ n >= 2 ^ (w - 1) => Signed(n, w) = n - 2 ^ w
<1> DEFINE p == 2 ^ (w - 1)
           q == 2 ^ w
           t == n + p
<1>1. p \in Nat \ {0} /\ q = 2 * p
  BY WidthFacts
<1>2. -p <= n /\ n < 3 * p
  OBVIOUS
<1>3. Signed(n, w) = (t % q) - p
  BY DEF Signed
<1> HIDE DEF p, q
<1>4. t \in 0 .. 4 * p - 1
  BY <1>1, <1>2
<1> HIDE DEF t
<1>5. /\ t < q => t % q = t
      /\ t >= q => t % q = t - q
  BY <1>1, <1>4, TwoRanges
<1>6. t = n + p /\ t \in Int
  BY <1>1 DEF t
<1>7. ASSUME n < p PROVE Signed(n, w) = n
  <2>1. t < q
    BY <1>1, <1>6, <1>7
  <2>2. Signed(n, w) = t - p
    BY <1>3, <1>5, <2>1
  <2> QED
    BY <1>1, <1>6, <2>2
<1>8. ASSUME n >= p PROVE Signed(n, w) = n - q
  <2>1. t >= q
    BY <1>1, <1>6, <1>8
  <2>2. Signed(n, w) = (t - q) - p
    BY <1>3, <1>5, <2>1
  <2> QED
    BY <1>1, <1>6, <2>2
<1> QED
  BY <1>7, <1>8 DEF p, q

\* And it is always one of its numbers.
LEMMA SignedRange ==
  ASSUME NEW w \in 1 .. N, NEW n \in Int
  PROVE  Signed(n, w) \in -(2 ^ (w - 1)) .. 2 ^ (w - 1) - 1
<1> DEFINE p == 2 ^ (w - 1)
           q == 2 ^ w
           t == n + p
           r == t % q
<1>1. p \in Nat \ {0} /\ q = 2 * p
  BY WidthFacts
<1>2. Signed(n, w) = r - p
  BY DEF Signed
<1>3. r \in 0 .. q - 1
  <2>1. q \in Nat \ {0} /\ t \in Int
    BY <1>1
  <2> HIDE DEF q, t
  <2> QED
    BY <2>1
<1> HIDE DEF p, q, r
<1>4. r - p \in -p .. p - 1
  BY <1>1, <1>3
<1> QED
  BY <1>2, <1>4 DEF p

\* A conversion to an unsigned primitive.
LEMMA UnsignedIsRight ==
  ASSUME NEW x, IsNormal(x), NEW w \in 1 .. N
  PROVE  toUnsigned(x, w) = {Held(x)} \cap 0 .. 2 ^ w - 1
<1> DEFINE v == Value(x.mag)
           b == Block(x.mag, 1)
           q == 2 ^ w
           n == Held(x)
           k == Len(x.mag)
<1>1. /\ x.sign \in {-1, 0, 1} /\ v \in Nat
      /\ x.sign = 0 <=> v = 0
      /\ x.sign = -1 => n = -v
      /\ x.sign = 0 => n = 0
      /\ x.sign = 1 => n = v
      /\ n \in Int
  BY NormalFacts
<1>2. /\ x.sign = 0 => k = 0 /\ b = 0
      /\ k = 0 => x.sign = 0
      /\ k = 1 => b = v
      /\ k > 1 => Base <= v
      /\ b \in Nat /\ k \in Nat
  <2>1. b \in Blocks
    BY BlocksOfNumber
  <2>2. b \in Nat
    BY <2>1, BaseType DEF Blocks
  <2> QED
    BY <2>2, BlocksOfNumber
<1>3. q \in Nat \ {0} /\ q <= Base /\ Base \in Nat
  BY WidthFacts
<1>4. toUnsigned(x, w) = {m \in {b % q} : x.sign # -1 /\ k <= 1 /\ m = b}
  BY DEF toUnsigned
<1> HIDE DEF v, b, q, n, k
<1>5. b % q = b <=> b < q
  <2>1. b % q \in Nat /\ b % q < q
    BY <1>2, <1>3, Quotients
  <2>2. ASSUME b < q PROVE b % q = b
    <3>1. b = q * 0 + b
      BY <1>2, <1>3
    <3> QED
      BY <1>2, <1>3, <2>2, <3>1, QuotientIs
  <2> QED
    BY <1>2, <1>3, <2>1, <2>2
<1>6. CASE x.sign = -1
  <2>1. toUnsigned(x, w) = {}
    BY <1>4, <1>6
  <2>2. n < 0
    BY <1>1, <1>6
  <2>3. n \notin 0 .. q - 1
    BY <1>1, <2>2
  <2> QED
    BY <2>1, <2>3 DEF n, q
<1>7. CASE x.sign # -1 /\ k <= 1
  <2>1. n = b
    BY <1>1, <1>2, <1>7
  <2>2. toUnsigned(x, w) = {m \in {b % q} : m = b}
    BY <1>4, <1>7
  <2>3. n \in 0 .. q - 1 <=> b < q
    BY <1>2, <1>3, <2>1
  <2>4. toUnsigned(x, w) = IF b < q THEN {b} ELSE {}
    BY <1>5, <2>2
  <2> QED
    BY <2>1, <2>3, <2>4 DEF n, q
<1>8. CASE x.sign # -1 /\ k > 1
  <2>1. toUnsigned(x, w) = {}
    BY <1>2, <1>4, <1>8
  <2>2. x.sign = 1
    BY <1>1, <1>2, <1>8
  <2>3. n >= q
    BY <1>1, <1>2, <1>3, <1>8, <2>2
  <2>4. n \notin 0 .. q - 1
    BY <1>1, <1>3, <2>3
  <2> QED
    BY <2>1, <2>4 DEF n, q
<1> QED
  BY <1>1, <1>2, <1>6, <1>7, <1>8

\* A conversion to a signed primitive, whose least number included.
LEMMA SignedIsRight ==
  ASSUME NEW x, IsNormal(x), NEW w \in 1 .. N
  PROVE  toSigned(x, w) = {Held(x)} \cap -(2 ^ (w - 1)) .. 2 ^ (w - 1) - 1
<1> DEFINE v == Value(x.mag)
           b == Block(x.mag, 1)
           p == 2 ^ (w - 1)
           q == 2 ^ w
           n == Held(x)
           k == Len(x.mag)
           s == Signed(b, w)
           r == Signed(-s, w)
<1>1. /\ x.sign \in {-1, 0, 1} /\ v \in Nat
      /\ x.sign = 0 <=> v = 0
      /\ x.sign = -1 => n = -v
      /\ x.sign = 0 => n = 0
      /\ x.sign = 1 => n = v
      /\ n \in Int
  BY NormalFacts
<1>2. /\ x.sign = 0 => k = 0 /\ b = 0
      /\ k = 0 => x.sign = 0
      /\ k = 1 => b = v
      /\ k > 1 => Base <= v
      /\ b \in Nat /\ k \in Nat /\ b < Base
  <2>1. b \in Blocks
    BY BlocksOfNumber
  <2>2. b \in Nat /\ b < Base
    BY <2>1, BaseType DEF Blocks
  <2> QED
    BY <2>2, BlocksOfNumber
<1>3. p \in Nat \ {0} /\ q = 2 * p /\ q \in Nat \ {0} /\ q <= Base /\ Base \in Nat \ {0}
  BY WidthFacts
<1>4. /\ x.sign = 0 => toSigned(x, w) = {0}
      /\ x.sign # 0 /\ k # 1 => toSigned(x, w) = {}
      /\ x.sign = 1 /\ k = 1 => toSigned(x, w) = {m \in {s} : m >= 0 /\ m % Base = b}
      /\ x.sign = -1 /\ k = 1 => toSigned(x, w) = {m \in {r} : m < 0 /\ (-m) % q = b}
  <2>1. toSigned(x, w) = IF x.sign = 0 THEN {0}
                         ELSE IF k # 1 THEN {}
                         ELSE IF x.sign = 1 THEN {m \in {s} : m >= 0 /\ m % Base = b}
                         ELSE {m \in {r} : m < 0 /\ (-m) % q = b}
    BY Zenon DEF toSigned
  <2> HIDE DEF k, s, r, q, b
  <2> QED
    BY <2>1
<1>5. /\ s \in -p .. p - 1
      /\ b < p => s = b
      /\ b = p => s = -p
  <2>1. s \in -p .. p - 1
    BY <1>2, SignedRange
  <2>2. ASSUME b <= p PROVE (b < p => s = b) /\ (b = p => s = b - q)
    <3>1. b \in Int /\ -p <= b /\ b < 3 * p
      <4> HIDE DEF p, q, b
      <4> QED
        BY <1>2, <1>3, <2>2
    <3> HIDE DEF b
    <3>2. (b < p => s = b) /\ (b >= p => s = b - q)
      BY <3>1, TwosComplement
    <3> HIDE DEF p, q, s
    <3> QED
      BY <1>3, <3>1, <3>2
  <2> HIDE DEF p, q, s, b
  <2> QED
    BY <1>2, <1>3, <2>1, <2>2
<1>6. /\ r \in -p .. p - 1
      /\ b < p => r = -b
      /\ b = p => r = -p
  <2> HIDE DEF s
  <2>0. s \in Int
    <3> HIDE DEF p
    <3> QED
      BY <1>3, <1>5
  <2>1. r \in -p .. p - 1
    <3>1. -s \in Int
      BY <2>0
    <3> QED
      BY <3>1, SignedRange
  <2> DEFINE u == -s
  <2>2. u \in Int /\ -p <= u /\ u < 3 * p
    <3> HIDE DEF p
    <3> QED
      BY <1>3, <1>5
  <2> HIDE DEF u
  <2>3. (u < p => r = u) /\ (u >= p => r = u - q)
    <3>1. r = Signed(u, w)
      BY DEF u
    <3> HIDE DEF r
    <3> QED
      BY <2>2, <3>1, TwosComplement
  <2> HIDE DEF p, q, r, b
  <2> QED
    BY <1>2, <1>3, <1>5, <2>1, <2>2, <2>3 DEF u
<1> HIDE DEF v, b, p, q, n, k, s, r
<1> DEFINE S == -p .. p - 1
<1>7. CASE x.sign = 0
  <2>1. n = 0 /\ n \in S
    BY <1>1, <1>3, <1>7
  <2> QED
    BY <1>4, <1>7, <2>1 DEF n, p
<1>8. CASE x.sign # 0 /\ k # 1
  <2>1. Base <= v
    BY <1>1, <1>2, <1>8
  <2>2. n = v \/ n = -v
    BY <1>1, <1>8
  <2>3. n \notin S
    BY <1>1, <1>3, <2>1, <2>2
  <2> QED
    BY <1>4, <1>8, <2>3 DEF n, p
<1>9. CASE x.sign = 1 /\ k = 1
  <2>1. n = b
    BY <1>1, <1>2, <1>9
  <2>2. toSigned(x, w) = {m \in {s} : m >= 0 /\ m % Base = b}
    BY <1>4, <1>9
  <2>3. CASE b < p
    <3>1. b % Base = b
      <4>1. b = Base * 0 + b
        BY <1>2, <1>3
      <4> QED
        BY <1>2, <1>3, <4>1, QuotientIs
    <3>2. s = b /\ b >= 0
      BY <1>2, <1>5, <2>3
    <3>3. toSigned(x, w) = {b}
      BY <2>2, <3>1, <3>2
    <3>4. n \in S
      BY <1>2, <1>3, <2>1, <2>3
    <3> QED
      BY <2>1, <3>3, <3>4 DEF n, p
  <2>4. CASE ~(b < p)
    <3>1. ~(s >= 0 /\ s % Base = b)
      <4> SUFFICES ASSUME s >= 0 PROVE s % Base # b
        OBVIOUS
      <4>1. s \in Nat /\ s < p /\ s < Base
        BY <1>3, <1>5
      <4>2. s = Base * 0 + s
        BY <1>3, <4>1
      <4>3. s % Base = s
        BY <1>3, <4>1, <4>2, QuotientIs
      <4> QED
        BY <1>2, <1>3, <2>4, <4>1, <4>3
    <3>2. toSigned(x, w) = {}
      BY <2>2, <3>1
    <3>3. n \notin S
      BY <1>2, <1>3, <2>1, <2>4
    <3> QED
      BY <3>2, <3>3 DEF n, p
  <2> QED
    BY <2>3, <2>4
<1>10. CASE x.sign = -1 /\ k = 1
  <2>1. n = -b /\ b # 0
    BY <1>1, <1>2, <1>10
  <2>2. toSigned(x, w) = {m \in {r} : m < 0 /\ (-m) % q = b}
    BY <1>4, <1>10
  <2>3. CASE b <= p
    <3>1. b % q = b
      <4>1. b = q * 0 + b /\ b < q
        BY <1>2, <1>3, <2>3
      <4> QED
        BY <1>2, <1>3, <4>1, QuotientIs
    <3>2. r = -b /\ r < 0 /\ -r = b
      BY <1>2, <1>3, <1>6, <2>1, <2>3
    <3>3. toSigned(x, w) = {r}
      <4>1. (-r) % q = b
        BY <3>1, <3>2, Zenon
      <4> QED
        BY <2>2, <3>2, <4>1
    <3>4. n \in S
      BY <1>2, <1>3, <2>1, <2>3
    <3> QED
      BY <2>1, <3>2, <3>3, <3>4 DEF n, p
  <2>4. CASE ~(b <= p)
    <3>1. ~(r < 0 /\ (-r) % q = b)
      <4> SUFFICES ASSUME r < 0 PROVE (-r) % q # b
        OBVIOUS
      <4> DEFINE u == -r
      <4>1. u \in Nat /\ u <= p /\ u < q
        BY <1>3, <1>6
      <4> HIDE DEF u
      <4>2. u = q * 0 + u
        BY <1>3, <4>1
      <4>3. u % q = u
        BY <1>3, <4>1, <4>2, QuotientIs
      <4>4. u % q # b
        BY <1>2, <1>3, <2>4, <4>1, <4>3
      <4> QED
        BY <4>4 DEF u
    <3>2. toSigned(x, w) = {}
      BY <2>2, <3>1
    <3>3. n \notin S
      BY <1>2, <1>3, <2>1, <2>4
    <3> QED
      BY <3>2, <3>3 DEF n, p
  <2> QED
    BY <2>3, <2>4
<1> QED
  BY <1>1, <1>7, <1>8, <1>9, <1>10

\* A conversion to a primitive returns the number where the type holds it and
\* throws elsewhere, for every width and every number: the casts and the
\* comparison of BigInteger.cc:105 to 143 let no other number through.
THEOREM ConversionsStayRight ==
  ASSUME "shift_zero" \notin Misuses, "self_move" \notin Misuses
  PROVE  Spec => []ConvertsRight
<1>1. ASSUME IInv PROVE ConvertsRight
  <2>1. ASSUME NEW z \in Objects, NEW w \in 1 .. N
        PROVE  /\ toUnsigned(reg[z], w) = {Held(reg[z])} \cap 0 .. 2 ^ w - 1
               /\ toSigned(reg[z], w) = {Held(reg[z])} \cap -(2 ^ (w - 1)) .. 2 ^ (w - 1) - 1
    <3>1. IsNormal(reg[z])
      BY <1>1, Operand
    <3> QED
      BY <3>1, UnsignedIsRight, SignedIsRight
  <2> QED
    BY <2>1 DEF ConvertsRight
<1>2. Init => IInv
  BY InitIInv
<1>3. IInv /\ [Next]_vars => IInv'
  BY StepIInv
<1> QED
  BY <1>1, <1>2, <1>3, PTL DEF Spec

-----------------------------------------------------------------------------
(* Digits                                                                    *)

\* A number has one representation without a leading zero block.
LEMMA OneRepresentation ==
  ASSUME NEW x \in Seq(Blocks), NEW y \in Seq(Blocks), Canonical(x), Canonical(y),
         Value(x) = Value(y)
  PROVE  x = y
<1>1. IsNormal(Integer(x, 1)) /\ Held(Integer(x, 1)) = 1 * Value(x)
  <2>1. 1 \in {-1, 0, 1} /\ 1 # 0
    OBVIOUS
  <2> QED
    BY <2>1, IntegerFacts
<1>2. IsNormal(Integer(y, 1)) /\ Held(Integer(y, 1)) = 1 * Value(y)
  <2>1. 1 \in {-1, 0, 1} /\ 1 # 0
    OBVIOUS
  <2> QED
    BY <2>1, IntegerFacts
<1>3. EqualIntegers(Integer(x, 1), Integer(y, 1))
  BY <1>1, <1>2, IntegersEqual
<1>4. Integer(x, 1).mag = x /\ Integer(y, 1).mag = y
  BY DEF Integer
<1>5. Len(x) = Len(y) /\ \A i \in DOMAIN x : x[i] = y[i]
  BY <1>3, <1>4 DEF EqualIntegers, Equal
<1> QED
  BY <1>5

\* Units that are a power of two apart.
LEMMA UnitsAdd ==
  ASSUME NEW a \in Nat, NEW s \in 0 .. N
  PROVE  Unit(a + s) = Unit(a) * 2 ^ s
<1> DEFINE Q == {m \in Nat : m <= N => Unit(a + m) = Unit(a) * 2 ^ m}
           u == Unit(a)
<1>1. N \in Nat /\ u \in Nat
  BY BlockAssumption, Units
<1>2. 0 \in Q
  <2>1. 2 ^ 0 = 1 /\ a + 0 = a
    BY PowerAssumption
  <2>2. u * 1 = u
    BY <1>1
  <2>3. Unit(a + 0) = Unit(a) * 2 ^ 0
    BY <2>1, <2>2, Zenon
  <2> QED
    BY <2>3
<1>3. ASSUME NEW m \in Q PROVE m + 1 \in Q
  <2>1. m \in Nat /\ m + 1 \in Nat
    OBVIOUS
  <2>2. CASE m + 1 <= N
    <3>1. m \in 0 .. N - 1 /\ Unit(a + m) = Unit(a) * 2 ^ m
      BY <1>1, <2>1, <2>2
    <3> DEFINE p == 2 ^ m
               i == a + m
    <3>2. p \in Nat /\ 2 ^ (m + 1) = 2 * p
      BY <3>1, PowerAssumption
    <3>3. i \in Nat /\ a + (m + 1) = i + 1
      BY <2>1
    <3>4. Unit(i + 1) = 2 * Unit(i)
      <4> HIDE DEF i
      <4> QED
        BY <3>3, Units
    <3> HIDE DEF p, i, u
    <3>5. 2 * (u * p) = u * (2 * p)
      <4>1. 2 * (u * p) = (2 * u) * p /\ 2 * u = u * 2 /\ (u * 2) * p = u * (2 * p)
        BY <1>1, <3>2, Products
      <4> QED
        BY <4>1
    <3>6. Unit(a + (m + 1)) = Unit(a) * 2 ^ (m + 1)
      BY <3>1, <3>2, <3>3, <3>4, <3>5, Zenon DEF u, p, i
    <3> QED
      BY <2>1, <3>6
  <2>3. CASE ~(m + 1 <= N)
    BY <2>1, <2>3
  <2> QED
    BY <2>2, <2>3
<1>4. Q = Nat
  <2>1. Q \in SUBSET Nat
    OBVIOUS
  <2> HIDE DEF Q
  <2> QED
    BY <1>2, <1>3, <2>1, Induct
<1>5. s \in Q /\ s <= N
  <2>1. s \in Nat /\ s <= N
    BY <1>1
  <2> HIDE DEF Q
  <2> QED
    BY <1>4, <2>1
<1> QED
  BY <1>5

\* A digit of so many bits at least; the room is enough for all bits.
LEMMA RoomIsEnough ==
  ASSUME NEW x \in Seq(Blocks), NEW base \in 2 .. Base - 1
  PROVE  /\ BitsPerDigit(base) \in 1 .. N
         /\ 2 ^ BitsPerDigit(base) <= base
         /\ Room(x, base) \in Nat
         /\ Len(x) * N <= BitsPerDigit(base) * Room(x, base)
<1> DEFINE L == {l \in 0 .. N : 2 ^ l <= base}
           b == Max(L)
           c == Len(x) * N
           n == Room(x, base)
<1>1. N \in Nat \ {0} /\ base \in Nat /\ base >= 2
  BY BlockAssumption, BaseType
<1>2. 1 \in L
  <2>1. 0 \in 0 .. N - 1 /\ 0 + 1 = 1
    BY <1>1
  <2>2. 2 ^ (0 + 1) = 2 * 2 ^ 0 /\ 2 ^ 0 = 1
    BY <2>1, PowerAssumption
  <2>3. 2 ^ 1 = 2
    BY <2>1, <2>2
  <2>4. 1 \in 0 .. N
    BY <1>1
  <2> QED
    BY <1>1, <2>3, <2>4
<1>3. b \in L /\ \A i \in L : i <= b
  <2>1. L \in SUBSET (0 .. N)
    OBVIOUS
  <2> HIDE DEF L
  <2> QED
    BY <1>1, <1>2, <2>1, MaxFacts
<1>4. b \in 0 .. N /\ 2 ^ b <= base
  BY <1>3
<1>5. BitsPerDigit(base) = b
  BY DEF BitsPerDigit
<1>6. b \in 1 .. N
  <2>1. 1 <= b
    <3> HIDE DEF L, b
    <3> QED
      BY <1>2, <1>3
  <2> HIDE DEF b
  <2> QED
    BY <1>1, <1>4, <2>1
<1>7. c \in Nat
  BY <1>1, Products
<1>8. n = (c + b - 1) \div b
  BY <1>5, Zenon DEF Room
<1> HIDE DEF b, c, n
<1> DEFINE t == c + b - 1
<1>9. t \in Nat /\ b \in Nat \ {0}
  BY <1>6, <1>7
<1>10. t \div b \in Nat /\ t % b < b /\ t % b \in Nat /\ t = b * (t \div b) + (t % b)
  <2> HIDE DEF t
  <2> QED
    BY <1>9, Quotients
<1> DEFINE h == b * n
           r == t % b
<1>11. n \in Nat /\ h \in Nat /\ t = h + r /\ r < b /\ r \in Nat
  <2>1. n = t \div b
    BY <1>8
  <2> HIDE DEF t
  <2>2. n \in Nat /\ t = b * n + (t % b)
    BY <1>10, <2>1
  <2>3. b * n \in Nat
    BY <1>9, <2>2, Products
  <2> QED
    BY <1>10, <2>2, <2>3
<1> HIDE DEF h, r
<1>12. c <= h
  BY <1>7, <1>9, <1>11
<1> QED
  BY <1>4, <1>5, <1>6, <1>11, <1>12 DEF h, n, c

\* What the turns of the constructor compute.
LEMMA DigitsFolds ==
  ASSUME NEW x, NEW base, NEW n \in Nat, Room(x, base) = n,
         NEW P, [rest |-> x, digits |-> <<>>] \in P,
         \A s \in P : SplitDigit(s, base) \in P
  PROVE  \E f : /\ f[0] = [rest |-> x, digits |-> <<>>]
                /\ \A k \in 1 .. n : f[k] = SplitDigit(f[k - 1], base)
                /\ \A k \in 0 .. n : f[k] \in P
                /\ Digits(x, base) = f[n]
<1> DEFINE p == [rest |-> x, digits |-> <<>>]
           q == [i \in 1 .. n |-> i]
           G == [k \in 1 .. n |-> [s \in P |-> SplitDigit(s, base)]]
<1>1. G \in [1 .. n -> [P -> P]]
  OBVIOUS
<1> HIDE DEF p
<1>2. PICK g \in [SUBSET (1 .. n) -> P] : IsFold(g, 1 .. n, MaxOf(n), p, G)
  <2>1. p \in P
    BY DEF p
  <2> HIDE DEF G
  <2> QED
    BY <1>1, <2>1, MaxFoldExists, Zenon
<1>3. ASSUME NEW s \in SUBSET (1 .. n), s # {}
      PROVE  Max(s) \in 1 .. n /\ s \ {Max(s)} \in SUBSET (1 .. n)
  <2>1. s \in SUBSET (0 .. n)
    OBVIOUS
  <2>2. Max(s) \in s
    BY <1>3, <2>1, MaxFacts
  <2> QED
    BY <2>2
<1>4. g = [s \in SUBSET (1 .. n) |->
             IF s = {} THEN p ELSE SplitDigit(g[s \ {Max(s)}], base)]
  <2>1. ASSUME NEW s \in SUBSET (1 .. n)
        PROVE  g[s] = IF s = {} THEN p ELSE SplitDigit(g[s \ {Max(s)}], base)
    <3>1. CASE s = {}
      BY <1>2, <3>1 DEF IsFold, MaxOf
    <3>2. CASE s # {}
      <4>1. Max(s) \in 1 .. n /\ g[s \ {Max(s)}] \in P
        BY <1>3, <3>2
      <4>2. g[s] = G[Max(s)][g[s \ {Max(s)}]]
        BY <1>2, <3>2 DEF IsFold, MaxOf
      <4>3. G[Max(s)][g[s \ {Max(s)}]] = SplitDigit(g[s \ {Max(s)}], base)
        BY <4>1
      <4> HIDE DEF G
      <4> QED
        BY <3>2, <4>2, <4>3
    <3> QED
      BY <3>1, <3>2
  <2> HIDE DEF G
  <2> QED
    BY <2>1
<1> DEFINE h == CHOOSE h : h = [s \in SUBSET (1 .. n) |->
             IF s = {} THEN p ELSE SplitDigit(h[s \ {Max(s)}], base)]
<1>5. h = [s \in SUBSET (1 .. n) |->
             IF s = {} THEN p ELSE SplitDigit(h[s \ {Max(s)}], base)]
  BY <1>4, Zenon
<1>6. Digits(x, base) = h[1 .. n]
  <2>1. DOMAIN q = 1 .. n
    OBVIOUS
  <2> QED
    BY <2>1 DEF Digits, FoldLeft, MapThenFoldSet, p
<1> HIDE DEF h
<1> DEFINE f == [k \in 0 .. n |-> h[1 .. k]]
<1>7. f[0] = p
  <2>1. h[{}] = p
    BY <1>5
  <2>2. f[0] = h[1 .. 0] /\ 1 .. 0 = {}
    OBVIOUS
  <2> QED
    BY <2>1, <2>2
<1>8. ASSUME NEW k \in 1 .. n PROVE f[k] = SplitDigit(f[k - 1], base)
  <2> DEFINE s == 1 .. k
  <2>1. s \in SUBSET (1 .. n) /\ s # {} /\ s \ {Max(s)} = 1 .. k - 1
    BY FoldSteps
  <2>2. k \in 0 .. n /\ k - 1 \in 0 .. n
    OBVIOUS
  <2>3. h[s] = SplitDigit(h[s \ {Max(s)}], base)
    <3> HIDE DEF s
    <3> QED
      BY <1>5, <2>1
  <2>4. f[k] = h[s] /\ f[k - 1] = h[1 .. k - 1]
    BY <2>2
  <2> HIDE DEF f, s
  <2> QED
    BY <2>1, <2>3, <2>4
<1>9. f[n] = h[1 .. n]
  OBVIOUS
<1> HIDE DEF f
<1>10. \A k \in 0 .. n : f[k] \in P
  <2> DEFINE Q == {k \in Nat : k <= n => f[k] \in P}
  <2>1. 0 \in Q
    BY <1>7 DEF p
  <2>2. ASSUME NEW k \in Q PROVE k + 1 \in Q
    <3>1. k \in Nat /\ k + 1 \in Nat
      OBVIOUS
    <3>2. CASE k + 1 <= n
      <4>1. k + 1 \in 1 .. n /\ (k + 1) - 1 = k /\ f[k] \in P
        BY <3>1, <3>2
      <4>2. f[k + 1] = SplitDigit(f[k], base)
        BY <1>8, <4>1
      <4> QED
        BY <3>1, <4>1, <4>2
    <3>3. CASE ~(k + 1 <= n)
      BY <3>1, <3>3
    <3> QED
      BY <3>2, <3>3
  <2>3. Q = Nat
    <3>1. Q \in SUBSET Nat
      OBVIOUS
    <3> HIDE DEF Q
    <3> QED
      BY <2>1, <2>2, <3>1, Induct
  <2> QED
    BY <2>3
<1> QED
  BY <1>6, <1>7, <1>8, <1>9, <1>10 DEF p

\* The numbers between the turns: r[i] is what the first i digits leave of x.
Splits(r, x, s, base) ==
  /\ r[0] = x /\ r[Len(s.digits)] = s.rest
  /\ \A i \in 0 .. Len(s.digits) : r[i] \in Seq(Blocks) /\ Canonical(r[i])
  /\ \A i \in 0 .. Len(s.digits) - 1 :
       r[i] # <<>> /\ Value(r[i]) = Value(r[i + 1]) * base + s.digits[i + 1]

\* The states of the loop of the constructor.
SplitStates(x, base) ==
  {s \in [rest : Seq(Blocks), digits : Seq(0 .. base - 1)] :
     Canonical(s.rest) /\ \E r : Splits(r, x, s, base)}

\* One turn splits off a digit, by division by the base.
LEMMA SplitFacts ==
  ASSUME NEW base \in 2 .. Base - 1, NEW s, s.rest \in Seq(Blocks), Canonical(s.rest),
         s.rest # <<>>
  PROVE  \E q \in Seq(Blocks), c \in 0 .. base - 1 :
           /\ Canonical(q) /\ Value(s.rest) = Value(q) * base + c
           /\ SplitDigit(s, base) = [rest |-> q, digits |-> Append(s.digits, c)]
<1> DEFINE d == divideWithRemainder(s.rest, <<base>>)
           y == <<base>>
           c == Value(d.remainder)
<1>1. base \in Blocks /\ base # 0 /\ base \in Nat
  BY BaseType DEF Blocks
<1>2. y \in Seq(Blocks) /\ Canonical(y) /\ y # <<>> /\ Value(y) = base
  BY <1>1, OneBlock, ValueOfBlock
<1>3. /\ d.quotient \in Seq(Blocks) /\ Canonical(d.quotient)
      /\ d.remainder \in Seq(Blocks)
      /\ Value(s.rest) = Value(d.quotient) * Value(y) + c
      /\ c < Value(y)
  <2> HIDE DEF y
  <2>1. LET e == divideWithRemainder(s.rest, y)
        IN /\ e.quotient \in Seq(Blocks) /\ Canonical(e.quotient)
           /\ e.remainder \in Seq(Blocks) /\ Canonical(e.remainder)
           /\ Value(s.rest) = Value(e.quotient) * Value(y) + Value(e.remainder)
           /\ Value(e.remainder) < Value(y)
    BY <1>2, DivisionIsRight
  <2> QED
    BY <2>1 DEF y
<1>4. c \in Nat
  BY <1>3, ValueIsFrom
<1>5. SplitDigit(s, base) = [rest |-> d.quotient, digits |-> Append(s.digits, c)]
  BY Zenon DEF SplitDigit
<1> HIDE DEF d, c, y
<1>6. c \in 0 .. base - 1
  BY <1>1, <1>2, <1>3, <1>4
<1> QED
  BY <1>2, <1>3, <1>5, <1>6

\* A turn keeps the digits and what is left a way to write the number.
LEMMA SplitKeeps ==
  ASSUME NEW x, NEW base \in 2 .. Base - 1, NEW s \in SplitStates(x, base)
  PROVE  SplitDigit(s, base) \in SplitStates(x, base)
<1>1. s.rest \in Seq(Blocks) /\ s.digits \in Seq(0 .. base - 1) /\ Canonical(s.rest)
  BY DEF SplitStates
<1>2. CASE s.rest = <<>>
  BY <1>2 DEF SplitDigit
<1>3. CASE s.rest # <<>>
  <2>1. PICK q \in Seq(Blocks), c \in 0 .. base - 1 :
           /\ Canonical(q) /\ Value(s.rest) = Value(q) * base + c
           /\ SplitDigit(s, base) = [rest |-> q, digits |-> Append(s.digits, c)]
    BY <1>1, <1>3, SplitFacts
  <2>2. PICK r : Splits(r, x, s, base)
    BY DEF SplitStates
  <2> DEFINE n == Len(s.digits)
             D == Append(s.digits, c)
             t == [rest |-> q, digits |-> D]
             u == [i \in 0 .. n + 1 |-> IF i = n + 1 THEN q ELSE r[i]]
  <2>3. /\ n \in Nat /\ D \in Seq(0 .. base - 1) /\ Len(D) = n + 1 /\ D[n + 1] = c
        /\ \A i \in 1 .. n : D[i] = s.digits[i]
    BY <1>1
  <2>4. /\ r[0] = x /\ r[n] = s.rest
        /\ \A i \in 0 .. n : r[i] \in Seq(Blocks) /\ Canonical(r[i])
        /\ \A i \in 0 .. n - 1 :
             r[i] # <<>> /\ Value(r[i]) = Value(r[i + 1]) * base + s.digits[i + 1]
    BY <2>2 DEF Splits
  <2> HIDE DEF n, D
  <2>5. u[n + 1] = q /\ \A i \in 0 .. n : u[i] = r[i]
    BY <2>3
  <2> HIDE DEF u
  <2>6. u[0] = x /\ u[n + 1] = q
    BY <2>3, <2>4, <2>5
  <2>7. ASSUME NEW i \in 0 .. n + 1 PROVE u[i] \in Seq(Blocks) /\ Canonical(u[i])
    <3>1. CASE i = n + 1
      BY <2>1, <2>5, <3>1
    <3>2. CASE i # n + 1
      <4>1. i \in 0 .. n
        BY <2>3, <3>2
      <4> QED
        BY <2>4, <2>5, <4>1
    <3> QED
      BY <3>1, <3>2
  <2>8. ASSUME NEW i \in 0 .. (n + 1) - 1
        PROVE  u[i] # <<>> /\ Value(u[i]) = Value(u[i + 1]) * base + D[i + 1]
    <3>1. i \in 0 .. n
      BY <2>3
    <3>2. CASE i = n
      BY <1>3, <2>1, <2>3, <2>4, <2>5, <3>1, <3>2
    <3>3. CASE i # n
      <4>1. i \in 0 .. n - 1 /\ i + 1 \in 0 .. n /\ i + 1 \in 1 .. n
        BY <2>3, <3>1, <3>3
      <4> QED
        BY <2>3, <2>4, <2>5, <3>1, <4>1
    <3> QED
      BY <3>2, <3>3
  <2>9. Splits(u, x, t, base)
    BY <2>3, <2>6, <2>7, <2>8 DEF Splits
  <2>10. t \in SplitStates(x, base)
    BY <2>1, <2>3, <2>9 DEF SplitStates
  <2> QED
    BY <2>1, <2>10 DEF D
<1> QED
  BY <1>2, <1>3

\* A turn takes a factor of so many bits off what is left.
LEMMA SplitShrinks ==
  ASSUME NEW base \in 2 .. Base - 1, NEW V \in Nat, NEW k \in Nat, NEW s,
         s.rest \in Seq(Blocks), Canonical(s.rest), s.rest # <<>>,
         Value(s.rest) * Unit(BitsPerDigit(base) * k) <= V
  PROVE  Value(SplitDigit(s, base).rest) * Unit(BitsPerDigit(base) * (k + 1)) <= V
<1> DEFINE b == BitsPerDigit(base)
           p == 2 ^ b
           u == Unit(b * k)
           v == Value(s.rest)
<1>1. b \in 1 .. N /\ p <= base /\ base \in Nat
  <2>1. <<>> \in Seq(Blocks)
    OBVIOUS
  <2> QED
    BY <2>1, RoomIsEnough
<1>2. PICK q \in Seq(Blocks), c \in 0 .. base - 1 :
           /\ Canonical(q) /\ v = Value(q) * base + c
           /\ SplitDigit(s, base) = [rest |-> q, digits |-> Append(s.digits, c)]
  BY SplitFacts
<1> DEFINE w == Value(q)
<1>3. v \in Nat /\ w \in Nat
  BY <1>2, ValueIsFrom
<1>4. b \in Nat /\ b * k \in Nat /\ b \in 0 .. N /\ p \in Nat
  <2>1. b \in Nat /\ b \in 0 .. N
    BY <1>1, BlockAssumption
  <2> HIDE DEF b
  <2> QED
    BY <2>1, Products, Powers
<1>5. u \in Nat /\ Unit(b * (k + 1)) = u * p
  <2> HIDE DEF b
  <2>1. b * (k + 1) = b * k + b
    BY <1>4, Products
  <2> DEFINE a == b * k
  <2>2. a \in Nat
    BY <1>4
  <2> HIDE DEF a
  <2>3. Unit(a + b) = Unit(a) * 2 ^ b /\ Unit(a) \in Nat
    BY <1>4, <2>2, UnitsAdd, Units
  <2> QED
    BY <2>1, <2>3 DEF a
<1>6. v * u <= V
  OBVIOUS
<1> HIDE DEF b, p, u, v, w
<1>7. w * p <= v
  <2>1. w * p <= w * base
    BY <1>1, <1>3, <1>4, Products
  <2>2. w * base \in Nat /\ v = w * base + c
    BY <1>1, <1>2, <1>3, Products DEF w
  <2> QED
    BY <1>3, <1>4, <2>1, <2>2, Products
<1>8. w * (u * p) = u * (w * p) /\ u * (w * p) <= u * v /\ u * v = v * u
  <2>1. w * p \in Nat
    BY <1>3, <1>4, Products
  <2>2. w * (u * p) = (w * u) * p /\ w * u = u * w /\ (u * w) * p = u * (w * p)
    BY <1>3, <1>4, <1>5, Products
  <2>3. u * (w * p) <= u * v
    BY <1>3, <1>5, <1>7, <2>1, Products
  <2>4. u * v = v * u
    BY <1>3, <1>5, Products
  <2> QED
    BY <2>2, <2>3, <2>4
<1>9. w * (u * p) <= V
  <2>1. w * (u * p) \in Nat /\ v * u \in Nat
    BY <1>3, <1>4, <1>5, Products
  <2> QED
    BY <1>6, <1>8, <2>1
<1>10. SplitDigit(s, base).rest = q
  BY <1>2
<1> QED
  BY <1>5, <1>9, <1>10 DEF w, b

\* The digits of every number fit into the room that is made for them.
LEMMA RoomSuffices ==
  ASSUME NEW x \in Seq(Blocks), Canonical(x), NEW base \in 2 .. Base - 1
  PROVE  /\ Digits(x, base) \in SplitStates(x, base)
         /\ Digits(x, base).rest = <<>>
<1> DEFINE n == Room(x, base)
           b == BitsPerDigit(base)
           V == Value(x)
           p == [rest |-> x, digits |-> <<>>]
           P == SplitStates(x, base)
<1>1. n \in Nat /\ V \in Nat /\ b \in Nat /\ Len(x) \in Nat
  <2>1. n \in Nat /\ b \in 1 .. N
    BY RoomIsEnough
  <2>2. b \in Nat
    BY <2>1, BlockAssumption
  <2> QED
    BY <2>1, <2>2, ValueIsFrom
<1>2. p \in P
  <2>1. Splits([i \in {0} |-> x], x, p, base)
    BY DEF Splits
  <2> QED
    BY <2>1 DEF SplitStates
<1>3. \A s \in P : SplitDigit(s, base) \in P
  BY SplitKeeps
<1> HIDE DEF n, V, P
<1>4. PICK f : /\ f[0] = p
               /\ \A k \in 1 .. n : f[k] = SplitDigit(f[k - 1], base)
               /\ \A k \in 0 .. n : f[k] \in P
               /\ Digits(x, base) = f[n]
  <2>1. Room(x, base) = n
    BY DEF n
  <2> QED
    BY <1>1, <1>2, <1>3, <2>1, DigitsFolds
<1> HIDE DEF b
<1> DEFINE Small(k) == f[k].rest = <<>> \/ Value(f[k].rest) * Unit(b * k) <= V
           T == {k \in Nat : k <= n => Small(k)}
<1>5. 0 \in T
  <2>1. f[0].rest = x
    BY <1>4
  <2>2. b * 0 = 0
    BY <1>1
  <2>3. Unit(0) = 1
    BY FirstUnit
  <2>4. V * 1 = V
    BY <1>1
  <2> QED
    BY <1>1, <2>1, <2>2, <2>3, <2>4 DEF V
<1>6. ASSUME NEW k \in T PROVE k + 1 \in T
  <2>1. k \in Nat /\ k + 1 \in Nat
    OBVIOUS
  <2>2. ASSUME k + 1 <= n PROVE Small(k + 1)
    <3>1. k + 1 \in 1 .. n /\ (k + 1) - 1 = k /\ k \in 0 .. n /\ k <= n
      BY <1>1, <2>1, <2>2
    <3>2. f[k + 1] = SplitDigit(f[k], base)
      BY <1>4, <3>1
    <3>3. f[k].rest \in Seq(Blocks) /\ Canonical(f[k].rest)
      BY <1>4, <3>1 DEF P, SplitStates
    <3>4. Small(k)
      BY <3>1
    <3>5. CASE f[k].rest = <<>>
      BY <3>2, <3>5 DEF SplitDigit
    <3>6. CASE f[k].rest # <<>>
      <4>1. Value(f[k].rest) * Unit(b * k) <= V
        BY <3>4, <3>6
      <4>2. Value(SplitDigit(f[k], base).rest) * Unit(b * (k + 1)) <= V
        BY <1>1, <2>1, <3>3, <3>6, <4>1, SplitShrinks DEF b
      <4> QED
        BY <3>2, <4>2
    <3> QED
      BY <3>5, <3>6
  <2> QED
    BY <2>1, <2>2
<1>7. Small(n)
  <2>1. T \in SUBSET Nat
    OBVIOUS
  <2>2. T = Nat
    <3> HIDE DEF T
    <3> QED
      BY <1>5, <1>6, <2>1, Induct
  <2>3. n \in T
    BY <1>1, <2>2
  <2> HIDE DEF Small
  <2> QED
    BY <1>1, <2>3
<1>8. f[n] \in P /\ f[n].rest \in Seq(Blocks) /\ Canonical(f[n].rest)
  BY <1>1, <1>4 DEF P, SplitStates
<1>9. f[n].rest = <<>>
  <2> SUFFICES ASSUME f[n].rest # <<>> PROVE FALSE
    OBVIOUS
  <2> DEFINE w == Value(f[n].rest)
             u == Unit(b * n)
             l == Len(x)
  <2>1. w \in Nat /\ w # 0
    BY <1>8, ZeroHasNoBlock, ValueIsFrom
  <2>2. w * u <= V
    BY <1>7
  <2>3. V < Weight(l) /\ Weight(l) = Unit(l * N) /\ Weight(l) \in Nat
    BY <1>1, BelowWeight, BlockUnits, Weights DEF V
  <2>4. l * N <= b * n /\ l * N \in Nat /\ b * n \in Nat
    BY <1>1, RoomIsEnough, BlockAssumption, Products DEF b, n
  <2>5. Unit(l * N) <= u /\ u \in Nat
    <3> DEFINE i == l * N
               j == b * n
    <3>1. i \in Nat /\ j \in Nat /\ i <= j
      BY <2>4
    <3> HIDE DEF i, j
    <3>2. Unit(i) <= Unit(j) /\ Unit(j) \in Nat
      BY <3>1, UnitsGrow, Units
    <3> QED
      BY <3>2 DEF i, j
  <2> HIDE DEF w, u, l
  <2>6. u <= w * u
    <3>1. u * 1 <= u * w /\ u * w = w * u /\ u * 1 = u
      <4>1. 1 <= w
        BY <2>1
      <4> QED
        BY <2>1, <2>5, <4>1, Products
    <3> QED
      BY <3>1
  <2>7. w * u \in Nat
    BY <2>1, <2>5, Products
  <2> QED
    BY <1>1, <2>2, <2>3, <2>5, <2>6, <2>7
<1> QED
  BY <1>4, <1>8, <1>9 DEF P

\* A number is read back from its digits.
LEMMA ReadsBack ==
  ASSUME NEW x, NEW base \in 2 .. Base - 1, NEW s \in SplitStates(x, base), s.rest = <<>>
  PROVE  FromDigits(s.digits, base) = x
<1> DEFINE D == s.digits
           n == Len(D)
<1>1. base \in Blocks /\ base # 0 /\ base \in Nat /\ 0 .. base - 1 \subseteq Blocks
  BY BaseType DEF Blocks
<1>2. D \in Seq(0 .. base - 1) /\ D \in Seq(Blocks) /\ n \in Nat
  <2>1. D \in Seq(0 .. base - 1)
    BY DEF SplitStates
  <2> HIDE DEF D
  <2> QED
    BY <1>1, <2>1
<1>3. PICK r :
        /\ r[0] = x /\ r[n] = <<>>
        /\ \A i \in 0 .. n : r[i] \in Seq(Blocks) /\ Canonical(r[i])
        /\ \A i \in 0 .. n - 1 : Value(r[i]) = Value(r[i + 1]) * base + D[i + 1]
  BY DEF SplitStates, Splits
<1> HIDE DEF D, n
<1>4. PICK g : /\ g[n] = <<>>
               /\ \A k \in 0 .. n - 1 : g[k] = WithDigit(D[k + 1], g[k + 1], base)
               /\ FromDigits(D, base) = g[0]
  BY <1>1, <1>2, FromDigitsFolds DEF n
<1> DEFINE T == {k \in 0 .. n : g[k] = r[k]}
<1>5. n \in T
  BY <1>2, <1>3, <1>4
<1>6. ASSUME NEW k \in 0 .. n - 1, k + 1 \in T PROVE k \in T
  <2> DEFINE c == D[k + 1]
             y == r[k + 1]
             e == IF c = 0 THEN <<>> ELSE <<c>>
             m == multiply(y, <<base>>)
  <2>1. k \in 0 .. n /\ k + 1 \in 0 .. n /\ k + 1 \in 1 .. n
    BY <1>2
  <2>2. c \in Blocks
    BY <1>2, <2>1 DEF n
  <2>3. y \in Seq(Blocks) /\ Canonical(y) /\ r[k] \in Seq(Blocks) /\ Canonical(r[k])
        /\ Value(r[k]) = Value(y) * base + c
    BY <1>3, <2>1
  <2>4. g[k] = WithDigit(c, y, base)
    BY <1>4, <1>6
  <2> HIDE DEF c, y
  <2>5. e \in Seq(Blocks) /\ Canonical(e) /\ Value(e) = c
    BY <2>2, OneBlock, ValueOfBlock, ValueOfFew
  <2>6. m \in Seq(Blocks) /\ Canonical(m) /\ Value(m) = Value(y) * base
    <3>1. <<base>> \in Seq(Blocks) /\ Canonical(<<base>>) /\ Value(<<base>>) = base
      BY <1>1, OneBlock, ValueOfBlock
    <3> QED
      BY <2>3, <3>1, MultiplicationIsRight
  <2>7. WithDigit(c, y, base) = add(m, e)
    BY DEF WithDigit
  <2> HIDE DEF e, m
  <2>8. add(m, e) \in Seq(Blocks) /\ Canonical(add(m, e)) /\ Value(add(m, e)) = Value(m) + Value(e)
    BY <2>5, <2>6, AdditionIsRight
  <2>9. Value(g[k]) = Value(r[k])
    BY <2>3, <2>4, <2>5, <2>6, <2>7, <2>8
  <2>10. g[k] = r[k]
    BY <2>3, <2>4, <2>7, <2>8, <2>9, OneRepresentation
  <2> QED
    BY <2>1, <2>10
<1>7. \A k \in 0 .. n : k \in T
  <2>1. T \in SUBSET (0 .. n)
    OBVIOUS
  <2> HIDE DEF T
  <2> QED
    BY <1>2, <1>5, <1>6, <2>1, InductDown
<1>8. 0 \in T
  <2>1. 0 \in 0 .. n
    BY <1>2
  <2> HIDE DEF T
  <2> QED
    BY <1>7, <2>1
<1> QED
  BY <1>3, <1>4, <1>8 DEF D

\* The digit written last, which is the first of the text, is not zero.
LEMMA FirstDigitCounts ==
  ASSUME NEW x \in Seq(Blocks), x # <<>>, NEW base \in 2 .. Base - 1,
         NEW s \in SplitStates(x, base), s.rest = <<>>
  PROVE  Len(s.digits) # 0 /\ s.digits[Len(s.digits)] # 0
<1> DEFINE D == s.digits
           n == Len(D)
<1>1. D \in Seq(0 .. base - 1) /\ n \in Nat /\ base \in Nat
  BY BaseType DEF SplitStates
<1>2. PICK r :
        /\ r[0] = x /\ r[n] = <<>>
        /\ \A i \in 0 .. n : r[i] \in Seq(Blocks) /\ Canonical(r[i])
        /\ \A i \in 0 .. n - 1 : r[i] # <<>> /\ Value(r[i]) = Value(r[i + 1]) * base + D[i + 1]
  BY DEF SplitStates, Splits
<1> HIDE DEF n, D
<1>3. n # 0
  BY <1>2
<1>4. D[n] # 0
  <2> SUFFICES ASSUME D[n] = 0 PROVE FALSE
    OBVIOUS
  <2>1. n - 1 \in 0 .. n - 1 /\ n - 1 \in 0 .. n /\ (n - 1) + 1 = n
    BY <1>1, <1>3
  <2>2. r[n - 1] # <<>> /\ Value(r[n - 1]) = Value(r[n]) * base + D[n]
        /\ r[n - 1] \in Seq(Blocks) /\ Canonical(r[n - 1])
    BY <1>2, <2>1
  <2>3. Value(r[n]) = 0
    BY <1>2, ValueOfFew
  <2>4. Value(r[n - 1]) = 0
    BY <1>1, <2>2, <2>3
  <2> QED
    BY <2>2, <2>4, ZeroHasNoBlock
<1> QED
  BY <1>3, <1>4 DEF D, n

\* Turned over twice, a sequence is itself.
LEMMA ReverseTwice ==
  ASSUME NEW S, NEW D \in Seq(S)
  PROVE  /\ Reverse(D) \in Seq(S)
         /\ Reverse(Reverse(D)) = D
<1> DEFINE n == Len(D)
           R == Reverse(D)
<1>1. n \in Nat /\ D \in [1 .. n -> S]
  OBVIOUS
<1>2. R = [i \in 1 .. n |-> D[(n - i) + 1]]
  BY DEF Reverse
<1>3. ASSUME NEW i \in 1 .. n PROVE (n - i) + 1 \in 1 .. n /\ (n - ((n - i) + 1)) + 1 = i
  BY <1>1
<1> HIDE DEF n
<1>4. R \in [1 .. n -> S]
  BY <1>1, <1>2, <1>3
<1>5. R \in Seq(S) /\ Len(R) = n
  BY <1>1, <1>4
<1> HIDE DEF R
<1>6. Reverse(R) = [i \in 1 .. n |-> R[(n - i) + 1]]
  BY <1>5 DEF Reverse
<1>7. \A i \in 1 .. n : R[(n - i) + 1] = D[i]
  BY <1>2, <1>3
<1>8. Reverse(R) = D
  BY <1>1, <1>6, <1>7
<1> QED
  BY <1>5, <1>8 DEF R

\* Nothing is taken off digits whose last is not zero.
LEMMA NothingToZap ==
  ASSUME NEW S, NEW D \in Seq(S), Len(D) # 0, D[Len(D)] # 0
  PROVE  zapLeadingZeros(D) = D
<1> DEFINE n == Len(D)
           M == {0} \cup {i \in DOMAIN D : D[i] # 0}
<1>1. n \in Nat /\ DOMAIN D = 1 .. n /\ n \in 1 .. n
  OBVIOUS
<1>2. M \in SUBSET (0 .. n) /\ n \in M /\ \A i \in M : i <= n
  BY <1>1
<1>3. Max(M) = n
  <2> HIDE DEF M, n
  <2> QED
    BY <1>1, <1>2, MaxIs
<1>4. zapLeadingZeros(D) = SubSeq(D, 1, n)
  <2> HIDE DEF n
  <2> QED
    BY <1>3, Zenon DEF zapLeadingZeros
<1>5. SubSeq(D, 1, n) = D
  OBVIOUS
<1> QED
  BY <1>4, <1>5

\* The digits of a text are digits of the base and stand for the number.
LEMMA TextIsRight ==
  ASSUME NEW x \in Seq(Blocks), Canonical(x), NEW base \in 2 .. Base - 1, NEW sign
  PROVE  LET text == TextOf(sign, x, base)
         IN /\ ~BadDigits(text.digits, base)
            /\ MagnitudeOf(text.digits, base) = x
<1> DEFINE s == Digits(x, base)
           D == s.digits
           R == TextOf(sign, x, base).digits
<1>1. base \in Nat /\ base > 1
  BY BaseType
<1>2. R = IF x = <<>> THEN <<0>> ELSE Reverse(D)
  BY DEF TextOf
<1> HIDE DEF R
<1>3. CASE x = <<>>
  <2>1. R = <<0>>
    BY <1>2, <1>3
  <2>2. ~BadDigits(R, base)
    BY <1>1, <2>1 DEF BadDigits
  <2>3. Reverse(R) = R
    BY <2>1 DEF Reverse
  <2>4. zapLeadingZeros(R) = <<>>
    <3>1. {0} \cup {i \in DOMAIN R : R[i] # 0} = {0}
      BY <2>1
    <3>2. {0} \in SUBSET (0 .. 0) /\ 0 \in {0} /\ \A i \in {0} : i <= 0
      OBVIOUS
    <3>3. Max({0}) = 0
      BY <3>2, MaxIs
    <3>4. zapLeadingZeros(R) = SubSeq(R, 1, 0)
      BY <3>1, <3>3, Zenon DEF zapLeadingZeros
    <3> QED
      BY <2>1, <3>4
  <2>5. FromDigits(<<>>, base) = <<>>
    <3>1. base \in Blocks /\ base # 0 /\ <<>> \in Seq(Blocks) /\ Len(<<>>) = 0
      BY <1>1 DEF Blocks
    <3>2. \E f : f[Len(<<>>)] = <<>> /\ FromDigits(<<>>, base) = f[0]
      BY <3>1, FromDigitsFolds
    <3> QED
      BY <3>1, <3>2
  <2> QED
    BY <1>3, <2>2, <2>3, <2>4, <2>5 DEF MagnitudeOf, R
<1>4. CASE x # <<>>
  <2>1. s \in SplitStates(x, base) /\ s.rest = <<>>
    BY RoomSuffices
  <2> HIDE DEF s
  <2>2. D \in Seq(0 .. base - 1)
    BY <2>1 DEF SplitStates
  <2>3. Len(D) # 0 /\ D[Len(D)] # 0 /\ FromDigits(D, base) = x
    BY <1>4, <2>1, FirstDigitCounts, ReadsBack
  <2> HIDE DEF D
  <2>4. R = Reverse(D) /\ R \in Seq(0 .. base - 1) /\ Reverse(R) = D
    BY <1>2, <1>4, <2>2, ReverseTwice
  <2>5. zapLeadingZeros(D) = D
    BY <2>2, <2>3, NothingToZap
  <2>6. ~BadDigits(R, base)
    <3>1. \A i \in DOMAIN R : R[i] \in 0 .. base - 1
      BY <2>4
    <3> QED
      BY <1>1, <3>1 DEF BadDigits
  <2> QED
    BY <2>3, <2>4, <2>5, <2>6 DEF MagnitudeOf, R
<1> QED
  BY <1>3, <1>4

\* In every base the text of a number fits into the room that was made for its
\* digits and reads back as the number: the estimate of the room from the bits
\* of the base (BigUnsignedInABase.cc:38) is never too small, for a number of
\* any length.
THEOREM PrintingStaysRight ==
  ASSUME "shift_zero" \notin Misuses, "self_move" \notin Misuses
  PROVE  Spec => []PrintsRight
<1>1. ASSUME IInv PROVE PrintsRight
  <2>1. ASSUME NEW z \in Objects, NEW base \in 2 .. Base - 1
        PROVE  LET text == TextOf(reg[z].sign, reg[z].mag, base)
               IN /\ Digits(reg[z].mag, base).rest = <<>>
                  /\ ~BadDigits(text.digits, base)
                  /\ Integer(MagnitudeOf(text.digits, base),
                             IF text.sign = "-" THEN -1 ELSE 1) = reg[z]
    <3> DEFINE m == reg[z].mag
               t == TextOf(reg[z].sign, m, base)
    <3>1. IsNormal(reg[z]) /\ m \in Seq(Blocks) /\ Canonical(m)
      BY <1>1, Operand
    <3>2. Digits(m, base).rest = <<>>
      BY <3>1, RoomSuffices
    <3>3. ~BadDigits(t.digits, base) /\ MagnitudeOf(t.digits, base) = m
      BY <3>1, TextIsRight
    <3>4. t.sign = IF reg[z].sign = -1 THEN "-" ELSE ""
      BY DEF TextOf
    <3> HIDE DEF t
    <3>5. /\ reg[z] = [sign |-> reg[z].sign, mag |-> m]
          /\ reg[z].sign \in {-1, 0, 1} /\ (reg[z].sign = 0 <=> m = <<>>)
      BY <3>1 DEF IsNormal, SignValues
    <3>6. (IF t.sign = "-" THEN -1 ELSE 1) = IF reg[z].sign = -1 THEN -1 ELSE 1
      BY <3>4
    <3>7. Integer(m, IF t.sign = "-" THEN -1 ELSE 1) = reg[z]
      BY <3>5, <3>6 DEF Integer
    <3> QED
      BY <3>2, <3>3, <3>7 DEF t
  <2> QED
    BY <2>1 DEF PrintsRight
<1>2. Init => IInv
  BY InitIInv
<1>3. IInv /\ [Next]_vars => IInv'
  BY StepIInv
<1> QED
  BY <1>1, <1>2, <1>3, PTL DEF Spec

-----------------------------------------------------------------------------
(* Powers                                                                    *)

\* The powers of a number up to one of them.
PowersUpTo(m, n) == LET p[k \in 0 .. n] == IF k = 0 THEN 1 ELSE m * p[k - 1] IN p

ArePowers(p, m, n) == p = [k \in 0 .. n |-> IF k = 0 THEN 1 ELSE m * p[k - 1]]

\* They exist.
LEMMA PowersExist ==
  ASSUME NEW m \in Nat, NEW n \in Nat
  PROVE  \E p : ArePowers(p, m, n)
<1> DEFINE G == [k \in 1 .. n |-> [t \in Nat |-> m * t]]
<1>1. G \in [1 .. n -> [Nat -> Nat]] /\ \A k \in 1 .. n, t \in Nat : G[k][t] = m * t
  <2>1. \A t \in Nat : m * t \in Nat
    BY Products
  <2> QED
    BY <2>1
<1> HIDE DEF G
<1>2. PICK f \in [SUBSET (1 .. n) -> Nat] : IsFold(f, 1 .. n, MaxOf(n), 1, G)
  BY <1>1, MaxFoldExists, 1 \in Nat
<1> DEFINE p == [k \in 0 .. n |-> f[1 .. k]]
<1>3. ASSUME NEW k \in 0 .. n PROVE p[k] = IF k = 0 THEN 1 ELSE m * p[k - 1]
  <2>1. p[k] = f[1 .. k] /\ 1 .. k \in SUBSET (1 .. n)
    OBVIOUS
  <2>2. CASE k = 0
    <3>1. 1 .. k = {}
      BY <2>2
    <3>2. f[1 .. k] = 1
      BY <1>2, <2>1, <3>1 DEF IsFold
    <3> QED
      BY <2>1, <2>2, <3>2
  <2>3. CASE k # 0
    <3> DEFINE s == 1 .. k
               u == 1 .. k - 1
    <3>1. s # {} /\ Max(s) = k /\ s \ {Max(s)} = u
      BY <2>3, FoldSteps
    <3>2. k - 1 \in 0 .. n /\ k \in 1 .. n /\ u \in SUBSET (1 .. n)
      BY <2>3
    <3> HIDE DEF s, u
    <3>3. MaxOf(n)[s] = k
      BY <2>1, <3>1 DEF MaxOf, s
    <3>4. f[s] = G[k][f[u]]
      BY <1>2, <2>1, <3>1, <3>3 DEF IsFold, s
    <3>5. f[u] \in Nat
      BY <1>2, <3>2
    <3>6. f[s] = m * f[u]
      BY <1>1, <3>2, <3>4, <3>5
    <3>7. p[k - 1] = f[u]
      BY <3>2 DEF u
    <3> HIDE DEF p
    <3> QED
      BY <2>1, <2>3, <3>6, <3>7 DEF s
  <2> QED
    BY <2>2, <2>3
<1>4. p = [k \in 0 .. n |-> IF k = 0 THEN 1 ELSE m * p[k - 1]]
  <2>1. p = [k \in 0 .. n |-> p[k]]
    OBVIOUS
  <2> HIDE DEF p
  <2> QED
    BY <1>3, <2>1
<1> HIDE DEF p
<1> QED
  BY <1>4 DEF ArePowers

\* They do not depend on how many of them there are.
LEMMA PowersAgree ==
  ASSUME NEW m \in Nat, NEW n \in Nat, NEW p, NEW q, ArePowers(p, m, n), ArePowers(q, m, n + 1)
  PROVE  p[n] \in Nat /\ q[n] = p[n] /\ q[n + 1] = m * p[n]
<1> DEFINE T == {k \in Nat : k <= n => p[k] \in Nat /\ q[k] = p[k]}
<1>1. /\ \A k \in 0 .. n : p[k] = IF k = 0 THEN 1 ELSE m * p[k - 1]
      /\ \A k \in 0 .. n + 1 : q[k] = IF k = 0 THEN 1 ELSE m * q[k - 1]
  BY DEF ArePowers
<1>2. 0 \in T
  BY <1>1
<1>3. ASSUME NEW k \in T PROVE k + 1 \in T
  <2> SUFFICES ASSUME k + 1 <= n PROVE p[k + 1] \in Nat /\ q[k + 1] = p[k + 1]
    OBVIOUS
  <2>1. k + 1 \in 0 .. n /\ k + 1 \in 0 .. n + 1 /\ k + 1 # 0 /\ (k + 1) - 1 = k
    OBVIOUS
  <2>2. p[k] \in Nat /\ q[k] = p[k]
    OBVIOUS
  <2> HIDE DEF T
  <2>3. p[k + 1] = m * p[k] /\ q[k + 1] = m * q[k]
    BY <1>1, <2>1
  <2>4. m * p[k] \in Nat
    BY <2>2, Products
  <2> QED
    BY <2>2, <2>3, <2>4, Zenon
<1>4. T = Nat
  <2>1. T \in SUBSET Nat
    OBVIOUS
  <2> HIDE DEF T
  <2> QED
    BY <1>2, <1>3, <2>1, Induct
<1>5. p[n] \in Nat /\ q[n] = p[n]
  BY <1>4
<1>6. n + 1 \in 0 .. n + 1 /\ n + 1 # 0 /\ (n + 1) - 1 = n
  OBVIOUS
<1> HIDE DEF T
<1>7. q[n + 1] = m * q[n]
  BY <1>1, <1>6
<1> QED
  BY <1>5, <1>7, Zenon

\* The abstract powers, each from the one before.
LEMMA PowerFacts ==
  ASSUME NEW m \in Nat
  PROVE  /\ Abstract!Power(m, 0) = 1
         /\ \A n \in Nat : /\ Abstract!Power(m, n) \in Nat
                           /\ Abstract!Power(m, n + 1) = m * Abstract!Power(m, n)
<1> DEFINE P(n) == PowersUpTo(m, n)
<1>1. ASSUME NEW n \in Nat PROVE ArePowers(P(n), m, n) /\ Abstract!Power(m, n) = P(n)[n]
  <2>1. \E p : ArePowers(p, m, n)
    BY PowersExist
  <2>2. ArePowers(P(n), m, n)
    BY <2>1 DEF ArePowers, PowersUpTo
  <2> QED
    BY <2>2, Zenon DEF Abstract!Power, PowersUpTo
<1>2. ASSUME NEW n \in Nat
      PROVE  Abstract!Power(m, n) \in Nat /\ Abstract!Power(m, n + 1) = m * Abstract!Power(m, n)
  <2>1. n + 1 \in Nat
    OBVIOUS
  <2>2. ArePowers(P(n), m, n) /\ ArePowers(P(n + 1), m, n + 1)
    BY <1>1, <2>1, Zenon
  <2>3. Abstract!Power(m, n) = P(n)[n] /\ Abstract!Power(m, n + 1) = P(n + 1)[n + 1]
    BY <1>1, <2>1, Zenon
  <2> HIDE DEF P
  <2>4. P(n)[n] \in Nat /\ P(n + 1)[n + 1] = m * P(n)[n]
    BY <2>2, PowersAgree
  <2> QED
    BY <2>3, <2>4, Zenon
<1>3. Abstract!Power(m, 0) = 1
  <2>1. ArePowers(P(0), m, 0) /\ Abstract!Power(m, 0) = P(0)[0]
    BY <1>1, 0 \in Nat
  <2> HIDE DEF P
  <2> QED
    BY <2>1 DEF ArePowers
<1> QED
  BY <1>2, <1>3

\* The powers of two are the values of the bits, and those of the base are the
\* weights of the blocks.
LEMMA PowersAreUnits ==
  /\ \A b \in Nat : Abstract!Power(2, b) = Unit(b)
  /\ \A i \in Nat : Abstract!Power(Base, i) = Weight(i)
<1> DEFINE S == {b \in Nat : Abstract!Power(2, b) = Unit(b)}
           T == {i \in Nat : Abstract!Power(Base, i) = Weight(i)}
<1>1. S = Nat
  <2>1. S \in SUBSET Nat /\ 0 \in S
    BY PowerFacts, FirstUnit
  <2>2. ASSUME NEW b \in S PROVE b + 1 \in S
    <3>1. b \in Nat /\ b + 1 \in Nat /\ Abstract!Power(2, b) = Unit(b)
      OBVIOUS
    <3>2. Abstract!Power(2, b + 1) = 2 * Abstract!Power(2, b) /\ Unit(b + 1) = 2 * Unit(b)
      BY <3>1, PowerFacts, Units
    <3> QED
      BY <3>1, <3>2
  <2> HIDE DEF S
  <2> QED
    BY <2>1, <2>2, Induct
<1>2. T = Nat
  <2>1. T \in SUBSET Nat /\ 0 \in T
    BY PowerFacts, Weights, BaseType
  <2>2. ASSUME NEW i \in T PROVE i + 1 \in T
    <3>1. i \in Nat /\ i + 1 \in Nat /\ Abstract!Power(Base, i) = Weight(i)
      OBVIOUS
    <3>2. Abstract!Power(Base, i + 1) = Base * Abstract!Power(Base, i) /\ Weight(i + 1) = Base * Weight(i)
      BY <3>1, PowerFacts, Weights, BaseType
    <3> QED
      BY <3>1, <3>2
  <2> HIDE DEF T
  <2> QED
    BY <2>1, <2>2, Induct
<1> QED
  BY <1>1, <1>2

-----------------------------------------------------------------------------
(* What is read of a text                                                    *)

\* A turn of the conversion from digits puts the digit below the others.
LEMMA WithDigitValue ==
  ASSUME NEW digit \in Blocks, NEW base \in Blocks, base # 0,
         NEW x \in Seq(Blocks), Canonical(x)
  PROVE  Value(WithDigit(digit, x, base)) = digit + base * Value(x)
<1> DEFINE d == IF digit = 0 THEN <<>> ELSE <<digit>>
           m == multiply(x, <<base>>)
<1>1. d \in Seq(Blocks) /\ Canonical(d) /\ Value(d) = digit
  <2>1. CASE digit = 0
    BY <2>1, OneBlock, ValueOfFew
  <2>2. CASE digit # 0
    BY <2>2, OneBlock, ValueOfBlock
  <2> QED
    BY <2>1, <2>2
<1>2. m \in Seq(Blocks) /\ Canonical(m) /\ Value(m) = Value(x) * base
  <2>1. <<base>> \in Seq(Blocks) /\ Canonical(<<base>>) /\ Value(<<base>>) = base
    BY OneBlock, ValueOfBlock
  <2>2. Value(m) = Value(x) * Value(<<base>>) /\ m \in Seq(Blocks) /\ Canonical(m)
    BY <2>1, MultiplicationIsRight
  <2> QED
    BY <2>1, <2>2, Zenon
<1> HIDE DEF d, m
<1>3. Value(add(m, d)) = Value(m) + Value(d)
  BY <1>1, <1>2, AdditionIsRight
<1>4. WithDigit(digit, x, base) = add(m, d)
  BY DEF WithDigit, m, d
<1> DEFINE v == Value(x)
<1>5. v \in Nat /\ digit \in Nat /\ base \in Nat
  BY ValueIsFrom, BaseType DEF Blocks
<1> HIDE DEF v
<1>6. v * base + digit = digit + base * v
  <2>1. v * base = base * v /\ base * v \in Nat
    BY <1>5, Products
  <2> DEFINE p == base * v
             q == v * base
  <2>2. p \in Nat /\ q = p
    BY <2>1
  <2> HIDE DEF p, q
  <2>3. q + digit = digit + p
    BY <1>5, <2>2
  <2> QED
    BY <2>3 DEF p, q
<1>7. Value(add(m, d)) = v * base + digit
  BY <1>1, <1>2, <1>3, Zenon DEF v
<1> QED
  BY <1>4, <1>6, <1>7, Zenon DEF v

\* Digits are read as the number that they stand for.
LEMMA ReadValue ==
  ASSUME NEW digits \in Seq(Blocks), NEW base \in Blocks, base # 0
  PROVE  Value(FromDigits(digits, base)) = NumberFrom(digits, base, 0)
<1> DEFINE n == Len(digits)
<1>1. n \in Nat /\ digits \in Seq(Nat) /\ base \in Nat
  BY BlocksType, BaseType DEF Blocks
<1>2. PICK f : /\ f[n] = <<>>
               /\ \A k \in 0 .. n - 1 : f[k] = WithDigit(digits[k + 1], f[k + 1], base)
               /\ FromDigits(digits, base) = f[0]
  BY FromDigitsFolds
<1> DEFINE Right(k) == /\ f[k] \in Seq(Blocks) /\ Canonical(f[k])
                       /\ Value(f[k]) = NumberFrom(digits, base, k)
           S == {k \in 0 .. n : Right(k)}
<1>3. n \in S
  <2>1. NumberFrom(digits, base, n) = 0
    BY <1>1, NumberFromFacts
  <2>2. Right(n)
    BY <1>2, <2>1, ValueOfFew, OneBlock, Zenon
  <2>3. n \in 0 .. n
    BY <1>1
  <2> QED
    BY <2>2, <2>3, Zenon
<1>4. ASSUME NEW k \in 0 .. n - 1, k + 1 \in S PROVE k \in S
  <2>1. k \in 0 .. n /\ k \in Nat /\ k + 1 \in 1 .. n
    BY <1>1
  <2> DEFINE x == f[k + 1]
             c == digits[k + 1]
             N1 == NumberFrom(digits, base, k + 1)
  <2>2. x \in Seq(Blocks) /\ Canonical(x) /\ Value(x) = N1
    BY <1>4, Zenon
  <2>3. c \in Blocks /\ Block(digits, k + 1) = c
    <3>1. c \in Blocks
      BY <2>1
    <3>2. Block(digits, k + 1) = c
      BY <2>1, BlocksType, Zenon
    <3> QED
      BY <3>1, <3>2
  <2>4. f[k] = WithDigit(c, x, base)
    BY <1>2
  <2>5. NumberFrom(digits, base, k) = c + base * N1
    <3>1. NumberFrom(digits, base, k) = Block(digits, k + 1) + base * N1
      BY <1>1, <2>1, NumberFromFacts, Zenon
    <3> QED
      BY <2>3, <3>1, Zenon
  <2> HIDE DEF x, c, N1
  <2>6. f[k] \in Seq(Blocks) /\ Canonical(f[k])
    BY <2>2, <2>3, <2>4, WithDigitType
  <2>7. Value(f[k]) = c + base * Value(x)
    BY <2>2, <2>3, <2>4, WithDigitValue
  <2> QED
    BY <2>1, <2>2, <2>5, <2>6, <2>7, Zenon
<1>5. \A k \in 0 .. n : k \in S
  <2>1. S \in SUBSET (0 .. n)
    OBVIOUS
  <2> HIDE DEF S, n
  <2> QED
    BY <1>1, <1>3, <1>4, <2>1, InductDown
<1>6. Right(0)
  <2>1. 0 \in 0 .. n
    BY <1>1
  <2> HIDE DEF n, Right
  <2> QED
    BY <1>5, <2>1
<1> QED
  BY <1>2, <1>6, Zenon

\* What is read of a text is the number of its digits.
LEMMA TextValue ==
  ASSUME NEW digits \in Seq(Nat), ~BadDigits(digits, Radix)
  PROVE  Value(MagnitudeOf(digits, Radix)) = Abstract!NumberOf(Reverse(digits), Radix)
<1>1. Radix \in Blocks /\ Radix # 0 /\ Radix \in Nat
  BY IntegerAssumption, BaseType DEF Blocks
<1> DEFINE d == Reverse(digits)
           z == zapLeadingZeros(d)
<1>2. d \in Seq(Blocks)
  <2>1. \A i \in DOMAIN digits : digits[i] \in Blocks
    <3>1. ASSUME NEW i \in DOMAIN digits PROVE digits[i] \in Blocks
      <4>1. digits[i] \in Nat /\ ~(digits[i] >= Radix)
        BY DEF BadDigits
      <4>2. Base \in Nat /\ Radix \in Nat /\ Radix <= Base - 1
        BY IntegerAssumption, BaseType
      <4> DEFINE c == digits[i]
      <4> HIDE DEF c
      <4>3. c \in 0 .. Base - 1
        BY <4>1, <4>2 DEF c
      <4> QED
        BY <4>3 DEF c, Blocks
    <3> QED
      BY <3>1
  <2>2. digits \in Seq(Blocks)
    BY <2>1
  <2> QED
    BY <2>2, ReverseTwice
<1>3. d \in Seq(Nat) /\ Len(d) \in Nat
  BY <1>2, BlocksType
<1> HIDE DEF d
<1>4. z \in Seq(Blocks)
  BY <1>2, ZapFacts
<1>5. NumberFrom(z, Radix, 0) = NumberFrom(d, Radix, 0)
  BY <1>1, <1>3, ZapKeepsNumber
<1> HIDE DEF z
<1>6. Value(FromDigits(z, Radix)) = NumberFrom(z, Radix, 0)
  BY <1>1, <1>4, ReadValue
<1>7. Abstract!NumberOf(d, Radix) = NumberFrom(d, Radix, 0)
  BY <1>3, NumberOfDigits
<1> QED
  BY <1>5, <1>6, <1>7, Zenon DEF MagnitudeOf, d, z

-----------------------------------------------------------------------------
(* The bits of a number                                                      *)

\* What is left of x where its bits below b are dropped.
HighPart(x, b) ==
  (Block(x, (b \div N) + 1) \div 2 ^ (b % N)) + 2 ^ (N - (b % N)) * From(x, (b \div N) + 1)

\* It counts units of the first bit that is left.
LEMMA HighPartFacts ==
  ASSUME NEW x \in Seq(Blocks), NEW b \in Nat
  PROVE  HighPart(x, b) \in Nat /\ Rest(x, b) = Unit(b) * HighPart(x, b)
<1> DEFINE i == b \div N
           s == b % N
           p == 2 ^ s
           o == 2 ^ (N - s)
           c == Block(x, i + 1) \div p
           f == From(x, i + 1)
           w == Weight(i)
<1>1. i \in Nat /\ s \in 0 .. N - 1 /\ s \in 0 .. N
  <2>1. i \in Nat /\ s \in 0 .. N - 1
    BY BitPlaces
  <2> HIDE DEF i, s
  <2> QED
    BY <2>1, BlockAssumption
<1>2. Block(x, i + 1) \in Nat
  <2> HIDE DEF i
  <2>1. i + 1 \in Nat
    BY <1>1
  <2>2. Block(x, i + 1) \in Blocks
    BY <2>1, BlocksType
  <2> QED
    BY <2>2, BaseType DEF Blocks
<1>3. p \in Nat \ {0} /\ o \in Nat /\ p * o = Base
  <2> HIDE DEF s
  <2> QED
    BY <1>1, Powers
<1>4. c \in Nat /\ f \in Nat /\ w \in Nat
  <2> HIDE DEF i, p
  <2>1. i + 1 \in Nat
    BY <1>1
  <2>2. c \in Nat
    BY <1>2, <1>3, Quotients
  <2> QED
    BY <1>1, <2>1, <2>2, FromFacts, Weights
<1>5. /\ HighPart(x, b) = c + o * f
      /\ Rest(x, b) = w * (p * c + Base * f)
      /\ Unit(b) = w * p
  BY DEF HighPart, Rest, RestAt, Unit
<1> HIDE DEF i, s, p, o, c, f, w
<1>6. o * f \in Nat /\ c + o * f \in Nat
  <2>1. o * f \in Nat
    BY <1>3, <1>4, Products
  <2> DEFINE m == o * f
  <2>2. m \in Nat
    BY <2>1
  <2> HIDE DEF m
  <2>3. c + m \in Nat
    BY <1>4, <2>2
  <2> QED
    BY <2>2, <2>3 DEF m
<1>7. p * (c + o * f) = p * c + Base * f
  <2>1. p * (c + o * f) = p * c + p * (o * f) /\ p * (o * f) = (p * o) * f
    BY <1>3, <1>4, <1>6, Products
  <2> QED
    BY <1>3, <2>1, Zenon
<1>8. (w * p) * (c + o * f) = w * (p * (c + o * f))
  BY <1>3, <1>4, <1>6, Products
<1> QED
  BY <1>5, <1>6, <1>7, <1>8, Zenon

\* Equal products have equal factors.
LEMMA Cancel ==
  ASSUME NEW q \in Nat \ {0}, NEW m \in Nat, NEW n \in Nat, q * m = q * n
  PROVE  m = n
<1>1. q * m \in Nat /\ q * n \in Nat
  BY Products
<1>2. ASSUME NEW a \in Nat, NEW c \in Nat, a < c PROVE q * a # q * c
  <2>1. q * a + q <= q * c /\ q * a \in Nat /\ q * c \in Nat
    BY <1>2, Products
  <2> DEFINE u == q * a
             v == q * c
  <2>2. u + q <= v /\ u \in Nat /\ v \in Nat
    BY <2>1
  <2> HIDE DEF u, v
  <2>3. u # v
    BY <2>2
  <2> QED
    BY <2>3 DEF u, v
<1>3. ~(m < n) /\ ~(n < m)
  BY <1>2
<1> QED
  BY <1>3

\* Bit by bit the number is taken apart.
LEMMA HighPartSteps ==
  ASSUME NEW x \in Seq(Blocks), NEW b \in Nat
  PROVE  getBit(x, b) \in {0, 1} /\ HighPart(x, b) = getBit(x, b) + 2 * HighPart(x, b + 1)
<1> DEFINE g == getBit(x, b)
           t == HighPart(x, b)
           v == HighPart(x, b + 1)
           u == Unit(b)
<1>1. b + 1 \in Nat
  OBVIOUS
<1>2. /\ t \in Nat /\ Rest(x, b) = u * t
      /\ v \in Nat /\ Rest(x, b + 1) = Unit(b + 1) * v
  BY <1>1, HighPartFacts
<1>3. u \in Nat \ {0} /\ Unit(b + 1) = 2 * u
  BY Units
<1>4. g \in {0, 1} /\ Rest(x, b) = Rest(x, b + 1) + g * u
  BY RestSteps DEF Unit
<1> HIDE DEF g, t, v, u
<1>5. u * (g + 2 * v) = (2 * u) * v + g * u
  <2>1. 2 * v \in Nat /\ g \in Nat
    BY <1>2, <1>4
  <2>2. u * (g + 2 * v) = u * g + u * (2 * v) /\ u * g = g * u /\ u * (2 * v) = (u * 2) * v /\ u * 2 = 2 * u
    BY <1>2, <1>3, <2>1, Products
  <2>3. (2 * u) * v \in Nat /\ g * u \in Nat
    BY <1>2, <1>3, <2>1, Products
  <2> DEFINE m == (2 * u) * v
             k == g * u
  <2>4. m \in Nat /\ k \in Nat /\ u * (g + 2 * v) = k + m
    BY <2>2, <2>3
  <2> HIDE DEF m, k
  <2>5. k + m = m + k
    BY <2>4
  <2> QED
    BY <2>4, <2>5 DEF m, k
<1>6. u * t = u * (g + 2 * v)
  BY <1>2, <1>3, <1>4, <1>5, Zenon
<1>7. g + 2 * v \in Nat
  BY <1>2, <1>4
<1>8. t = g + 2 * v
  BY <1>2, <1>3, <1>6, <1>7, Cancel
<1> QED
  BY <1>4, <1>8 DEF g, t, v

\* Dropping bits divides by what the next one stands for.
LEMMA HighPartIsQuotient ==
  ASSUME NEW x \in Seq(Blocks)
  PROVE  \A b \in Nat : HighPart(x, b) = Value(x) \div Unit(b)
<1> DEFINE V == Value(x)
           Left(b) == \E r \in Nat : r < Unit(b) /\ V = Unit(b) * HighPart(x, b) + r
           S == {b \in Nat : Left(b)}
<1>1. V \in Nat
  BY ValueIsFrom
<1>2. 0 \in S
  <2>1. Rest(x, 0) = V /\ Rest(x, 0) = Unit(0) * HighPart(x, 0) /\ HighPart(x, 0) \in Nat
    BY HighPartFacts, RestEnds, 0 \in Nat
  <2> DEFINE t == Unit(0) * HighPart(x, 0)
  <2>2. t = V
    BY <2>1, Zenon
  <2> HIDE DEF t, V
  <2>3. V = t + 0 /\ 0 < Unit(0) /\ 0 \in Nat
    BY <1>1, <2>2, FirstUnit
  <2>4. Left(0)
    BY <2>3, Zenon DEF t
  <2> HIDE DEF Left
  <2> QED
    BY <2>4
<1>3. ASSUME NEW b \in S PROVE b + 1 \in S
  <2>1. b \in Nat /\ b + 1 \in Nat /\ Left(b)
    OBVIOUS
  <2>2. PICK r \in Nat : r < Unit(b) /\ V = Unit(b) * HighPart(x, b) + r
    BY <2>1, Zenon
  <2> DEFINE u == Unit(b)
             y == HighPart(x, b + 1)
             g == getBit(x, b)
  <2>3. u \in Nat \ {0} /\ Unit(b + 1) = 2 * u
    BY <2>1, Units
  <2>4. y \in Nat /\ g \in {0, 1} /\ HighPart(x, b) = g + 2 * y
    BY <2>1, HighPartFacts, HighPartSteps
  <2>5. V = u * (g + 2 * y) + r /\ r < u
    BY <2>2, <2>4, Zenon
  <2> HIDE DEF u, y, g, V
  <2>6. u * (g + 2 * y) = u * g + (2 * u) * y /\ u * g \in Nat /\ (2 * u) * y \in Nat
    <3>1. 2 * y \in Nat /\ g \in Nat /\ 2 * u \in Nat
      BY <2>3, <2>4
    <3>2. u * (g + 2 * y) = u * g + u * (2 * y) /\ u * (2 * y) = (u * 2) * y /\ u * 2 = 2 * u
      BY <2>3, <2>4, <3>1, Products
    <3> QED
      BY <2>3, <2>4, <3>1, <3>2, Products
  <2> DEFINE k == (2 * u) * y
             m == u * g
             q == m + r
  <2>7. q \in Nat /\ q < 2 * u
    <3>1. m = 0 \/ m = u
      BY <2>3, <2>4
    <3>2. r < u /\ r \in Nat
      BY <2>5
    <3> HIDE DEF m
    <3> QED
      BY <2>3, <3>1, <3>2
  <2>8. V = k + q
    <3>1. V = (m + k) + r /\ m \in Nat /\ k \in Nat
      BY <2>5, <2>6, Zenon
    <3> HIDE DEF m, k
    <3> QED
      BY <3>1
  <2> HIDE DEF q, k
  <2>9. q < Unit(b + 1) /\ V = Unit(b + 1) * y + q
    BY <2>3, <2>7, <2>8, Zenon DEF k
  <2>10. Left(b + 1)
    BY <2>7, <2>9, Zenon DEF y
  <2> HIDE DEF Left
  <2> QED
    BY <2>1, <2>10
<1>4. S = Nat
  <2>1. S \in SUBSET Nat
    OBVIOUS
  <2> HIDE DEF S
  <2> QED
    BY <1>2, <1>3, <2>1, Induct
<1>5. ASSUME NEW b \in Nat PROVE HighPart(x, b) = V \div Unit(b)
  <2>1. Left(b)
    <3> HIDE DEF Left
    <3> QED
      BY <1>4
  <2>2. PICK r \in Nat : r < Unit(b) /\ V = Unit(b) * HighPart(x, b) + r
    BY <2>1, Zenon
  <2>3. Unit(b) \in Nat \ {0} /\ HighPart(x, b) \in Nat
    BY Units, HighPartFacts
  <2> HIDE DEF V
  <2> QED
    BY <1>1, <2>2, <2>3, QuotientIs
<1> QED
  BY <1>5

\* The abstract bits are those that getBit() finds.
LEMMA BitsOfNumber ==
  ASSUME NEW x \in Seq(Blocks), NEW b \in Nat
  PROVE  Abstract!Digit(Value(x), b, 2) = getBit(x, b) /\ getBit(x, b) \in {0, 1}
<1> DEFINE t == HighPart(x, b)
           v == HighPart(x, b + 1)
           g == getBit(x, b)
<1>1. b + 1 \in Nat
  OBVIOUS
<1>2. t \in Nat /\ v \in Nat /\ g \in {0, 1} /\ t = g + 2 * v
  BY <1>1, HighPartFacts, HighPartSteps
<1>3. t = Value(x) \div Unit(b)
  BY HighPartIsQuotient
<1>4. Abstract!Digit(Value(x), b, 2) = t % 2
  BY <1>3, PowersAreUnits, Zenon DEF Abstract!Digit
<1> HIDE DEF t, v, g
<1>5. t % 2 = g
  BY <1>2
<1> QED
  BY <1>2, <1>4, <1>5 DEF g

-----------------------------------------------------------------------------
(* Bitwise operations and the numbers of their bits                          *)

\* The abstract operation has as many bits as both numbers.
LEMMA LengthOfBoth ==
  ASSUME NEW m \in Nat, NEW n \in Nat
  PROVE  LET l == CHOOSE l \in 0 .. m + n : m < Abstract!Power(2, l) /\ n < Abstract!Power(2, l)
         IN l \in Nat /\ m < Unit(l) /\ n < Unit(l)
<1> DEFINE S == {b \in Nat : b < Unit(b)}
<1>1. S = Nat
  <2>1. S \in SUBSET Nat /\ 0 \in S
    BY FirstUnit
  <2>2. ASSUME NEW b \in S PROVE b + 1 \in S
    <3>1. b \in Nat /\ b < Unit(b) /\ Unit(b) \in Nat /\ Unit(b + 1) = 2 * Unit(b)
      BY Units
    <3> DEFINE u == Unit(b)
               v == Unit(b + 1)
    <3>2. b \in Nat /\ b < u /\ u \in Nat /\ v = 2 * u
      BY <3>1
    <3> HIDE DEF u, v
    <3>3. b + 1 \in Nat /\ b + 1 < v
      BY <3>2
    <3> QED
      BY <3>3 DEF v
  <2> HIDE DEF S
  <2> QED
    BY <2>1, <2>2, Induct
<1>2. m + n \in Nat /\ m + n \in 0 .. m + n
  OBVIOUS
<1>3. m + n < Unit(m + n)
  BY <1>1, <1>2
<1>4. Unit(m + n) \in Nat
  BY <1>2, Units
<1>5. m < Unit(m + n) /\ n < Unit(m + n)
  <2> DEFINE u == Unit(m + n)
  <2>1. u \in Nat /\ m + n < u
    BY <1>3, <1>4
  <2> HIDE DEF u
  <2>2. m < u /\ n < u
    BY <2>1
  <2> QED
    BY <2>2 DEF u
<1> DEFINE Both(l) == m < Abstract!Power(2, l) /\ n < Abstract!Power(2, l)
           k == CHOOSE l \in 0 .. m + n : Both(l)
<1>6. \A l \in Nat : Both(l) <=> m < Unit(l) /\ n < Unit(l)
  BY PowersAreUnits
<1> HIDE DEF Both
<1>7. k \in 0 .. m + n /\ Both(k)
  BY <1>2, <1>5, <1>6
<1>8. k \in Nat
  BY <1>7
<1>9. m < Unit(k) /\ n < Unit(k)
  BY <1>6, <1>7, <1>8
<1> QED
  BY <1>8, <1>9 DEF Both

\* Where all digits are zero the number is.
LEMMA NoDigits ==
  ASSUME NEW d \in Seq(Nat), NEW r \in Nat, NEW m \in Nat,
         \A k \in Nat : k >= m => Block(d, k + 1) = 0
  PROVE  NumberFrom(d, r, m) = 0
<1> DEFINE n == Len(d)
           T == {k \in 0 .. n + m : k >= m => NumberFrom(d, r, k) = 0}
<1>1. n \in Nat /\ n + m \in Nat
  OBVIOUS
<1>2. n + m \in T
  <2>1. NumberFrom(d, r, n + m) = 0
    BY <1>1, NumberFromFacts
  <2> QED
    BY <1>1, <2>1
<1>3. ASSUME NEW k \in 0 .. (n + m) - 1, k + 1 \in T PROVE k \in T
  <2> SUFFICES ASSUME k >= m PROVE NumberFrom(d, r, k) = 0
    BY <1>1
  <2>1. k \in Nat /\ k + 1 >= m
    BY <1>1
  <2>2. NumberFrom(d, r, k + 1) = 0
    BY <1>3, <2>1
  <2>3. NumberFrom(d, r, k) = Block(d, k + 1) + r * NumberFrom(d, r, k + 1)
    BY <2>1, NumberFromFacts
  <2>4. Block(d, k + 1) = 0 /\ 0 + r * 0 = 0
    BY <2>1
  <2> QED
    BY <2>2, <2>3, <2>4, Zenon
<1>4. T \in SUBSET (0 .. n + m)
  OBVIOUS
<1>5. m \in 0 .. n + m
  BY <1>1
<1> HIDE DEF T, n
<1>6. m \in T
  BY <1>1, <1>2, <1>3, <1>4, <1>5, InductDown
<1> QED
  BY <1>6 DEF T

\* The bits that an operation makes of those of two numbers.
AreBitsOf(d, op, x, y) ==
  \A b \in Nat : Block(d, b + 1) = op[getBit(x, b) + getBit(y, b)]

\* The abstract operation makes the number of those bits.
LEMMA NumberOfBits ==
  ASSUME NEW x \in Seq(Blocks), NEW y \in Seq(Blocks), NEW op, NEW set, 0 \notin set,
         \A t \in 0 .. 2 : op[t] = IF t \in set THEN 1 ELSE 0
  PROVE  \E d \in Seq(Nat) : /\ AreBitsOf(d, op, x, y)
                             /\ Abstract!Bitwise(set, Value(x), Value(y)) = NumberFrom(d, 2, 0)
<1> DEFINE m == Value(x)
           n == Value(y)
           Both(l) == m < Abstract!Power(2, l) /\ n < Abstract!Power(2, l)
           k == CHOOSE l \in 0 .. m + n : Both(l)
           Bit(i) == IF Abstract!Digit(m, i - 1, 2) + Abstract!Digit(n, i - 1, 2) \in set THEN 1 ELSE 0
           d == [i \in 1 .. k |-> Bit(i)]
<1>1. m \in Nat /\ n \in Nat
  BY ValueIsFrom
<1>2. k \in Nat /\ m < Unit(k) /\ n < Unit(k)
  <2> HIDE DEF m, n
  <2> QED
    BY <1>1, LengthOfBoth, Zenon
<1>3. Abstract!Bitwise(set, m, n) = Abstract!NumberOf(d, 2)
  BY Zenon DEF Abstract!Bitwise
<1> HIDE DEF k, Both
<1>4. ASSUME NEW b \in Nat
      PROVE  /\ Bit(b + 1) = op[getBit(x, b) + getBit(y, b)] /\ Bit(b + 1) \in Nat
             /\ b >= k => op[getBit(x, b) + getBit(y, b)] = 0
  <2> DEFINE g == getBit(x, b)
             h == getBit(y, b)
  <2>1. /\ Abstract!Digit(m, b, 2) = g /\ g \in {0, 1}
        /\ Abstract!Digit(n, b, 2) = h /\ h \in {0, 1}
    BY BitsOfNumber
  <2>2. (b + 1) - 1 = b
    OBVIOUS
  <2>3. Bit(b + 1) = IF g + h \in set THEN 1 ELSE 0
    BY <2>1, <2>2, Zenon
  <2>4. b >= k => g = 0 /\ h = 0
    <3> SUFFICES ASSUME b >= k PROVE g = 0 /\ h = 0
      OBVIOUS
    <3>1. Unit(k) <= Unit(b) /\ Unit(k) \in Nat /\ Unit(b) \in Nat \ {0}
      BY <1>2, UnitsGrow, Units
    <3>2. m \div Unit(b) = 0 /\ n \div Unit(b) = 0
      <4> DEFINE u == Unit(b)
                 v == Unit(k)
      <4>1. m < v /\ n < v /\ v <= u /\ v \in Nat /\ u \in Nat \ {0}
        BY <1>2, <3>1
      <4> HIDE DEF u, v, m, n
      <4>2. m < u /\ n < u /\ m = u * 0 + m /\ n = u * 0 + n
        BY <1>1, <4>1
      <4>3. m \div u = 0 /\ n \div u = 0
        BY <1>1, <4>1, <4>2, QuotientIs, 0 \in Nat
      <4> QED
        BY <4>3 DEF u
    <3>3. Abstract!Digit(m, b, 2) = (m \div Unit(b)) % 2 /\ Abstract!Digit(n, b, 2) = (n \div Unit(b)) % 2
      BY PowersAreUnits, Zenon DEF Abstract!Digit
    <3>4. 0 % 2 = 0
      OBVIOUS
    <3> QED
      BY <2>1, <3>2, <3>3, <3>4, Zenon
  <2> HIDE DEF g, h, Bit
  <2>5. g + h \in 0 .. 2
    BY <2>1
  <2>6. op[g + h] = IF g + h \in set THEN 1 ELSE 0
    BY <2>5
  <2>7. Bit(b + 1) = op[g + h] /\ Bit(b + 1) \in Nat
    BY <2>3, <2>6
  <2>8. b >= k => op[g + h] = 0
    BY <2>4, <2>6
  <2> QED
    BY <2>7, <2>8 DEF g, h
<1> HIDE DEF Bit
<1>5. d \in Seq(Nat) /\ Len(d) = k
  <2>1. \A i \in 1 .. k : i - 1 \in Nat /\ (i - 1) + 1 = i
    BY <1>2
  <2>2. \A i \in 1 .. k : Bit(i) \in Nat
    BY <1>4, <2>1
  <2> QED
    BY <1>2, <2>2
<1>6. AreBitsOf(d, op, x, y)
  <2>1. ASSUME NEW b \in Nat PROVE Block(d, b + 1) = op[getBit(x, b) + getBit(y, b)]
    <3>1. CASE b < k
      <4>1. b + 1 \in 1 .. k
        BY <1>2, <3>1
      <4>2. Block(d, b + 1) = Bit(b + 1)
        BY <4>1 DEF Block
      <4> QED
        BY <1>4, <4>2
    <3>2. CASE ~(b < k)
      <4>1. b + 1 \notin 1 .. k /\ b >= k
        BY <1>2, <3>2
      <4>2. Block(d, b + 1) = 0
        BY <4>1 DEF Block
      <4> QED
        BY <1>4, <4>1, <4>2
    <3> QED
      BY <3>1, <3>2
  <2> QED
    BY <2>1 DEF AreBitsOf
<1> HIDE DEF d
<1>7. Abstract!NumberOf(d, 2) = NumberFrom(d, 2, 0)
  BY <1>2, <1>5, NumberOfDigits
<1> QED
  BY <1>3, <1>5, <1>6, <1>7

\* Block by block the operation makes the number of those bits, as far as there
\* are any.
LEMMA BlocksOfBits ==
  ASSUME NEW x \in Seq(Blocks), NEW y \in Seq(Blocks), NEW op \in [0 .. 2 -> {0, 1}],
         NEW d \in Seq(Nat), AreBitsOf(d, op, x, y),
         NEW n \in Nat, NumberFrom(d, 2, n * N) = 0
  PROVE  Value(Blockwise(op, x, y, n)) = NumberFrom(d, 2, 0)
<1> DEFINE z == Blockwise(op, x, y, n)
           A(b) == NumberFrom(d, 2, b)
<1>1. N \in Nat \ {0}
  BY BlockAssumption
<1>2. /\ z \in Seq(Blocks) /\ Len(z) = n
      /\ \A k \in 1 .. n : z[k] = Bitwise(op, Block(x, k), Block(y, k))
  BY BlockwiseType
<1>3. ASSUME NEW b \in Nat
      PROVE  A(b) \in Nat /\ A(b) = op[getBit(x, b) + getBit(y, b)] + 2 * A(b + 1)
  <2>1. A(b) \in Nat /\ A(b) = Block(d, b + 1) + 2 * A(b + 1)
    BY NumberFromFacts, 2 \in Nat
  <2> QED
    BY <2>1, Zenon DEF AreBitsOf
<1> HIDE DEF z, A
<1>4. ASSUME NEW k \in 0 .. n - 1
      PROVE  A(k * N) = Block(z, k + 1) + Base * A((k + 1) * N)
  <2> DEFINE o == k * N
             p == Block(x, k + 1)
             q == Block(y, k + 1)
             u == [i \in 0 .. N |-> A(o + i)]
  <2>1. k \in Nat /\ k + 1 \in 1 .. n /\ k + 1 \in Nat
    OBVIOUS
  <2>2. p \in Nat /\ q \in Nat
    <3>1. p \in Blocks /\ q \in Blocks
      BY <2>1, BlocksType
    <3> HIDE DEF p, q
    <3> QED
      BY <3>1, BaseType DEF Blocks
  <2>3. o \in Nat /\ (k + 1) * N = o + N
    <3>1. N * (k + 1) = N * k + N * 1 /\ N * 1 = N /\ N * k = k * N /\ k * N \in Nat
          /\ N * (k + 1) = (k + 1) * N
      BY <1>1, <2>1, Products
    <3> QED
      BY <3>1
  <2>4. ASSUME NEW i \in 0 .. N - 1
        PROVE  o + i \in Nat /\ getBit(x, o + i) = BitOf(p, i) /\ getBit(y, o + i) = BitOf(q, i)
    <3>1. i \in Nat /\ i < N
      BY <1>1
    <3>2. (o + i) \div N = k /\ (o + i) % N = i /\ o + i \in Nat
      <4> DEFINE c == o + i
      <4>1. c \in Nat /\ c = N * k + i
        <5>1. N * k = o
          BY <1>1, <2>1, Products
        <5> HIDE DEF o
        <5> QED
          BY <2>3, <3>1, <5>1
      <4> HIDE DEF c
      <4>2. c \div N = k /\ c % N = i
        BY <1>1, <2>1, <3>1, <4>1, QuotientIs
      <4> QED
        BY <4>1, <4>2 DEF c
    <3> HIDE DEF o
    <3> QED
      BY <3>2 DEF getBit
  <2>5. \A i \in 0 .. N : u[i] = A(o + i)
    BY Zenon
  <2> HIDE DEF u, o, p, q
  <2>6. \A i \in 0 .. N : u[i] \in Nat
    <3>1. ASSUME NEW i \in 0 .. N PROVE u[i] \in Nat
      <4>1. o + i \in Nat
        BY <1>1, <2>3
      <4> QED
        BY <1>3, <2>5, <4>1
    <3> QED
      BY <3>1
  <2>7. \A i \in 0 .. N - 1 : u[i] = op[BitOf(p, i) + BitOf(q, i)] + 2 * u[i + 1]
    <3>1. ASSUME NEW i \in 0 .. N - 1
          PROVE  u[i] = op[BitOf(p, i) + BitOf(q, i)] + 2 * u[i + 1]
      <4>1. i \in 0 .. N /\ i + 1 \in 0 .. N /\ (o + i) + 1 = o + (i + 1)
        BY <1>1, <2>3
      <4>2. A(o + i) = op[BitOf(p, i) + BitOf(q, i)] + 2 * A((o + i) + 1)
        BY <1>3, <2>4, Zenon
      <4> QED
        BY <2>5, <4>1, <4>2, Zenon
    <3> QED
      BY <3>1
  <2>8. u[0] = Bitwise(op, p, q) + Base * u[N]
    BY <2>2, <2>6, <2>7, BitwiseFacts, Zenon
  <2>9. u[0] = A(o) /\ u[N] = A((k + 1) * N)
    <3>1. 0 \in 0 .. N /\ N \in 0 .. N /\ o + 0 = o
      BY <1>1, <2>3
    <3> QED
      BY <2>3, <2>5, <3>1
  <2>10. Block(z, k + 1) = Bitwise(op, p, q)
    <3>1. Block(z, k + 1) = z[k + 1]
      BY <1>2, <2>1, BlocksType
    <3> QED
      BY <1>2, <2>1, <3>1 DEF p, q
  <2> QED
    BY <2>8, <2>9, <2>10, Zenon DEF o
<1> DEFINE T == {k \in 0 .. n : From(z, k) = A(k * N)}
<1>5. n \in T
  <2>1. From(z, n) = 0
    BY <1>2, FromFacts
  <2> QED
    BY <2>1 DEF A
<1>6. ASSUME NEW k \in 0 .. n - 1, k + 1 \in T PROVE k \in T
  <2>1. k \in Nat /\ k \in 0 .. n
    OBVIOUS
  <2>2. From(z, k) = Block(z, k + 1) + Base * From(z, k + 1)
    BY <1>2, <2>1, FromFacts
  <2>3. From(z, k + 1) = A((k + 1) * N)
    BY <1>6
  <2>4. From(z, k) = A(k * N)
    BY <1>4, <2>2, <2>3, Zenon
  <2> QED
    BY <2>1, <2>4
<1>7. 0 \in T
  <2>1. T \in SUBSET (0 .. n) /\ 0 \in 0 .. n
    OBVIOUS
  <2> HIDE DEF T
  <2>2. \A k \in 0 .. n : k \in T
    BY <1>5, <1>6, <2>1, InductDown
  <2> QED
    BY <2>1, <2>2
<1>8. 0 * N = 0
  BY <1>1
<1>9. From(z, 0) = A(0)
  BY <1>7, <1>8
<1> QED
  BY <1>2, <1>9, ValueIsFrom DEF z, A

\* Above its blocks a number has no bits.
LEMMA NoBits ==
  ASSUME NEW x \in Seq(Blocks), NEW n \in Nat, Len(x) <= n, NEW b \in Nat, b >= n * N
  PROVE  getBit(x, b) = 0
<1> DEFINE i == b \div N
           s == b % N
<1>1. i \in Nat /\ s \in 0 .. N - 1 /\ b = N * i + s
  BY BitPlaces
<1>2. N \in Nat \ {0}
  BY BlockAssumption
<1> HIDE DEF i, s
<1>3. i >= n
  <2> SUFFICES ASSUME i < n PROVE FALSE
    BY <1>1
  <2>1. N * i + N <= N * n /\ N * n = n * N /\ N * i \in Nat /\ N * n \in Nat
    BY <1>1, <1>2, Products
  <2> DEFINE u == N * i
             v == N * n
  <2>2. u + N <= v /\ b >= v /\ b = u + s /\ u \in Nat /\ v \in Nat
    BY <1>1, <2>1
  <2> HIDE DEF u, v
  <2> QED
    BY <1>1, <1>2, <2>2
<1>4. Block(x, i + 1) = 0
  <2>1. Len(x) \in Nat
    OBVIOUS
  <2>2. i + 1 \in Nat /\ i + 1 > Len(x)
    BY <1>1, <1>3, <2>1
  <2> QED
    BY <2>2, BlocksType
<1>5. BitOf(0, s) = 0
  <2>1. 2 ^ s \in Nat \ {0}
    BY <1>1, OneBit, 0 \in Nat
  <2> DEFINE p == 2 ^ s
  <2> HIDE DEF p
  <2>2. p \in Nat \ {0} /\ 0 = p * 0 + 0
    BY <2>1 DEF p
  <2>3. 0 \div p = 0
    BY <2>2, QuotientIs, 0 \in Nat
  <2>4. 0 % 2 = 0
    OBVIOUS
  <2> QED
    BY <2>3, <2>4, Zenon DEF BitOf, p
<1> QED
  BY <1>4, <1>5, Zenon DEF getBit, i, s

\* So each operation makes the number that the abstract one makes.
LEMMA OperationIsRight ==
  ASSUME NEW x \in Seq(Blocks), NEW y \in Seq(Blocks), NEW op \in [0 .. 2 -> {0, 1}],
         NEW set, 0 \notin set, \A t \in 0 .. 2 : op[t] = IF t \in set THEN 1 ELSE 0,
         NEW n \in Nat,
         \A b \in Nat : b >= n * N => op[getBit(x, b) + getBit(y, b)] = 0
  PROVE  Value(Blockwise(op, x, y, n)) = Abstract!Bitwise(set, Value(x), Value(y))
<1>1. PICK d \in Seq(Nat) : /\ AreBitsOf(d, op, x, y)
                            /\ Abstract!Bitwise(set, Value(x), Value(y)) = NumberFrom(d, 2, 0)
  BY NumberOfBits
<1>2. n * N \in Nat
  BY BlockAssumption, Products
<1>3. \A b \in Nat : b >= n * N => Block(d, b + 1) = 0
  BY <1>1, Zenon DEF AreBitsOf
<1>4. NumberFrom(d, 2, n * N) = 0
  <2> DEFINE m == n * N
  <2> HIDE DEF m
  <2>1. m \in Nat /\ \A b \in Nat : b >= m => Block(d, b + 1) = 0
    BY <1>2, <1>3 DEF m
  <2>2. NumberFrom(d, 2, m) = 0
    BY <2>1, NoDigits, 2 \in Nat
  <2> QED
    BY <2>2 DEF m
<1>5. Value(Blockwise(op, x, y, n)) = NumberFrom(d, 2, 0)
  BY <1>1, <1>4, BlocksOfBits
<1> QED
  BY <1>1, <1>5, Zenon

\* bitAnd(), bitOr() and bitXor() work bit by bit, however many blocks the
\* operands have.
THEOREM BitwiseIsRight ==
  ASSUME NEW x \in Seq(Blocks), NEW y \in Seq(Blocks)
  PROVE  /\ Value(bitAnd(x, y)) = Abstract!Bitwise({2}, Value(x), Value(y))
         /\ Value(bitOr(x, y)) = Abstract!Bitwise({1, 2}, Value(x), Value(y))
         /\ Value(bitXor(x, y)) = Abstract!Bitwise({1}, Value(x), Value(y))
<1> DEFINE n == Max({Len(x), Len(y)})
           m == Min({Len(x), Len(y)})
<1>1. /\ Len(x) \in Nat /\ Len(y) \in Nat /\ m \in Nat /\ n \in Nat
      /\ Len(x) <= n /\ Len(y) <= n /\ (m = Len(x) \/ m = Len(y))
  <2>1. Len(x) \in Nat /\ Len(y) \in Nat
    OBVIOUS
  <2>2. m \in {Len(x), Len(y)} /\ n \in {Len(x), Len(y)} /\ Len(x) <= n /\ Len(y) <= n
    BY <2>1, OfTwoLengths
  <2> HIDE DEF m, n
  <2> QED
    BY <2>1, <2>2
<1>2. \A b \in Nat : getBit(x, b) \in {0, 1} /\ getBit(y, b) \in {0, 1}
  BY RestSteps
<1>3. Value(bitAnd(x, y)) = Abstract!Bitwise({2}, Value(x), Value(y))
  <2> HIDE DEF m, n
  <2>1. \A t \in 0 .. 2 : And[t] = IF t \in {2} THEN 1 ELSE 0
    BY DEF And
  <2>2. ASSUME NEW b \in Nat, b >= m * N PROVE And[getBit(x, b) + getBit(y, b)] = 0
    <3>1. getBit(x, b) = 0 \/ getBit(y, b) = 0
      <4>1. CASE m = Len(x)
        BY <1>1, <2>2, <4>1, NoBits
      <4>2. CASE m = Len(y)
        BY <1>1, <2>2, <4>2, NoBits
      <4> QED
        BY <1>1, <4>1, <4>2
    <3> DEFINE g == getBit(x, b)
               h == getBit(y, b)
    <3>2. g \in {0, 1} /\ h \in {0, 1} /\ (g = 0 \/ h = 0)
      BY <1>2, <3>1
    <3> HIDE DEF g, h
    <3>3. g + h \in 0 .. 2 /\ g + h \notin {2}
      BY <3>2
    <3>4. And[g + h] = 0
      BY <2>1, <3>3
    <3> QED
      BY <3>4 DEF g, h
  <2>3. And \in [0 .. 2 -> {0, 1}] /\ 0 \notin {2}
    BY OperationsType
  <2>4. Value(Blockwise(And, x, y, m)) = Abstract!Bitwise({2}, Value(x), Value(y))
    BY <1>1, <2>1, <2>2, <2>3, OperationIsRight
  <2>5. Blockwise(And, x, y, m) \in Seq(Blocks)
    BY <1>1, <2>3, BlockwiseType
  <2> QED
    BY <2>4, <2>5, ZapFacts DEF bitAnd, m
<1> HIDE DEF m, n
<1>4. ASSUME NEW op, op[0] = 0, NEW b \in Nat, b >= n * N
      PROVE  op[getBit(x, b) + getBit(y, b)] = 0
  <2>1. getBit(x, b) = 0 /\ getBit(y, b) = 0
    BY <1>1, <1>4, NoBits
  <2>2. 0 + 0 = 0
    OBVIOUS
  <2> QED
    BY <1>4, <2>1, <2>2, Zenon
<1>5. Value(bitOr(x, y)) = Abstract!Bitwise({1, 2}, Value(x), Value(y))
  <2>1. Or[0] = 0 /\ \A t \in 0 .. 2 : Or[t] = IF t \in {1, 2} THEN 1 ELSE 0
    BY DEF Or
  <2>2. Or \in [0 .. 2 -> {0, 1}] /\ 0 \notin {1, 2}
    BY OperationsType
  <2>3. Value(Blockwise(Or, x, y, n)) = Abstract!Bitwise({1, 2}, Value(x), Value(y))
    BY <1>1, <1>4, <2>1, <2>2, OperationIsRight
  <2> QED
    BY <2>3 DEF bitOr, n
<1>6. Value(bitXor(x, y)) = Abstract!Bitwise({1}, Value(x), Value(y))
  <2>1. Xor[0] = 0 /\ \A t \in 0 .. 2 : Xor[t] = IF t \in {1} THEN 1 ELSE 0
    BY DEF Xor
  <2>2. Xor \in [0 .. 2 -> {0, 1}] /\ 0 \notin {1}
    BY OperationsType
  <2>3. Value(Blockwise(Xor, x, y, n)) = Abstract!Bitwise({1}, Value(x), Value(y))
    BY <1>1, <1>4, <2>1, <2>2, OperationIsRight
  <2>4. Blockwise(Xor, x, y, n) \in Seq(Blocks)
    BY <1>1, <2>2, BlockwiseType
  <2> QED
    BY <2>3, <2>4, ZapFacts DEF bitXor, n
<1> QED
  BY <1>3, <1>5, <1>6

-----------------------------------------------------------------------------
(* What the calls compute, as the abstract operators                         *)

\* The digits of a number in the base of the blocks are the blocks.
LEMMA DigitsAreBlocks ==
  ASSUME NEW x \in Seq(Blocks), NEW i \in Nat
  PROVE  Abstract!Digit(Value(x), i, Base) = Block(x, i + 1)
<1>1. \E a \in Seq(Blocks) : Len(a) <= i /\ \A k \in 1 .. i : Block(x, k) = Block(a, k)
  <2>1. CASE i <= Len(x)
    <3> DEFINE a == SubSeq(x, 1, i)
    <3>1. i \in 0 .. Len(x) /\ Len(x) \in Nat
      BY <2>1
    <3>2. a \in Seq(Blocks) /\ Len(a) = i
      BY <3>1, CutValue
    <3>3. ASSUME NEW k \in 1 .. i PROVE Block(x, k) = Block(a, k)
      <4>1. a[k] = x[k] /\ k \in 1 .. Len(x)
        BY <3>1, <3>2
      <4> HIDE DEF a
      <4>2. k \in 1 .. Len(a)
        BY <3>2
      <4> QED
        BY <3>2, <4>1, <4>2, BlocksType
    <3> HIDE DEF a
    <3> QED
      BY <3>1, <3>2, <3>3
  <2>2. CASE ~(i <= Len(x))
    BY <2>2
  <2> QED
    BY <2>1, <2>2
<1>2. PICK a \in Seq(Blocks) : Len(a) <= i /\ \A k \in 1 .. i : Block(x, k) = Block(a, k)
  BY <1>1
<1> DEFINE w == Weight(i)
           f == From(x, i)
           r == Value(a)
           V == Value(x)
           c == Block(x, i + 1)
           g == From(x, i + 1)
<1>3. V = r + w * f
  BY <1>2, SplitValue, Zenon
<1>4. r < w /\ w \in Nat \ {0} /\ r \in Nat /\ V \in Nat
  BY <1>2, BelowWeight, Weights, ValueIsFrom
<1>5. f \in Nat /\ g \in Nat /\ f = c + Base * g /\ c \in Blocks
  <2>1. i + 1 \in Nat
    OBVIOUS
  <2> QED
    BY <2>1, FromFacts, BlocksType
<1>6. Abstract!Digit(V, i, Base) = (V \div w) % Base
  BY PowersAreUnits, Zenon DEF Abstract!Digit
<1> HIDE DEF w, f, r, V, c, g
<1>7. V \div w = f
  <2>1. w * f \in Nat
    BY <1>4, <1>5, Products
  <2> DEFINE m == w * f
  <2>2. m \in Nat /\ V = r + m
    BY <1>3, <2>1
  <2> HIDE DEF m
  <2>3. V = m + r
    BY <1>4, <2>2
  <2> QED
    BY <1>4, <1>5, <2>3, QuotientIs DEF m
<1>8. f % Base = c
  <2>1. c \in Nat /\ c < Base /\ Base \in Nat \ {0}
    BY <1>5, BaseType DEF Blocks
  <2>2. Base * g \in Nat
    BY <1>5, <2>1, Products
  <2> DEFINE m == Base * g
  <2>3. m \in Nat /\ f = c + m
    BY <1>5, <2>2
  <2> HIDE DEF m
  <2>4. f = m + c
    BY <2>1, <2>3
  <2> QED
    BY <1>5, <2>1, <2>4, QuotientIs DEF m
<1> QED
  BY <1>6, <1>7, <1>8 DEF V, c

\* A digit in the place of another.
LEMMA Replaced ==
  ASSUME NEW s \in Nat, NEW v \in Nat, NEW p \in Nat, NEW d \in Nat, NEW n \in Nat,
         s + p * d = v + p * n
  PROVE  s = v + (n - d) * p
<1> DEFINE a == p * d
           b == p * n
<1>1. a \in Nat /\ b \in Nat
  BY Products
<1>2. (n - d) * p = b - a
  OBVIOUS
<1>3. s + a = v + b
  OBVIOUS
<1> HIDE DEF a, b
<1>4. s = v + (b - a)
  BY <1>1, <1>3
<1> QED
  BY <1>2, <1>4, Zenon

\* setBlock() and setBit() replace a digit.
LEMMA SettingIsRight ==
  ASSUME NEW x \in Seq(Blocks), Canonical(x), NEW i \in Nat
  PROVE  /\ \A c \in Blocks : Value(setBlock(x, i, c)) = Abstract!WithDigit(Value(x), i, c, Base)
         /\ \A bit \in {0, 1} : Value(setBit(x, i, bit)) = Abstract!WithDigit(Value(x), i, bit, 2)
<1>1. Value(x) \in Nat
  BY ValueIsFrom
<1>2. ASSUME NEW c \in Blocks
      PROVE  Value(setBlock(x, i, c)) = Abstract!WithDigit(Value(x), i, c, Base)
  <2> DEFINE s == Value(setBlock(x, i, c))
             v == Value(x)
             p == Weight(i)
             d == Block(x, i + 1)
  <2>1. s + p * d = v + p * c /\ s \in Nat
    BY SetBlockFacts, ValueIsFrom
  <2>2. p \in Nat /\ d \in Nat /\ c \in Nat
    <3>1. i + 1 \in Nat
      OBVIOUS
    <3>2. d \in Blocks
      BY <3>1, BlocksType
    <3>3. p \in Nat
      BY Weights
    <3> HIDE DEF d, p
    <3> QED
      BY <3>2, <3>3, BaseType DEF Blocks
  <2>3. Abstract!WithDigit(v, i, c, Base) = v + (c - d) * p
    BY DigitsAreBlocks, PowersAreUnits, Zenon DEF Abstract!WithDigit
  <2> HIDE DEF s, v, p, d
  <2>4. v \in Nat
    BY <1>1 DEF v
  <2>5. s = v + (c - d) * p
    BY <2>1, <2>2, <2>4, Replaced
  <2> QED
    BY <2>3, <2>5, Zenon DEF s, v
<1>3. ASSUME NEW bit \in {0, 1}
      PROVE  Value(setBit(x, i, bit)) = Abstract!WithDigit(Value(x), i, bit, 2)
  <2> DEFINE s == Value(setBit(x, i, bit))
             v == Value(x)
             p == Unit(i)
             d == getBit(x, i)
  <2>1. s + p * d = v + p * bit /\ s \in Nat
    BY SettingBit, ValueIsFrom
  <2>2. p \in Nat /\ d \in Nat /\ bit \in Nat
    <3>1. d \in {0, 1}
      BY BitsOfNumber
    <3>2. p \in Nat
      BY Units
    <3> HIDE DEF d, p
    <3> QED
      BY <3>1, <3>2
  <2>3. Abstract!WithDigit(v, i, bit, 2) = v + (bit - d) * p
    BY BitsOfNumber, PowersAreUnits, Zenon DEF Abstract!WithDigit
  <2> HIDE DEF s, v, p, d
  <2>4. v \in Nat
    BY <1>1 DEF v
  <2>5. s = v + (bit - d) * p
    BY <2>1, <2>2, <2>4, Replaced
  <2> QED
    BY <2>3, <2>5, Zenon DEF s, v
<1> QED
  BY <1>2, <1>3

\* The shifts multiply and divide by powers of two.
LEMMA ShiftIsRight ==
  ASSUME NEW x \in Seq(Blocks), Canonical(x), x # <<>>, NEW b \in Int
  PROVE  /\ Value(bitShiftLeft(x, b)) = Abstract!Shift(Value(x), b)
         /\ Value(bitShiftRight(x, b)) = Abstract!Shift(Value(x), -b)
<1> DEFINE v == Value(x)
<1>1. v \in Nat
  BY ValueIsFrom
<1>2. ASSUME NEW n \in Nat
      PROVE  /\ Value(LeftShift(x, n)) = Abstract!Shift(v, n)
             /\ Value(RightShift(x, n)) = Abstract!Shift(v, -n)
  <2>1. Value(LeftShift(x, n)) = Unit(n) * v /\ Value(RightShift(x, n)) = v \div Unit(n)
    BY LeftShiftIsRight, RightShiftIsRight
  <2>2. Abstract!Power(2, n) = Unit(n) /\ Unit(n) \in Nat \ {0}
    BY PowersAreUnits, Units
  <2>3. Unit(n) * v = v * Unit(n)
    BY <1>1, <2>2, Products
  <2>4. Abstract!Shift(v, n) = v * Abstract!Power(2, n)
    <3>1. n >= 0
      OBVIOUS
    <3> QED
      BY <3>1 DEF Abstract!Shift
  <2>5. CASE n = 0
    <3>1. Unit(n) = 1
      BY <2>5, FirstUnit
    <3> HIDE DEF v
    <3>2. v \div 1 = v /\ v * 1 = v
      BY <1>1
    <3>3. -n = n
      <4>1. \A k \in Int : k >= 0 /\ k <= 0 => -k = k
        OBVIOUS
      <4>2. n \in Int /\ n >= 0 /\ n <= 0
        BY <2>5
      <4> QED
        BY <4>1, <4>2, Zenon
    <3>4. Abstract!Shift(v, -n) = v
      BY <2>2, <2>4, <2>5, <3>1, <3>2, <3>3, Zenon
    <3>5. Value(RightShift(x, n)) = v
      BY <2>1, <3>1, <3>2, Zenon
    <3> QED
      BY <2>1, <2>2, <2>3, <2>4, <3>4, <3>5, Zenon
  <2>6. CASE n # 0
    <3>1. ~(-n >= 0) /\ -(-n) = n
      BY <2>6
    <3>2. Abstract!Shift(v, -n) = v \div Abstract!Power(2, n)
      BY <3>1, Zenon DEF Abstract!Shift
    <3> QED
      BY <2>1, <2>2, <2>3, <2>4, <3>2, Zenon
  <2> QED
    BY <2>5, <2>6
<1> HIDE DEF v
<1>3. CASE b < 0
  <2>1. -b \in Nat /\ -(-b) = b
    BY <1>3
  <2>2. bitShiftLeft(x, b) = RightShift(x, -b) /\ bitShiftRight(x, b) = LeftShift(x, -b)
    BY <1>3 DEF bitShiftLeft, bitShiftRight
  <2>3. Value(RightShift(x, -b)) = Abstract!Shift(v, -(-b)) /\ Value(LeftShift(x, -b)) = Abstract!Shift(v, -b)
    BY <1>2, <2>1
  <2> QED
    BY <2>1, <2>2, <2>3, Zenon DEF v
<1>4. CASE ~(b < 0)
  <2>1. b \in Nat
    BY <1>4
  <2>2. bitShiftLeft(x, b) = LeftShift(x, b) /\ bitShiftRight(x, b) = RightShift(x, b)
    BY <1>4 DEF bitShiftLeft, bitShiftRight
  <2>3. Value(LeftShift(x, b)) = Abstract!Shift(v, b) /\ Value(RightShift(x, b)) = Abstract!Shift(v, -b)
    BY <1>2, <2>1
  <2> QED
    BY <2>2, <2>3, Zenon DEF v
<1> QED
  BY <1>3, <1>4

\* A quotient that is rounded down, of an integer.
LEMMA IntegerQuotientIs ==
  ASSUME NEW a \in Int, NEW q \in Nat \ {0}, NEW h \in Int, NEW r \in Nat, r < q, a = h * q + r
  PROVE  a \div q = h
<1> DEFINE d == a \div q
           e == a % q
<1>1. d \in Int /\ e \in Nat /\ e < q /\ a = q * d + e
  <2>1. a \div q \in Int /\ a % q \in Nat /\ a % q < q
    OBVIOUS
  <2>2. q \in Int /\ q > 0
    OBVIOUS
  <2> QED
    BY <2>1, <2>2, Division
<1> HIDE DEF d, e
<1>2. h * q = q * h
  OBVIOUS
<1>3. q * d + e = q * h + r
  BY <1>1, <1>2, Zenon
<1>4. ASSUME NEW k \in Int, NEW t \in Nat \ {0} PROVE q * (k + t) = q * k + q * t /\ q <= q * t
  <2>1. q * 1 <= q * t /\ q * 1 = q
    <3>1. 1 <= t /\ 1 \in Nat
      OBVIOUS
    <3> QED
      BY <3>1, Products
  <2>2. q * (k + t) = q * k + q * t
    OBVIOUS
  <2> QED
    BY <2>1, <2>2
<1>5. CASE d < h
  <2> DEFINE t == h - d
  <2>1. t \in Nat \ {0} /\ h = d + t
    BY <1>1, <1>5
  <2> HIDE DEF t
  <2>2. q * (d + t) = q * d + q * t /\ q <= q * t
    BY <1>1, <1>4, <2>1
  <2> DEFINE u == q * d
             v == q * t
             w == q * h
  <2>3. u \in Int /\ v \in Int /\ w = u + v /\ q <= v /\ u + e = w + r
    BY <1>1, <1>3, <2>1, <2>2
  <2> HIDE DEF u, v, w
  <2> QED
    BY <1>1, <2>3
<1>6. CASE h < d
  <2> DEFINE t == d - h
  <2>1. t \in Nat \ {0} /\ d = h + t
    BY <1>1, <1>6
  <2> HIDE DEF t
  <2>2. q * (h + t) = q * h + q * t /\ q <= q * t
    BY <1>4, <2>1
  <2> DEFINE u == q * h
             v == q * t
             w == q * d
  <2>3. u \in Int /\ v \in Int /\ w = u + v /\ q <= v /\ w + e = u + r
    BY <1>1, <1>3, <2>1, <2>2
  <2> HIDE DEF u, v, w
  <2> QED
    BY <1>1, <2>3
<1>7. d = h
  BY <1>1, <1>5, <1>6
<1> QED
  BY <1>7 DEF d

\* So it is the abstract quotient, and what is left the abstract remainder.
LEMMA FloorIs ==
  ASSUME NEW p \in Int, NEW q \in Int, NEW h \in Int, NEW r \in Int,
         q # 0, p = h * q + r,
         q > 0 => 0 <= r /\ r < q, q < 0 => q < r /\ r <= 0
  PROVE  Abstract!FloorQuotient(p, q) = h /\ Abstract!FloorRemainder(p, q) = r
<1>1. Abstract!FloorQuotient(p, q) = h
  <2>1. CASE q > 0
    <3>1. q \in Nat \ {0} /\ r \in Nat /\ r < q
      BY <2>1
    <3>2. p \div q = h
      BY <3>1, IntegerQuotientIs
    <3> QED
      BY <2>1, <3>2 DEF Abstract!FloorQuotient
  <2>2. CASE ~(q > 0)
    <3> DEFINE a == -p
               b == -q
               c == -r
    <3>1. b \in Nat \ {0} /\ c \in Nat /\ c < b /\ a \in Int
      BY <2>2
    <3>2. a = h * b + c
      <4>1. h * b = -(h * q)
        OBVIOUS
      <4> DEFINE m == h * q
      <4>2. p = m + r /\ m \in Int
        OBVIOUS
      <4> HIDE DEF m
      <4>3. -p = -m + (-r)
        BY <4>2
      <4> QED
        BY <4>1, <4>3 DEF m
    <3> HIDE DEF a, b, c
    <3>3. a \div b = h
      BY <3>1, <3>2, IntegerQuotientIs
    <3> QED
      BY <2>2, <3>3 DEF Abstract!FloorQuotient, a, b
  <2> QED
    BY <2>1, <2>2
<1> DEFINE m == h * q
<1>2. p = m + r /\ m \in Int /\ q * h = m
  OBVIOUS
<1> HIDE DEF m
<1>3. p - q * h = r
  BY <1>2
<1> QED
  BY <1>1, <1>3 DEF Abstract!FloorRemainder

\* Division of integers.
LEMMA DividedIsRight ==
  ASSUME NEW x, NEW y, IsNormal(x), IsNormal(y), y.sign # 0
  PROVE  /\ Held(y) # 0
         /\ Held(Divided(x, y).quotient) = Abstract!FloorQuotient(Held(x), Held(y))
         /\ Held(Divided(x, y).remainder) = Abstract!FloorRemainder(Held(x), Held(y))
<1> DEFINE h == Held(Divided(x, y).quotient)
           r == Held(Divided(x, y).remainder)
           p == Held(x)
           q == Held(y)
<1>1. RoundsDown(Divided(x, y).quotient, Divided(x, y).remainder, x, y)
  BY DivisionRoundsDown
<1>2. IsNormal(Divided(x, y).quotient) /\ IsNormal(Divided(x, y).remainder)
  BY <1>1 DEF RoundsDown
<1>3. h \in Int /\ r \in Int /\ p \in Int
  BY <1>2, NormalFacts
<1>4. q \in Int /\ q # 0
  <2> DEFINE v == Value(y.mag)
  <2>1. v \in Nat /\ v # 0 /\ y.sign \in {-1, 1} /\ q \in Int
        /\ (y.sign = -1 => q = -v) /\ (y.sign = 1 => q = v)
    BY NormalFacts
  <2> HIDE DEF v, q
  <2> QED
    BY <2>1
<1>5. p = h * q + r /\ (q > 0 => 0 <= r /\ r < q) /\ (q < 0 => q < r /\ r <= 0)
  BY <1>1 DEF RoundsDown
<1> HIDE DEF h, r, p, q
<1>6. Abstract!FloorQuotient(p, q) = h /\ Abstract!FloorRemainder(p, q) = r
  BY <1>3, <1>4, <1>5, FloorIs
<1> QED
  BY <1>4, <1>6 DEF h, r, p, q

\* Division of magnitudes, whose quotient is not negative.
LEMMA MagnitudesDivide ==
  ASSUME NEW x \in Seq(Blocks), NEW y \in Seq(Blocks), Canonical(x), Canonical(y), y # <<>>
  PROVE  LET d == divideWithRemainder(x, y)
         IN /\ Value(d.quotient) = Abstract!FloorQuotient(Value(x), Value(y))
            /\ Value(d.remainder) = Abstract!FloorRemainder(Value(x), Value(y))
<1> DEFINE d == divideWithRemainder(x, y)
           h == Value(d.quotient)
           r == Value(d.remainder)
           p == Value(x)
           q == Value(y)
<1>1. d.quotient \in Seq(Blocks) /\ d.remainder \in Seq(Blocks) /\ p = h * q + r /\ r < q
  BY DivisionIsRight
<1>2. h \in Nat /\ r \in Nat /\ p \in Nat /\ q \in Nat
  BY <1>1, ValueIsFrom
<1> HIDE DEF d, h, r, p, q
<1>3. q # 0 /\ q > 0 /\ 0 <= r
  BY <1>1, <1>2
<1>4. p \in Int /\ q \in Int /\ h \in Int /\ r \in Int /\ ~(q < 0)
  BY <1>2, <1>3
<1>5. Abstract!FloorQuotient(p, q) = h /\ Abstract!FloorRemainder(p, q) = r
  BY <1>1, <1>3, <1>4, FloorIs
<1> QED
  BY <1>5 DEF d, h, r, p, q

\* The operators of BigInteger.
LEMMA CombinationIsRight ==
  ASSUME NEW x, NEW y, IsNormal(x), IsNormal(y),
         NEW by \in {"+", "-", "*", "/", "%"}, by \in {"/", "%"} => y.sign # 0
  PROVE  Held(Combination(by, x, y)) = Abstract!Combination(by, Held(x), Held(y))
<1> DEFINE p == Held(x)
           q == Held(y)
<1>0. p \in Int /\ q \in Int
  BY NormalFacts
<1>1. CASE by = "+"
  <2>1. Combination(by, x, y) = Sum(x, y) /\ Abstract!Combination(by, p, q) = p + q
    BY <1>1 DEF Combination, Abstract!Combination
  <2> QED
    BY <2>1, SumIsRight
<1>2. CASE by = "-"
  <2>1. Combination(by, x, y) = Sum(x, Negated(y)) /\ Abstract!Combination(by, p, q) = p - q
    BY <1>2 DEF Combination, Abstract!Combination
  <2>2. IsNormal(Negated(y)) /\ Held(Negated(y)) = -q
    BY NegationIsRight
  <2>3. Held(Sum(x, Negated(y))) = p + (-q)
    BY <2>2, SumIsRight
  <2> HIDE DEF p, q
  <2>4. p + (-q) = p - q
    BY <1>0
  <2> QED
    BY <2>1, <2>3, <2>4, Zenon DEF p, q
<1>3. CASE by = "*"
  <2>1. Combination(by, x, y) = Product(x, y) /\ Abstract!Combination(by, p, q) = p * q
    BY <1>3 DEF Combination, Abstract!Combination
  <2> QED
    BY <2>1, ProductIsRight
<1>4. CASE by = "/"
  <2>1. /\ Combination(by, x, y) = Divided(x, y).quotient
        /\ Abstract!Combination(by, p, q) = Abstract!FloorQuotient(p, q)
    BY <1>4 DEF Combination, Abstract!Combination
  <2> QED
    BY <1>4, <2>1, DividedIsRight
<1>5. CASE by = "%"
  <2>1. /\ Combination(by, x, y) = Divided(x, y).remainder
        /\ Abstract!Combination(by, p, q) = Abstract!FloorRemainder(p, q)
    BY <1>5 DEF Combination, Abstract!Combination
  <2> QED
    BY <1>5, <2>1, DividedIsRight
<1> QED
  BY <1>1, <1>2, <1>3, <1>4, <1>5

\* The operators of BigUnsigned, where they do not throw.
LEMMA MagnitudesCombine ==
  ASSUME NEW x \in Seq(Blocks), NEW y \in Seq(Blocks), Canonical(x), Canonical(y),
         NEW by \in {"+", "-", "*", "/", "%", "&", "|", "^"},
         by \in {"/", "%"} => y # <<>>, by = "-" => ~Negative(x, y)
  PROVE  Value(MagnitudeCombination(by, x, y)) = Abstract!Combination(by, Value(x), Value(y))
<1>1. CASE by = "+"
  <2>1. /\ MagnitudeCombination(by, x, y) = add(x, y)
        /\ Abstract!Combination(by, Value(x), Value(y)) = Value(x) + Value(y)
    BY <1>1 DEF MagnitudeCombination, Abstract!Combination
  <2> QED
    BY <2>1, AdditionIsRight
<1>2. CASE by = "-"
  <2>1. /\ MagnitudeCombination(by, x, y) = subtract(x, y)
        /\ Abstract!Combination(by, Value(x), Value(y)) = Value(x) - Value(y)
    BY <1>2 DEF MagnitudeCombination, Abstract!Combination
  <2> QED
    BY <1>2, <2>1, SubtractionIsRight
<1>3. CASE by = "*"
  <2>1. /\ MagnitudeCombination(by, x, y) = multiply(x, y)
        /\ Abstract!Combination(by, Value(x), Value(y)) = Value(x) * Value(y)
    BY <1>3 DEF MagnitudeCombination, Abstract!Combination
  <2> QED
    BY <2>1, MultiplicationIsRight
<1>4. CASE by = "/"
  <2>1. /\ MagnitudeCombination(by, x, y) = divideWithRemainder(x, y).quotient
        /\ Abstract!Combination(by, Value(x), Value(y)) = Abstract!FloorQuotient(Value(x), Value(y))
    BY <1>4 DEF MagnitudeCombination, Abstract!Combination
  <2> QED
    BY <1>4, <2>1, MagnitudesDivide
<1>5. CASE by = "%"
  <2>1. /\ MagnitudeCombination(by, x, y) = divideWithRemainder(x, y).remainder
        /\ Abstract!Combination(by, Value(x), Value(y)) = Abstract!FloorRemainder(Value(x), Value(y))
    BY <1>5 DEF MagnitudeCombination, Abstract!Combination
  <2> QED
    BY <1>5, <2>1, MagnitudesDivide
<1>6. CASE by = "&"
  <2>1. /\ MagnitudeCombination(by, x, y) = bitAnd(x, y)
        /\ Abstract!Combination(by, Value(x), Value(y)) = Abstract!Bitwise({2}, Value(x), Value(y))
    BY <1>6 DEF MagnitudeCombination, Abstract!Combination
  <2> QED
    BY <2>1, BitwiseIsRight
<1>7. CASE by = "|"
  <2>1. /\ MagnitudeCombination(by, x, y) = bitOr(x, y)
        /\ Abstract!Combination(by, Value(x), Value(y)) = Abstract!Bitwise({1, 2}, Value(x), Value(y))
    BY <1>7 DEF MagnitudeCombination, Abstract!Combination
  <2> QED
    BY <2>1, BitwiseIsRight
<1>8. CASE by = "^"
  <2>1. /\ MagnitudeCombination(by, x, y) = bitXor(x, y)
        /\ Abstract!Combination(by, Value(x), Value(y)) = Abstract!Bitwise({1}, Value(x), Value(y))
    BY <1>8 DEF MagnitudeCombination, Abstract!Combination
  <2> QED
    BY <2>1, BitwiseIsRight
<1> QED
  BY <1>1, <1>2, <1>3, <1>4, <1>5, <1>6, <1>7, <1>8

\* The magnitude of a normal number is that of the integer.
LEMMA HeldMagnitude ==
  ASSUME NEW x, IsNormal(x)
  PROVE  Abstract!Magnitude(Held(x)) = Value(x.mag)
<1> DEFINE p == Held(x)
           v == Value(x.mag)
<1>1. /\ x.sign \in {-1, 0, 1} /\ v \in Nat
      /\ x.sign = 0 <=> v = 0
      /\ x.sign = -1 => p = -v
      /\ x.sign = 0 => p = 0
      /\ x.sign = 1 => p = v
      /\ p \in Int
  BY NormalFacts
<1> HIDE DEF p, v
<1>2. Abstract!Magnitude(p) = v
  BY <1>1 DEF Abstract!Magnitude
<1> QED
  BY <1>2 DEF p, v

\* A magnitude that has become a number.
LEMMA HeldInteger ==
  ASSUME NEW m \in Seq(Blocks), Canonical(m)
  PROVE  IsNormal(Integer(m, 1)) /\ Held(Integer(m, 1)) = Value(m)
<1> DEFINE v == Value(m)
<1>1. 1 \in {-1, 0, 1} /\ 1 # 0
  OBVIOUS
<1>2. IsNormal(Integer(m, 1)) /\ Held(Integer(m, 1)) = 1 * v
  BY <1>1, IntegerFacts
<1>3. v \in Nat
  BY ValueIsFrom
<1> HIDE DEF v
<1>4. 1 * v = v
  BY <1>3
<1> QED
  BY <1>2, <1>4, Zenon DEF v

\* The constructors from a primitive.
LEMMA PrimitiveIsRight ==
  ASSUME NEW w \in 1 .. N, NEW n \in -(2 ^ (w - 1)) .. 2 ^ w - 1
  PROVE  LET x == IF n < 2 ^ (w - 1)
                  THEN [sign |-> SignOf(n), mag |-> zapLeadingZeros(<<magOf(n, w)>>)]
                  ELSE Integer(<<n>>, 1)
         IN IsNormal(x) /\ Held(x) = n
<1> DEFINE p == 2 ^ (w - 1)
           q == 2 ^ w
           b == magOf(n, w)
           m == zapLeadingZeros(<<b>>)
           x == IF n < p THEN [sign |-> SignOf(n), mag |-> m] ELSE Integer(<<n>>, 1)
<1>1. p \in Nat \ {0} /\ q \in Nat /\ q <= Base /\ Base \in Nat
  BY WidthFacts
<1>2. n \in Int /\ n < q
  BY <1>1
<1>3. CASE n < p
  <2>1. b \in Blocks /\ (b = 0 <=> n = 0) /\ b = Abstract!Magnitude(n)
    BY PrimitiveFacts
  <2> HIDE DEF b
  <2>2. m \in Seq(Blocks) /\ Canonical(m) /\ Value(m) = b
    <3>1. <<b>> \in Seq(Blocks) /\ Value(<<b>>) = b
      BY <2>1, ValueOfBlock
    <3> QED
      BY <3>1, ZapFacts
  <2> HIDE DEF m
  <2>3. m = <<>> <=> n = 0
    BY <2>1, <2>2, ZeroHasNoBlock
  <2> DEFINE s == SignOf(n)
  <2>4. s \in {-1, 0, 1} /\ (s = 0 <=> n = 0)
    BY <1>2 DEF SignOf, Order
  <2>5. s * b = n
    <3>1. CASE n < 0
      <4>1. s = -1 /\ b = -n
        BY <1>2, <2>1, <3>1 DEF SignOf, Order, Abstract!Magnitude
      <4> HIDE DEF s
      <4> QED
        BY <1>2, <4>1
    <3>2. CASE n = 0
      <4>1. s = 0 /\ b = 0
        BY <2>1, <2>4, <3>2
      <4> HIDE DEF s
      <4> QED
        BY <3>2, <4>1
    <3>3. CASE n > 0
      <4>1. s = 1 /\ b = n
        BY <1>2, <2>1, <3>3 DEF SignOf, Order, Abstract!Magnitude
      <4> HIDE DEF s
      <4> QED
        BY <1>2, <4>1
    <3> QED
      BY <1>2, <3>1, <3>2, <3>3
  <2> HIDE DEF s
  <2>6. x = Integer(m, s)
    BY <1>3, <2>3, <2>4 DEF Integer, s
  <2>7. s = 0 => m = <<>>
    BY <2>3, <2>4
  <2>8. IsNormal(Integer(m, s)) /\ Held(Integer(m, s)) = s * Value(m)
    BY <2>2, <2>4, <2>7, IntegerFacts
  <2> QED
    BY <2>2, <2>5, <2>6, <2>8, Zenon DEF m, b
<1>4. CASE ~(n < p)
  <2> HIDE DEF p, q
  <2>1. n \in Blocks /\ n # 0
    BY <1>1, <1>2, <1>4 DEF Blocks
  <2>2. <<n>> \in Seq(Blocks) /\ Canonical(<<n>>) /\ Value(<<n>>) = n
    BY <2>1, OneBlock, ValueOfBlock
  <2>3. IsNormal(Integer(<<n>>, 1)) /\ Held(Integer(<<n>>, 1)) = Value(<<n>>)
    BY <2>2, HeldInteger
  <2>4. x = Integer(<<n>>, 1)
    BY <1>4, Zenon
  <2> QED
    BY <2>2, <2>3, <2>4, Zenon DEF p
<1> QED
  BY <1>3, <1>4

\* Data in blocks, or in pieces of blocks.
LEMMA DataIsRight ==
  ASSUME NEW digits, NEW r,
         IF r = Base THEN digits \in Seq(Blocks)
         ELSE digits \in Seq(0 .. 2 ^ PieceBits - 1) /\ r = 2 ^ PieceBits
  PROVE  LET m == zapLeadingZeros(IF r = Base THEN digits ELSE Packed(digits))
         IN m \in Seq(Blocks) /\ Canonical(m) /\ Value(m) = Abstract!NumberOf(digits, r)
<1> DEFINE d == IF r = Base THEN digits ELSE Packed(digits)
           m == zapLeadingZeros(d)
<1>1. d \in Seq(Blocks) /\ NumberFrom(d, Base, 0) = NumberFrom(digits, r, 0) /\ Len(digits) \in Nat
  <2>1. CASE r = Base
    <3>1. d = digits /\ digits \in Seq(Blocks)
      BY <2>1
    <3> QED
      BY <2>1, <3>1, BlocksType
  <2>2. CASE r # Base
    <3>1. d = Packed(digits) /\ digits \in Seq(0 .. 2 ^ PieceBits - 1) /\ r = 2 ^ PieceBits
      BY <2>2
    <3>2. digits \in Seq(Nat)
      BY <3>1, PackedFacts
    <3>3. Len(digits) \in Nat
      BY <3>2
    <3>4. /\ Packed(digits) \in Seq(Blocks)
          /\ NumberFrom(Packed(digits), Base, 0) = NumberFrom(digits, 2 ^ PieceBits, 0)
      BY <3>1, PackedFacts
    <3> QED
      BY <3>1, <3>3, <3>4, Zenon
  <2> QED
    BY <2>1, <2>2
<1>2. Abstract!NumberOf(digits, r) = NumberFrom(digits, r, 0)
  BY <1>1, NumberOfDigits
<1> HIDE DEF d
<1>3. Value(d) = NumberFrom(d, Base, 0)
  BY <1>1, ValueIsFrom, NumberOfBlocks, 0 \in Nat
<1>4. m \in Seq(Blocks) /\ Canonical(m) /\ Value(m) = Value(d)
  BY <1>1, ZapFacts
<1> QED
  BY <1>1, <1>2, <1>3, <1>4, Zenon DEF d

-----------------------------------------------------------------------------
(* Every call does what the abstract one does                                *)

\* A number is zero where the integer is.
LEMMA HeldZero ==
  ASSUME NEW x, IsNormal(x)
  PROVE  (Held(x) = 0 <=> x.sign = 0) /\ (Held(x) = 0 <=> x.mag = <<>>)
<1> DEFINE p == Held(x)
           v == Value(x.mag)
           e == x.mag = <<>>
<1>1. /\ x.sign \in {-1, 0, 1} /\ v \in Nat
      /\ x.sign = 0 <=> v = 0
      /\ x.sign = -1 => p = -v
      /\ x.sign = 0 => p = 0
      /\ x.sign = 1 => p = v
      /\ p \in Int
      /\ x.sign = 0 <=> x.mag = <<>>
  BY NormalFacts
<1> HIDE DEF p, v
<1>2. p = 0 <=> x.sign = 0
  BY <1>1
<1> QED
  BY <1>1, <1>2 DEF p

\* A call that returns a number that stands for the abstract result.
LEMMA ReturnServes ==
  ASSUME IInv, call.z \in Objects, call.op \notin {"returned", "thrown", "divide", "move"},
         NEW x, Returns(x), ~Abstract!Refused, Abstract!Result = Held(x)
  PROVE  Abstract!Serve
<1>1. call \notin {Abstract!Returned, Abstract!Thrown}
  BY DEF Abstract!Returned, Abstract!Thrown
<1>2. Abstract!Assigned = [[z \in Objects |-> Held(reg[z])] EXCEPT ![call.z] = Abstract!Result]
  BY DEF Abstract!Assigned
<1>3. call' = Abstract!Returned
  BY DEF Returns, Returned, Abstract!Returned
<1>4. [z \in Objects |-> Held(reg'[z])]
        = [[z \in Objects |-> Held(reg[z])] EXCEPT ![call.z] = Abstract!Result]
  <2>1. \A z \in Objects : reg'[z] = IF z = call.z THEN x ELSE reg[z]
    BY DEF Returns, IInv
  <2> QED
    BY <2>1
<1> QED
  BY <1>1, <1>2, <1>3, <1>4 DEF Abstract!Serve

\* A call that throws where the abstract one does.
LEMMA ThrowServes ==
  ASSUME call.op \notin {"returned", "thrown"}, Throws, Abstract!Refused
  PROVE  Abstract!Serve
<1>1. call \notin {Abstract!Returned, Abstract!Thrown}
  BY DEF Abstract!Returned, Abstract!Thrown
<1>2. call' = Abstract!Thrown /\ reg' = reg
  BY DEF Throws, Thrown, Abstract!Thrown
<1> QED
  BY <1>1, <1>2 DEF Abstract!Serve

\* The operators throw for a divisor of zero only.
LEMMA CombineServes ==
  ASSUME IInv, Combine
  PROVE  Abstract!Serve
<1> DEFINE x == reg[call.a]
           y == reg[call.b]
<1>1. call.op = "combine"
  BY DEF Combine
<1>2. OfTwoCall(call) /\ call.by \in {"+", "-", "*", "/", "%"}
  BY <1>1, CallIsKnown, CallFacts
<1>3. IsNormal(x) /\ IsNormal(y) /\ call.z \in Objects /\ call.a \in Objects /\ call.b \in Objects
  BY <1>2, Operand DEF OfTwoCall
<1>4. Abstract!Refused <=> call.by \in {"/", "%"} /\ Held(y) = 0
  BY <1>1, <1>3 DEF Abstract!Refused
<1>5. Abstract!Result = Abstract!Combination(call.by, Held(x), Held(y))
  BY <1>1, <1>3 DEF Abstract!Result
<1>6. Held(y) = 0 <=> y.sign = 0
  BY <1>3, HeldZero
<1>7. CASE call.by \in {"/", "%"} /\ y.sign = 0
  <2>1. Throws /\ Abstract!Refused
    BY <1>4, <1>6, <1>7 DEF Combine
  <2> QED
    BY <1>1, <2>1, ThrowServes
<1>8. CASE ~(call.by \in {"/", "%"} /\ y.sign = 0)
  <2>1. Returns(Combination(call.by, x, y)) /\ ~Abstract!Refused
    BY <1>4, <1>6, <1>8 DEF Combine
  <2>2. Held(Combination(call.by, x, y)) = Abstract!Combination(call.by, Held(x), Held(y))
    <3> HIDE DEF x, y
    <3> QED
      BY <1>2, <1>3, <1>8, CombinationIsRight
  <2> QED
    BY <1>1, <1>3, <1>5, <2>1, <2>2, ReturnServes
<1> QED
  BY <1>7, <1>8

\* Dividing assigns two objects, in this order.
LEMMA DivideIntoServes ==
  ASSUME IInv, DivideInto
  PROVE  Abstract!Serve
<1> DEFINE x == reg[call.a]
           y == reg[call.b]
           d == Divided(x, y)
           held == [z \in Objects |-> Held(reg[z])]
<1>1. call.op = "divide"
  BY DEF DivideInto
<1>2. OfTwoCall(call)
  BY <1>1, CallIsKnown, CallFacts
<1>3. IsNormal(x) /\ IsNormal(y) /\ call.z \in Objects /\ call.a \in Objects /\ call.b \in Objects
  BY <1>2, Operand DEF OfTwoCall
<1>4. Abstract!Refused <=> call.z = call.a
  BY <1>1 DEF Abstract!Refused
<1>5. CASE call.z = call.a
  <2>1. Throws
    BY <1>5 DEF DivideInto
  <2> QED
    BY <1>1, <1>4, <1>5, <2>1, ThrowServes
<1>6. CASE call.z # call.a
  <2>1. call' = Returned /\ reg' = [reg EXCEPT ![call.z] = d.quotient, ![call.a] = d.remainder]
    BY <1>6 DEF DivideInto
  <2>2. \A z \in Objects : reg'[z] = IF z = call.a THEN d.remainder
                                     ELSE IF z = call.z THEN d.quotient ELSE reg[z]
    BY <1>3, <2>1 DEF IInv
  <2> DEFINE h == IF Held(y) = 0 THEN 0 ELSE Abstract!FloorQuotient(Held(x), Held(y))
             r == IF Held(y) = 0 THEN Held(x) ELSE Abstract!FloorRemainder(Held(x), Held(y))
  <2>3. Held(d.quotient) = h /\ Held(d.remainder) = r
    <3> HIDE DEF x, y
    <3>1. Held(y) = 0 <=> y.sign = 0
      BY <1>3, HeldZero
    <3>2. CASE y.sign = 0
      <4>1. d = [quotient |-> Zero, remainder |-> x]
        BY <3>2 DEF Divided
      <4> QED
        BY <3>1, <3>2, <4>1, ZeroFacts
    <3>3. CASE y.sign # 0
      BY <1>3, <3>1, <3>3, DividedIsRight, Zenon
    <3> QED
      BY <3>2, <3>3
  <2>4. Abstract!Result = Abstract!FloorQuotient(Held(x), Held(y))
    BY <1>1, <1>3 DEF Abstract!Result
  <2>5. Abstract!Assigned
          = [held EXCEPT ![call.z] = IF held[call.b] = 0 THEN 0 ELSE Abstract!Result,
                         ![call.a] = IF held[call.b] = 0 THEN @
                                     ELSE Abstract!FloorRemainder(@, held[call.b])]
    BY <1>1 DEF Abstract!Assigned
  <2>6. held[call.a] = Held(x) /\ held[call.b] = Held(y)
    BY <1>3
  <2>7. [z \in Objects |-> Held(reg'[z])] = [held EXCEPT ![call.z] = h, ![call.a] = r]
    <3> HIDE DEF h, r, d, x, y
    <3> QED
      BY <1>3, <1>6, <2>2, <2>3
  <2>8. Abstract!Assigned = [held EXCEPT ![call.z] = h, ![call.a] = r]
    <3>1. DOMAIN held = Objects /\ [held EXCEPT ![call.z] = h][call.a] = held[call.a]
      BY <1>3, <1>6
    <3> HIDE DEF held, x, y
    <3> QED
      BY <1>3, <1>6, <2>4, <2>5, <2>6, <3>1
  <2>9. call' = Abstract!Returned /\ call \notin {Abstract!Returned, Abstract!Thrown}
    BY <1>1, <2>1 DEF Returned, Abstract!Returned, Abstract!Thrown
  <2> HIDE DEF h, r
  <2> QED
    BY <1>4, <1>6, <2>7, <2>8, <2>9 DEF Abstract!Serve
<1> QED
  BY <1>5, <1>6

\* negate() changes the sign.
LEMMA NegateServes ==
  ASSUME IInv, Negate
  PROVE  Abstract!Serve
<1>1. call.op = "negate" /\ Returns(Negated(reg[call.a]))
  BY DEF Negate
<1>2. OfOneCall(call)
  BY <1>1, CallIsKnown, CallFacts
<1>3. call.z \in Objects /\ call.a \in Objects /\ IsNormal(reg[call.a])
  BY <1>2, Operand DEF OfOneCall
<1>4. ~Abstract!Refused
  BY <1>1 DEF Abstract!Refused
<1>5. Abstract!Result = -Held(reg[call.a])
  BY <1>1, <1>3 DEF Abstract!Result
<1> QED
  BY <1>1, <1>3, <1>4, <1>5, NegationIsRight, ReturnServes

\* The operators ++ and -- count.
LEMMA StepServes ==
  ASSUME IInv, Step
  PROVE  Abstract!Serve
<1>1. call.op = "step" /\ Returns(Stepped(reg[call.z], call.n))
  BY DEF Step
<1>2. call.z \in Objects /\ call.n \in {-1, 1}
  BY <1>1, CallIsKnown, CallFacts
<1>3. IsNormal(reg[call.z])
  BY <1>2, Operand
<1>4. ~Abstract!Refused
  BY <1>1 DEF Abstract!Refused
<1>5. Abstract!Result = Held(reg[call.z]) + call.n
  BY <1>1, <1>2 DEF Abstract!Result
<1> QED
  BY <1>1, <1>2, <1>3, <1>4, <1>5, StepIsRight, ReturnServes

\* A copy is equal.
LEMMA CopyServes ==
  ASSUME IInv, Copy
  PROVE  Abstract!Serve
<1>1. call.op = "copy" /\ Returns(reg[call.a])
  BY DEF Copy
<1>2. OfOneCall(call)
  BY <1>1, CallIsKnown, CallFacts
<1>3. call.z \in Objects /\ call.a \in Objects
  BY <1>2 DEF OfOneCall
<1>4. ~Abstract!Refused
  BY <1>1 DEF Abstract!Refused
<1>5. Abstract!Result = Held(reg[call.a])
  BY <1>1, <1>3 DEF Abstract!Result
<1> QED
  BY <1>1, <1>3, <1>4, <1>5, ReturnServes

\* A number that is moved to another object leaves zero behind.
LEMMA MoveServes ==
  ASSUME IInv, Move
  PROVE  Abstract!Serve
<1> DEFINE held == [z \in Objects |-> Held(reg[z])]
<1>1. call.op = "move"
  BY DEF Move
<1>2. OfOneCall(call) /\ call.z # call.a
  BY <1>1, CallIsKnown, CallFacts DEF IInv, CallIsMade
<1>3. call.z \in Objects /\ call.a \in Objects
  BY <1>2 DEF OfOneCall
<1>4. call' = Returned /\ reg' = [reg EXCEPT ![call.z] = reg[call.a], ![call.a] = Zero]
  BY <1>2 DEF Move, Zero
<1>5. \A z \in Objects : reg'[z] = IF z = call.a THEN Zero
                                   ELSE IF z = call.z THEN reg[call.a] ELSE reg[z]
  BY <1>3, <1>4 DEF IInv
<1>6. ~Abstract!Refused
  BY <1>1 DEF Abstract!Refused
<1>7. Abstract!Result = Held(reg[call.a])
  BY <1>1, <1>3 DEF Abstract!Result
<1>8. Abstract!Assigned = [held EXCEPT ![call.z] = Abstract!Result, ![call.a] = 0]
  BY <1>1 DEF Abstract!Assigned
<1>9. [z \in Objects |-> Held(reg'[z])] = [held EXCEPT ![call.z] = Held(reg[call.a]), ![call.a] = 0]
  BY <1>3, <1>5, ZeroFacts
<1>10. call' = Abstract!Returned /\ call \notin {Abstract!Returned, Abstract!Thrown}
  BY <1>1, <1>4 DEF Returned, Abstract!Returned, Abstract!Thrown
<1> QED
  BY <1>6, <1>7, <1>8, <1>9, <1>10 DEF Abstract!Serve

\* The operators of BigUnsigned throw for a divisor of zero, and where a
\* difference is negative.
LEMMA CombineMagnitudesServes ==
  ASSUME IInv, CombineMagnitudes
  PROVE  Abstract!Serve
<1> DEFINE p == Held(reg[call.a])
           q == Held(reg[call.b])
           x == reg[call.a].mag
           y == reg[call.b].mag
           m == MagnitudeCombination(call.by, x, y)
           bad == \/ call.by \in {"/", "%"} /\ y = <<>>
                  \/ call.by = "-" /\ Negative(x, y)
<1>1. call.op = "magnitude"
  BY DEF CombineMagnitudes
<1>2. OfTwoCall(call) /\ call.by \in {"+", "-", "*", "/", "%", "&", "|", "^"}
  BY <1>1, CallIsKnown, CallFacts
<1>3. /\ call.z \in Objects /\ call.a \in Objects /\ call.b \in Objects
      /\ IsNormal(reg[call.a]) /\ IsNormal(reg[call.b])
      /\ x \in Seq(Blocks) /\ y \in Seq(Blocks) /\ Canonical(x) /\ Canonical(y)
  BY <1>2, Operand DEF OfTwoCall
<1>4. Abstract!Magnitude(p) = Value(x) /\ Abstract!Magnitude(q) = Value(y) /\ (q = 0 <=> y = <<>>)
  BY <1>3, HeldMagnitude, HeldZero
<1>5. Negative(x, y) <=> Value(x) < Value(y)
  BY <1>3, SubtractionIsRight
<1>6. Abstract!Refused <=> \/ call.by \in {"/", "%"} /\ q = 0
                           \/ call.by = "-" /\ Abstract!Magnitude(p) < Abstract!Magnitude(q)
  BY <1>1, <1>3 DEF Abstract!Refused
<1>7. Abstract!Result = Abstract!Combination(call.by, Abstract!Magnitude(p), Abstract!Magnitude(q))
  BY <1>1, <1>3 DEF Abstract!Result
<1>8. Abstract!Refused <=> bad
  BY <1>4, <1>5, <1>6
<1>9. CASE bad
  <2>1. Throws
    BY <1>9 DEF CombineMagnitudes
  <2> QED
    BY <1>1, <1>8, <1>9, <2>1, ThrowServes
<1>10. CASE ~bad
  <2>1. Returns(Integer(m, 1))
    BY <1>10 DEF CombineMagnitudes
  <2>2. m \in Seq(Blocks) /\ Canonical(m)
        /\ Value(m) = Abstract!Combination(call.by, Value(x), Value(y))
    <3>1. (call.by \in {"/", "%"} => y # <<>>) /\ (call.by = "-" => ~Negative(x, y))
      BY <1>10
    <3> HIDE DEF x, y, bad
    <3>2. m \in Seq(Blocks) /\ Canonical(m)
      BY <1>2, <1>3, <3>1, MagnitudesStayCanonical
    <3>3. Value(m) = Abstract!Combination(call.by, Value(x), Value(y))
      BY <1>2, <1>3, <3>1, MagnitudesCombine
    <3> QED
      BY <3>2, <3>3
  <2> HIDE DEF m
  <2>3. Held(Integer(m, 1)) = Abstract!Result
    BY <1>4, <1>7, <2>2, HeldInteger
  <2> QED
    BY <1>1, <1>3, <1>8, <1>10, <2>1, <2>3, ReturnServes
<1> QED
  BY <1>9, <1>10

\* A difference that is put in an object may leave zero there when it throws.
LEMMA SubtractHereServes ==
  ASSUME IInv, SubtractHere
  PROVE  Abstract!Serve
<1> DEFINE p == Held(reg[call.a])
           q == Held(reg[call.b])
           x == reg[call.a].mag
           y == reg[call.b].mag
           m == MagnitudeCombination("-", x, y)
           held == [z \in Objects |-> Held(reg[z])]
<1>1. call.op = "subtract" /\ m = subtract(x, y)
  BY DEF SubtractHere, MagnitudeCombination
<1>2. OfTwoCall(call)
  BY <1>1, CallIsKnown, CallFacts
<1>3. /\ call.z \in Objects /\ call.a \in Objects /\ call.b \in Objects
      /\ IsNormal(reg[call.a]) /\ IsNormal(reg[call.b])
      /\ x \in Seq(Blocks) /\ y \in Seq(Blocks) /\ Canonical(x) /\ Canonical(y)
  BY <1>2, Operand DEF OfTwoCall
<1>4. Abstract!Magnitude(p) = Value(x) /\ Abstract!Magnitude(q) = Value(y)
  BY <1>3, HeldMagnitude
<1>5. Negative(x, y) <=> Value(x) < Value(y)
  BY <1>3, SubtractionIsRight
<1>6. Abstract!Refused <=> Abstract!Magnitude(p) < Abstract!Magnitude(q)
  BY <1>1, <1>3 DEF Abstract!Refused
<1>7. Abstract!Result = Abstract!Magnitude(p) - Abstract!Magnitude(q)
  BY <1>1, <1>3 DEF Abstract!Result
<1>8. CASE Negative(x, y)
  <2>1. Abstract!Refused
    BY <1>4, <1>5, <1>6, <1>8
  <2>2. CASE call.z \notin {call.a, call.b} /\ Len(x) >= Len(y)
    <3>1. call' = Thrown /\ reg' = [reg EXCEPT ![call.z] = Zero]
      BY <1>8, <2>2 DEF SubtractHere
    <3>2. \A z \in Objects : reg'[z] = IF z = call.z THEN Zero ELSE reg[z]
      BY <3>1 DEF IInv
    <3>3. [z \in Objects |-> Held(reg'[z])] = [held EXCEPT ![call.z] = 0]
      BY <3>2, ZeroFacts
    <3>4. Abstract!Spoiled
      BY <1>1, <2>2, <3>3 DEF Abstract!Spoiled
    <3>5. call' = Abstract!Thrown /\ call \notin {Abstract!Returned, Abstract!Thrown}
      BY <1>1, <3>1 DEF Thrown, Abstract!Returned, Abstract!Thrown
    <3> QED
      BY <2>1, <3>4, <3>5 DEF Abstract!Serve
  <2>3. CASE ~(call.z \notin {call.a, call.b} /\ Len(x) >= Len(y))
    <3>1. call' = Thrown /\ reg' = reg
      BY <1>3, <1>8, <2>3 DEF SubtractHere, IInv
    <3> QED
      BY <1>1, <2>1, <3>1, ThrowServes DEF Throws
  <2> QED
    BY <2>2, <2>3
<1>9. CASE ~Negative(x, y)
  <2>1. Returns(Integer(m, 1))
    BY <1>1, <1>9 DEF SubtractHere
  <2>2. m \in Seq(Blocks) /\ Canonical(m)
        /\ Value(m) = Abstract!Combination("-", Value(x), Value(y))
    <3> HIDE DEF x, y
    <3> QED
      BY <1>3, <1>9, MagnitudesStayCanonical, MagnitudesCombine
  <2>3. Abstract!Combination("-", Value(x), Value(y)) = Value(x) - Value(y)
    BY DEF Abstract!Combination
  <2> HIDE DEF m
  <2>4. Held(Integer(m, 1)) = Abstract!Result
    BY <1>4, <1>7, <2>2, <2>3, HeldInteger
  <2>5. ~Abstract!Refused
    BY <1>4, <1>5, <1>6, <1>9
  <2> QED
    BY <1>1, <1>3, <2>1, <2>4, <2>5, ReturnServes
<1> QED
  BY <1>8, <1>9

\* The operator ++ of BigUnsigned.
LEMMA IncreaseServes ==
  ASSUME IInv, IncreaseMagnitude
  PROVE  Abstract!Serve
<1> DEFINE x == reg[call.a].mag
           m == increment(x)
<1>1. call.op = "increase" /\ Returns(Integer(m, 1))
  BY DEF IncreaseMagnitude
<1>2. OfOneCall(call)
  BY <1>1, CallIsKnown, CallFacts
<1>3. /\ call.z \in Objects /\ call.a \in Objects /\ IsNormal(reg[call.a])
      /\ x \in Seq(Blocks) /\ Canonical(x)
  BY <1>2, Operand DEF OfOneCall
<1>4. m \in Seq(Blocks) /\ Canonical(m) /\ Value(m) = Value(x) + 1
  BY <1>3, IncrementIsRight
<1>5. ~Abstract!Refused
  BY <1>1 DEF Abstract!Refused
<1>6. Abstract!Result = Abstract!Magnitude(Held(reg[call.a])) + 1
  BY <1>1, <1>3 DEF Abstract!Result
<1>7. Abstract!Magnitude(Held(reg[call.a])) = Value(x)
  BY <1>3, HeldMagnitude
<1> HIDE DEF m
<1>8. Held(Integer(m, 1)) = Abstract!Result
  BY <1>4, <1>6, <1>7, HeldInteger
<1> QED
  BY <1>1, <1>3, <1>5, <1>8, ReturnServes

\* The operator -- of BigUnsigned throws for zero.
LEMMA DecreaseServes ==
  ASSUME IInv, DecreaseMagnitude
  PROVE  Abstract!Serve
<1> DEFINE x == reg[call.a].mag
           m == decrement(x)
<1>1. call.op = "decrease"
  BY DEF DecreaseMagnitude
<1>2. OfOneCall(call)
  BY <1>1, CallIsKnown, CallFacts
<1>3. /\ call.z \in Objects /\ call.a \in Objects /\ IsNormal(reg[call.a])
      /\ x \in Seq(Blocks) /\ Canonical(x)
  BY <1>2, Operand DEF OfOneCall
<1>4. Abstract!Refused <=> Held(reg[call.a]) = 0
  BY <1>1, <1>3 DEF Abstract!Refused
<1>5. Abstract!Refused <=> x = <<>>
  BY <1>3, <1>4, HeldZero
<1>6. CASE x = <<>>
  <2>1. Throws
    BY <1>6 DEF DecreaseMagnitude
  <2> QED
    BY <1>1, <1>5, <1>6, <2>1, ThrowServes
<1>7. CASE x # <<>>
  <2>1. Returns(Integer(m, 1))
    BY <1>7 DEF DecreaseMagnitude
  <2>2. m \in Seq(Blocks) /\ Canonical(m) /\ Value(m) = Value(x) - 1
    BY <1>3, <1>7, DecrementIsRight
  <2>3. Abstract!Result = Abstract!Magnitude(Held(reg[call.a])) - 1
    BY <1>1, <1>3 DEF Abstract!Result
  <2>4. Abstract!Magnitude(Held(reg[call.a])) = Value(x)
    BY <1>3, HeldMagnitude
  <2> HIDE DEF m
  <2>5. Held(Integer(m, 1)) = Abstract!Result
    BY <2>2, <2>3, <2>4, HeldInteger
  <2> QED
    BY <1>1, <1>3, <1>5, <1>7, <2>1, <2>5, ReturnServes
<1> QED
  BY <1>6, <1>7

\* A shift is of a number that is not zero.
LEMMA ShiftServes ==
  ASSUME IInv, ShiftMagnitude
  PROVE  Abstract!Serve
<1> DEFINE x == reg[call.a].mag
           m == IF call.left THEN bitShiftLeft(x, call.n) ELSE bitShiftRight(x, call.n)
           v == Abstract!Magnitude(Held(reg[call.a]))
<1>1. call.op = "shift" /\ Returns(Integer(m, 1))
  BY DEF ShiftMagnitude
<1>2. OfOneCall(call) /\ call.n \in Int
  BY <1>1, CallIsKnown, CallFacts
<1>3. /\ call.z \in Objects /\ call.a \in Objects /\ IsNormal(reg[call.a])
      /\ x \in Seq(Blocks) /\ Canonical(x)
  BY <1>2, Operand DEF OfOneCall
<1>4. x # <<>>
  BY <1>1 DEF IInv, CallIsMade
<1>5. ~Abstract!Refused
  BY <1>1 DEF Abstract!Refused
<1>6. Abstract!Result = Abstract!Shift(v, IF call.left THEN call.n ELSE -call.n)
  BY <1>1, <1>3 DEF Abstract!Result
<1>7. v = Value(x)
  BY <1>3, HeldMagnitude
<1>8. /\ m \in Seq(Blocks) /\ Canonical(m)
      /\ Value(m) = Abstract!Shift(Value(x), IF call.left THEN call.n ELSE -call.n)
  <2> HIDE DEF x
  <2>1. CASE call.left
    BY <1>2, <1>3, <1>4, <2>1, ShiftIsCanonical, ShiftIsRight, Zenon
  <2>2. CASE ~call.left
    BY <1>2, <1>3, <1>4, <2>2, ShiftIsCanonical, ShiftIsRight, Zenon
  <2> QED
    BY <2>1, <2>2
<1> HIDE DEF m, v
<1>9. Held(Integer(m, 1)) = Abstract!Result
  BY <1>6, <1>7, <1>8, HeldInteger, Zenon
<1> QED
  BY <1>1, <1>3, <1>5, <1>9, ReturnServes

\* setBit() and setBlock() replace a digit of the magnitude.
LEMMA SetServes ==
  ASSUME IInv, SetInMagnitude
  PROVE  Abstract!Serve
<1> DEFINE x == reg[call.a].mag
           m == IF call.radix = 2 THEN setBit(x, call.i, call.n) ELSE setBlock(x, call.i, call.n)
           v == Abstract!Magnitude(Held(reg[call.a]))
<1>1. call.op = "set" /\ Returns(Integer(m, 1))
  BY DEF SetInMagnitude
<1>2. /\ OfOneCall(call) /\ call.i \in Nat /\ call.n \in Blocks
      /\ (call.radix = 2 => call.n \in {0, 1}) /\ (call.radix # 2 => call.radix = Base)
  BY <1>1, CallIsKnown, CallFacts
<1>3. /\ call.z \in Objects /\ call.a \in Objects /\ IsNormal(reg[call.a])
      /\ x \in Seq(Blocks) /\ Canonical(x)
  BY <1>2, Operand DEF OfOneCall
<1>4. ~Abstract!Refused
  BY <1>1 DEF Abstract!Refused
<1>5. Abstract!Result = Abstract!WithDigit(v, call.i, call.n, call.radix)
  BY <1>1, <1>3 DEF Abstract!Result
<1>6. v = Value(x)
  BY <1>3, HeldMagnitude
<1>7. /\ m \in Seq(Blocks) /\ Canonical(m)
      /\ Value(m) = Abstract!WithDigit(Value(x), call.i, call.n, call.radix)
  <2> HIDE DEF x
  <2>1. CASE call.radix = 2
    BY <1>2, <1>3, <2>1, SettingBit, SettingIsRight, Zenon
  <2>2. CASE call.radix # 2
    BY <1>2, <1>3, <2>2, SetBlockFacts, SettingIsRight, Zenon
  <2> QED
    BY <2>1, <2>2
<1> HIDE DEF m, v
<1>8. Held(Integer(m, 1)) = Abstract!Result
  BY <1>5, <1>6, <1>7, HeldInteger, Zenon
<1> QED
  BY <1>1, <1>3, <1>4, <1>8, ReturnServes

\* Every primitive is taken as it is, the least of a signed type included.
LEMMA PrimitiveServes ==
  ASSUME IInv, FromPrimitive
  PROVE  Abstract!Serve
<1> DEFINE n == call.n
           w == call.width
           x == IF n < 2 ^ (w - 1)
                THEN [sign |-> SignOf(n), mag |-> zapLeadingZeros(<<magOf(n, w)>>)]
                ELSE Integer(<<n>>, 1)
<1>1. call.op = "primitive" /\ Returns(x)
  BY DEF FromPrimitive
<1>2. call.z \in Objects /\ w \in 1 .. N /\ n \in -(2 ^ (w - 1)) .. 2 ^ w - 1
  BY <1>1, CallIsKnown, CallFacts
<1>3. Held(x) = n
  <2> HIDE DEF n, w
  <2> QED
    BY <1>2, PrimitiveIsRight
<1>4. ~Abstract!Refused
  BY <1>1 DEF Abstract!Refused
<1>5. Abstract!Result = n
  BY <1>1 DEF Abstract!Result
<1> HIDE DEF x
<1> QED
  BY <1>1, <1>2, <1>3, <1>4, <1>5, ReturnServes

\* Data without a sign are taken if they are zero only.
LEMMA DataServes ==
  ASSUME IInv, FromData
  PROVE  Abstract!Serve
<1> DEFINE m == zapLeadingZeros(IF call.radix = Base THEN call.digits ELSE Packed(call.digits))
           v == Abstract!NumberOf(call.digits, call.radix)
<1>1. call.op = "data"
  BY DEF FromData
<1>2. /\ call.z \in Objects /\ call.sign \in SignValues
      /\ IF call.radix = Base THEN call.digits \in Seq(Blocks)
         ELSE call.digits \in Seq(0 .. 2 ^ PieceBits - 1) /\ call.radix = 2 ^ PieceBits
  BY <1>1, CallIsKnown, CallFacts
<1>3. m \in Seq(Blocks) /\ Canonical(m) /\ Value(m) = v
  BY <1>2, DataIsRight
<1>4. Abstract!Refused <=> call.sign = 0 /\ v # 0
  BY <1>1 DEF Abstract!Refused
<1>5. Abstract!Result = call.sign * v
  BY <1>1 DEF Abstract!Result
<1>6. IF call.sign = 0 /\ m # <<>> THEN Throws ELSE Returns(Integer(m, call.sign))
  BY DEF FromData
<1> HIDE DEF m, v
<1>7. m = <<>> <=> v = 0
  BY <1>3, ZeroHasNoBlock
<1>8. CASE call.sign = 0 /\ m # <<>>
  BY <1>1, <1>4, <1>6, <1>7, <1>8, ThrowServes
<1>9. CASE ~(call.sign = 0 /\ m # <<>>)
  <2>1. call.sign \in {-1, 0, 1} /\ (call.sign = 0 => m = <<>>)
    BY <1>2, <1>9 DEF SignValues
  <2>2. Held(Integer(m, call.sign)) = call.sign * Value(m)
    BY <1>3, <2>1, IntegerFacts
  <2>3. Held(Integer(m, call.sign)) = Abstract!Result
    BY <1>3, <1>5, <2>2, Zenon
  <2>4. Returns(Integer(m, call.sign)) /\ ~Abstract!Refused
    BY <1>4, <1>6, <1>7, <1>9
  <2> QED
    BY <1>1, <1>2, <2>3, <2>4, ReturnServes
<1> QED
  BY <1>8, <1>9

\* A text is read as its digits say, and throws for one that is no digit.
LEMMA ParseServes ==
  ASSUME IInv, Parse
  PROVE  Abstract!Serve
<1> DEFINE m == MagnitudeOf(call.digits, Radix)
           v == Abstract!NumberOf(Reverse(call.digits), Radix)
<1>1. call.op = "text"
  BY DEF Parse
<1>2. /\ call.z \in Objects /\ call.sign \in {-1, 1} /\ call.digits \in Seq(Nat)
      /\ call.radix = Radix
  BY <1>1, CallIsKnown, CallFacts
<1>3. Abstract!Refused <=> BadDigits(call.digits, Radix)
  BY <1>1, <1>2 DEF Abstract!Refused, BadDigits
<1>4. Abstract!Result = call.sign * v
  <2>1. Abstract!Result = call.sign * Abstract!NumberOf(Abstract!Reverse(call.digits), call.radix)
    BY <1>1 DEF Abstract!Result
  <2>2. Abstract!Reverse(call.digits) = Reverse(call.digits)
    BY Zenon DEF Abstract!Reverse, Reverse
  <2> QED
    BY <1>2, <2>1, <2>2, Zenon
<1>5. CASE BadDigits(call.digits, Radix)
  <2>1. Throws
    BY <1>5 DEF Parse
  <2> QED
    BY <1>1, <1>3, <1>5, <2>1, ThrowServes
<1>6. CASE ~BadDigits(call.digits, Radix)
  <2>1. Returns(Integer(m, call.sign))
    BY <1>6 DEF Parse
  <2>2. m \in Seq(Blocks) /\ Canonical(m) /\ Value(m) = v
    BY <1>2, <1>6, MagnitudeIsCanonical, TextValue
  <2> HIDE DEF m, v
  <2>3. call.sign \in {-1, 0, 1} /\ (call.sign = 0 => m = <<>>)
    BY <1>2
  <2>4. Held(Integer(m, call.sign)) = call.sign * Value(m)
    BY <2>2, <2>3, IntegerFacts
  <2>5. Held(Integer(m, call.sign)) = Abstract!Result
    BY <1>4, <2>2, <2>4, Zenon
  <2> QED
    BY <1>1, <1>2, <1>3, <1>6, <2>1, <2>5, ReturnServes
<1> QED
  BY <1>5, <1>6

-----------------------------------------------------------------------------
(* The refinement                                                            *)

\* The objects are zero at first.
LEMMA InitMaps ==
  ASSUME Init
  PROVE  Abstract!Init
<1>1. \A z \in Objects : reg[z] = Zero
  BY DEF Init
<1>2. call = Abstract!Returned
  BY DEF Init, Returned, Abstract!Returned
<1>3. \A z \in Objects : Held(reg[z]) = 0
  BY <1>1, ZeroFacts, Zenon
<1> QED
  BY <1>2, <1>3 DEF Abstract!Init

\* A request changes no object, and every other step serves the call.
LEMMA StepMaps ==
  ASSUME IInv, [Next]_vars
  PROVE  [Abstract!Next]_<<[z \in Objects |-> Held(reg[z])], call>>
<1>1. CASE UNCHANGED vars
  BY <1>1 DEF vars
<1>2. CASE Request
  <2>1. call \in {Returned, Thrown} /\ call' \in Calls /\ reg' = reg
    BY <1>2 DEF Request, Idle
  <2>2. call'.op \notin {"returned", "thrown"}
    BY <2>1, CallFacts
  <2>3. call' \notin {Returned, Thrown}
    BY <2>2 DEF Returned, Thrown
  <2>4. Abstract!Request
    BY <2>1, <2>3 DEF Abstract!Request, Abstract!Returned, Abstract!Thrown, Returned, Thrown
  <2> QED
    BY <2>4 DEF Abstract!Next
<1>3. CASE ~UNCHANGED vars /\ ~Request
  <2>1. Abstract!Serve
    BY <1>3, CombineServes, DivideIntoServes, NegateServes, StepServes, CopyServes, MoveServes,
       CombineMagnitudesServes, SubtractHereServes, IncreaseServes, DecreaseServes, ShiftServes,
       SetServes, PrimitiveServes, DataServes, ParseServes DEF Next
  <2> QED
    BY <2>1 DEF Abstract!Next
<1> QED
  BY <1>1, <1>2, <1>3

\* BigInteger implements arithmetic on integers without a limit, for objects,
\* numbers and blocks of every size: every call assigns what the abstract one
\* does and throws just where that is refused, unless a program shifts zero to
\* the left or moves a number to itself.
THEOREM ArithmeticIsOfIntegers ==
  ASSUME "shift_zero" \notin Misuses, "self_move" \notin Misuses
  PROVE  Spec => ImplementsIntegers
<1>1. Init => IInv
  BY InitIInv
<1>2. IInv /\ [Next]_vars => IInv'
  BY StepIInv
<1>3. Init => Abstract!Init
  BY InitMaps
<1>4. IInv /\ [Next]_vars => [Abstract!Next]_<<[z \in Objects |-> Held(reg[z])], call>>
  BY StepMaps
<1> QED
  BY <1>1, <1>2, <1>3, <1>4, PTL DEF Spec, ImplementsIntegers, Abstract!Spec
=============================================================================
