---------------------- MODULE BigUnsignedProductProofs ----------------------
(***************************************************************************)
(* Proofs about multiply(), divideWithRemainder() and the shifts of          *)
(* BigUnsigned, for numbers and blocks of every size: bit by bit through a   *)
(* block, block by block through a number, each operation computes what it   *)
(* is named for and leaves no zero block on top.                             *)
(***************************************************************************)
EXTENDS BigUnsignedProofs

\* A block is split by any bit into two powers of two.
LEMMA Powers ==
  ASSUME NEW s \in 0 .. N
  PROVE  2 ^ s \in Nat \ {0} /\ 2 ^ (N - s) \in Nat \ {0} /\ 2 ^ s * 2 ^ (N - s) = Base
<1> DEFINE S == {i \in 0 .. N : 2 ^ (N - i) * 2 ^ i = 2 ^ N}
<1>1. N \in Nat /\ 2 ^ 0 = 1 /\ 2 ^ N \in Nat \ {0}
  BY BlockAssumption, PowerAssumption
<1>2. ASSUME NEW i \in 0 .. N PROVE 2 ^ i \in Nat \ {0}
  <2>1. i = N \/ i \in 0 .. N - 1
    BY <1>1
  <2> QED
    BY <1>1, <2>1, PowerAssumption
<1>3. N \in S
  <2>1. N - N = 0
    BY <1>1
  <2>2. 2 ^ (N - N) * 2 ^ N = 2 ^ N
    BY <1>1, <2>1
  <2> QED
    BY <1>1, <2>2
<1>4. ASSUME NEW i \in 0 .. N - 1, i + 1 \in S PROVE i \in S
  <2> DEFINE j == N - (i + 1)
  <2>1. j \in 0 .. N - 1 /\ N - i = j + 1 /\ i \in 0 .. N /\ j \in 0 .. N
    BY <1>1
  <2>2. 2 ^ (i + 1) = 2 * 2 ^ i /\ 2 ^ (j + 1) = 2 * 2 ^ j
    BY <2>1, PowerAssumption
  <2>3. 2 ^ j * 2 ^ (i + 1) = 2 ^ N
    BY <1>4
  <2>4. 2 ^ j \in Nat /\ 2 ^ i \in Nat
    BY <1>2, <2>1
  <2>5. \A a \in Nat, b \in Nat : a * (2 * b) = (2 * a) * b
    BY Z3
  <2>6. 2 ^ (N - i) * 2 ^ i = 2 ^ N
    BY <2>1, <2>2, <2>3, <2>4, <2>5
  <2> QED
    BY <2>1, <2>6
<1>5. \A i \in 0 .. N : i \in S
  <2> HIDE DEF S
  <2>1. S \in SUBSET (0 .. N)
    BY DEF S
  <2> QED
    BY <1>1, <1>3, <1>4, <2>1, InductDown
<1>6. N - s \in 0 .. N
  BY <1>1
<1>7. 2 ^ (N - s) * 2 ^ s = 2 ^ N
  BY <1>5
<1>8. \A a \in Nat, b \in Nat : a * b = b * a
  OBVIOUS
<1>9. 2 ^ (N - s) \in Nat \ {0} /\ 2 ^ s \in Nat \ {0}
  BY <1>2, <1>6
<1> QED
  BY <1>7, <1>8, <1>9 DEF Base

\* The same blocks, further up.
LEMMA ShiftedBlocks ==
  ASSUME NEW x \in Seq(Blocks), NEW z \in Seq(Blocks), NEW d \in Nat,
         \A k \in Nat \ {0} : Block(x, d + k) = Block(z, k),
         NEW j \in Nat
  PROVE  From(x, d + j) = From(z, j)
<1>1. Len(x) \in Nat /\ Len(z) \in Nat
  OBVIOUS
<1> PICK n \in Nat : n >= Len(x) /\ n >= Len(z) /\ n >= j
  BY <1>1, Len(x) + Len(z) + j \in Nat
<1> DEFINE S == {k \in 0 .. n : From(x, d + k) = From(z, k)}
<1>2. n \in S
  <2>1. n \in Nat /\ d + n \in Nat /\ d + n >= Len(x)
    BY <1>1
  <2>2. From(x, d + n) = 0 /\ From(z, n) = 0
    BY <2>1, FromFacts
  <2> QED
    BY <2>2
<1>3. ASSUME NEW k \in 0 .. n - 1, k + 1 \in S PROVE k \in S
  <2>1. k \in Nat /\ d + k \in Nat /\ k + 1 \in Nat \ {0} /\ (d + k) + 1 = d + (k + 1) /\ k \in 0 .. n
    OBVIOUS
  <2>5. From(x, d + k) = Block(x, (d + k) + 1) + Base * From(x, (d + k) + 1)
    BY <2>1, FromFacts
  <2>2. /\ From(x, d + k) = Block(x, d + (k + 1)) + Base * From(x, d + (k + 1))
        /\ From(z, k) = Block(z, k + 1) + Base * From(z, k + 1)
    BY <2>1, <2>5, FromFacts
  <2>3. From(x, d + (k + 1)) = From(z, k + 1)
    BY <1>3
  <2>4. Block(x, d + (k + 1)) = Block(z, k + 1)
    BY <2>1
  <2> QED
    BY <2>1, <2>2, <2>3, <2>4
<1>4. \A k \in 0 .. n : k \in S
  <2> HIDE DEF S
  <2>1. S \in SUBSET (0 .. n)
    BY DEF S
  <2> QED
    BY <1>2, <1>3, <2>1, InductDown
<1> QED
  BY <1>4

-----------------------------------------------------------------------------
(* Weights of blocks                                                         *)

\* What a one in block k, counted from 0, stands for.
Weight(k) == Value(Zeros(k) \o <<1>>)

\* The blocks of Zeros(k) \o <<1>>.
LEMMA UnitBlocks ==
  ASSUME NEW k \in Nat
  PROVE  /\ Zeros(k) \o <<1>> \in Seq(Blocks)
         /\ Len(Zeros(k) \o <<1>>) = k + 1
         /\ \A i \in Nat : Block(Zeros(k) \o <<1>>, i) = IF i = k + 1 THEN 1 ELSE 0
<1> DEFINE z == Zeros(k)
           u == <<1>>
           x == z \o u
<1>1. 0 \in Blocks /\ 1 \in Blocks
  BY BaseType DEF Blocks
<1>2. z \in Seq(Blocks) /\ Len(z) = k /\ \A i \in 1 .. k : z[i] = 0
  <2>1. z \in [1 .. k -> Blocks]
    BY <1>1 DEF Zeros
  <2>2. z \in Seq(Blocks)
    BY <2>1, SeqDef
  <2>3. \A i \in 1 .. k : z[i] = 0
    BY DEF Zeros
  <2> HIDE DEF z
  <2> QED
    BY <2>1, <2>2, <2>3
<1>3. u \in Seq(Blocks) /\ Len(u) = 1 /\ u[1] = 1
  BY <1>1
<1> HIDE DEF z, u
<1>4. /\ x \in Seq(Blocks) /\ Len(x) = k + 1
      /\ \A i \in 1 .. k + 1 : x[i] = IF i <= k THEN z[i] ELSE u[i - k]
  BY <1>2, <1>3, ConcatProperties
<1> HIDE DEF x
<1>5. DOMAIN x = 1 .. k + 1
  BY <1>4
<1>6. ASSUME NEW i \in Nat PROVE Block(x, i) = IF i = k + 1 THEN 1 ELSE 0
  <2>1. CASE i \notin 1 .. k + 1
    BY <1>5, <2>1 DEF Block
  <2>2. CASE i = k + 1
    <3>1. i - k = 1 /\ ~(i <= k) /\ i \in 1 .. k + 1
      BY <2>2
    <3> QED
      BY <1>3, <1>4, <1>5, <2>2, <3>1 DEF Block
  <2>3. CASE i \in 1 .. k
    <3>1. i <= k /\ i \in 1 .. k + 1 /\ i # k + 1
      BY <2>3
    <3> QED
      BY <1>2, <1>4, <1>5, <2>3, <3>1 DEF Block
  <2> QED
    BY <2>1, <2>2, <2>3
<1> QED
  BY <1>4, <1>6 DEF x, z, u

\* Each block weighs Base times the one before.
LEMMA Weights ==
  /\ Weight(0) = 1
  /\ \A k \in Nat : Weight(k) \in Nat \ {0} /\ Weight(k + 1) = Base * Weight(k)
<1>1. Weight(0) = 1
  <2> DEFINE x == Zeros(0) \o <<1>>
  <2>1. x \in Seq(Blocks) /\ Len(x) = 1 /\ Block(x, 1) = 1
    BY UnitBlocks, 0 \in Nat, 1 \in Nat, 0 + 1 = 1
  <2> HIDE DEF x
  <2>2. From(x, 0) = Block(x, 0 + 1) + Base * From(x, 0 + 1) /\ From(x, 1) = 0
    BY <2>1, FromFacts, 0 \in Nat, 1 \in Nat, 1 >= 1
  <2>3. From(x, 0) = 1
    BY <2>1, <2>2, BaseType
  <2> QED
    BY <2>1, <2>3, ValueIsFrom DEF x, Weight
<1>2. ASSUME NEW k \in Nat PROVE Weight(k) \in Nat /\ Weight(k + 1) = Base * Weight(k)
  <2> DEFINE x == Zeros(k + 1) \o <<1>>
             z == Zeros(k) \o <<1>>
  <2>1. /\ x \in Seq(Blocks) /\ \A i \in Nat : Block(x, i) = IF i = k + 2 THEN 1 ELSE 0
        /\ z \in Seq(Blocks) /\ \A i \in Nat : Block(z, i) = IF i = k + 1 THEN 1 ELSE 0
    <3>1. k + 1 \in Nat /\ (k + 1) + 1 = k + 2
      OBVIOUS
    <3> QED
      BY <3>1, UnitBlocks
  <2>2. Weight(k + 1) = Value(x) /\ Weight(k) = Value(z)
    BY DEF Weight
  <2> HIDE DEF x, z
  <2>3. \A i \in Nat \ {0} : Block(x, 1 + i) = Block(z, i)
    BY <2>1
  <2>4. From(x, 1 + 0) = From(z, 0)
    <3>1. x \in Seq(Blocks) /\ z \in Seq(Blocks) /\ 0 \in Nat /\ 1 \in Nat
      BY <2>1
    <3> QED
      BY <2>3, <3>1, ShiftedBlocks
  <2>5. From(x, 0) = Block(x, 0 + 1) + Base * From(x, 0 + 1) /\ From(x, 1) \in Nat
    BY <2>1, FromFacts, 0 \in Nat, 1 \in Nat
  <2>6. Block(x, 0 + 1) = 0
    BY <2>1
  <2>7. From(x, 0) = Base * From(z, 0)
    BY <2>4, <2>5, <2>6, BaseType
  <2> QED
    BY <2>1, <2>2, <2>7, ValueIsFrom
<1> DEFINE S == {k \in Nat : Weight(k) # 0}
<1>3. 0 \in S
  BY <1>1
<1>4. ASSUME NEW k \in S PROVE k + 1 \in S
  <2>1. k \in Nat /\ Weight(k) \in Nat \ {0} /\ Weight(k + 1) = Base * Weight(k)
    BY <1>2
  <2>2. \A a \in Nat \ {0}, b \in Nat \ {0} : a * b # 0
    BY Z3
  <2> QED
    BY <2>1, <2>2, BaseType
<1>5. S = Nat
  <2> HIDE DEF S
  <2>1. S \in SUBSET Nat
    BY DEF S
  <2> QED
    BY <1>3, <1>4, <2>1, Induct
<1> QED
  BY <1>1, <1>2, <1>5

\* The weight of a block above another.
LEMMA WeightOfSum ==
  ASSUME NEW i \in Nat, NEW j \in Nat
  PROVE  Weight(i + j) = Weight(i) * Weight(j)
<1> DEFINE S == {k \in Nat : Weight(i + k) = Weight(i) * Weight(k)}
<1>1. 0 \in S
  <2>1. i + 0 = i /\ Weight(i) \in Nat /\ Weight(0) = 1
    BY Weights
  <2> QED
    BY <2>1
<1>2. ASSUME NEW k \in S PROVE k + 1 \in S
  <2>1. k \in Nat /\ i + k \in Nat /\ i + (k + 1) = (i + k) + 1
    OBVIOUS
  <2>2. /\ Weight((i + k) + 1) = Base * Weight(i + k) /\ Weight(k + 1) = Base * Weight(k)
        /\ Weight(i) \in Nat /\ Weight(k) \in Nat
    BY <2>1, Weights
  <2>3. \A a \in Nat, b \in Nat, c \in Nat : a * (b * c) = b * (a * c)
    BY Z3
  <2>4. Weight(i + k) = Weight(i) * Weight(k)
    OBVIOUS
  <2>5. Weight(i + (k + 1)) = Weight(i) * Weight(k + 1)
    BY <2>1, <2>2, <2>3, <2>4, BaseType
  <2> QED
    BY <2>1, <2>5
<1>3. S = Nat
  <2> HIDE DEF S
  <2>1. S \in SUBSET Nat
    BY DEF S
  <2> QED
    BY <1>1, <1>2, <2>1, Induct
<1> QED
  BY <1>3

\* A number is its first blocks, and the rest at the weight where they end.
LEMMA SplitValue ==
  ASSUME NEW z \in Seq(Blocks), NEW a \in Seq(Blocks), NEW i \in Nat, Len(a) <= i,
         \A k \in 1 .. i : Block(z, k) = Block(a, k)
  PROVE  Value(z) = Value(a) + Weight(i) * From(z, i)
<1> DEFINE t == From(z, i)
           S == {k \in 0 .. i : From(z, k) = From(a, k) + Weight(i - k) * t}
<1>1. t \in Nat /\ From(a, i) = 0
  BY FromFacts
<1> HIDE DEF t
<1>2. i \in S
  <2>1. i - i = 0 /\ Weight(0) = 1
    BY Weights
  <2>2. From(z, i) = From(a, i) + 1 * t
    BY <1>1 DEF t
  <2> QED
    BY <2>1, <2>2
<1>3. ASSUME NEW k \in 0 .. i - 1, k + 1 \in S PROVE k \in S
  <2> DEFINE j == i - (k + 1)
             w == Weight(j)
             b == Block(a, k + 1)
             q == From(z, k + 1)
             f == From(a, k + 1)
  <2>1. k \in Nat /\ k + 1 \in 1 .. i /\ k \in 0 .. i /\ j \in Nat /\ i - k = j + 1
    OBVIOUS
  <2>2. From(z, k) = b + Base * q /\ From(a, k) = b + Base * f
    BY <2>1, FromFacts
  <2>3. q = f + w * t
    BY <1>3
  <2>4. b \in Nat /\ f \in Nat /\ w \in Nat /\ Weight(j + 1) = Base * w
    <3>0. k + 1 \in Nat
      BY <2>1
    <3>1. b \in Blocks /\ f \in Nat
      BY <3>0, BlocksType, FromFacts
    <3>2. w \in Nat /\ Weight(j + 1) = Base * w
      BY <2>1, Weights
    <3> HIDE DEF b, f, w, j
    <3> QED
      BY <3>1, <3>2, BaseType DEF Blocks
  <2> HIDE DEF w, b, q, f, j
  <2>5. \A c \in Nat, v \in Nat, u \in Nat, e \in Nat : c * (v + u * e) = c * v + (c * u) * e
    BY Z3
  <2>6. Base * q = Base * f + (Base * w) * t
    BY <1>1, <2>3, <2>4, <2>5, BaseType
  <2>7. From(z, k) = From(a, k) + Weight(i - k) * t
    <3> DEFINE m == Base * f
               n == (Base * w) * t
    <3>1. m \in Nat /\ n \in Nat
      BY <1>1, <2>4, BaseType, Z3
    <3>2. From(z, k) = b + (m + n) /\ From(a, k) = b + m /\ Weight(i - k) * t = n
      BY <2>1, <2>2, <2>4, <2>6
    <3> HIDE DEF m, n
    <3> QED
      BY <2>4, <3>1, <3>2
  <2> QED
    BY <2>1, <2>7
<1>4. \A k \in 0 .. i : k \in S
  <2> HIDE DEF S
  <2>1. S \in SUBSET (0 .. i)
    BY DEF S
  <2> QED
    BY <1>2, <1>3, <2>1, InductDown
<1>5. From(z, 0) = From(a, 0) + Weight(i - 0) * t
  BY <1>4
<1> QED
  BY <1>5, ValueIsFrom DEF t

\* A number weighs less than the block after its last.
LEMMA BelowWeight ==
  ASSUME NEW a \in Seq(Blocks), NEW i \in Nat, Len(a) <= i
  PROVE  Value(a) < Weight(i)
<1> DEFINE S == {k \in 0 .. i : From(a, k) < Weight(i - k)}
<1>1. i \in S
  <2>1. i - i = 0 /\ Weight(0) = 1 /\ From(a, i) = 0
    BY Weights, FromFacts
  <2> QED
    BY <2>1
<1>2. ASSUME NEW k \in 0 .. i - 1, k + 1 \in S PROVE k \in S
  <2> DEFINE j == i - (k + 1)
             w == Weight(j)
             b == Block(a, k + 1)
             f == From(a, k + 1)
  <2>1. k \in Nat /\ k + 1 \in 1 .. i /\ k \in 0 .. i /\ j \in Nat /\ i - k = j + 1
    OBVIOUS
  <2>2. From(a, k) = b + Base * f
    BY <2>1, FromFacts
  <2>3. f < w
    BY <1>2
  <2>4. b \in 0 .. Base - 1 /\ f \in Nat /\ w \in Nat /\ Weight(j + 1) = Base * w
    <3>0. k + 1 \in Nat
      BY <2>1
    <3>1. b \in Blocks /\ f \in Nat
      BY <3>0, BlocksType, FromFacts
    <3> QED
      BY <2>1, <3>1, Weights DEF Blocks
  <2> HIDE DEF w, b, f, j
  <2>5. \A c \in Nat, v \in Nat, u \in Nat : v < u => c * v + c <= c * u
    <3> SUFFICES ASSUME NEW c \in Nat, NEW v \in Nat, NEW u \in Nat, v < u
                 PROVE  c * v + c <= c * u
      OBVIOUS
    <3>1. PICK d \in Nat : u = v + 1 + d
      BY u - (v + 1) \in Nat
    <3>2. c * u = c * v + c + c * d
      BY <3>1, Z3
    <3>3. c * d \in Nat /\ c * v \in Nat
      BY Z3
    <3> QED
      BY <3>2, <3>3
  <2>6. Base * f + Base <= Base * w
    BY <2>3, <2>4, <2>5, BaseType
  <2>7. Base * f \in Nat /\ Base * w \in Nat
    BY <2>4, BaseType, Z3
  <2>8. b + Base * f < Base * w
    <3> DEFINE m == Base * f
               n == Base * w
    <3> HIDE DEF m, n
    <3>1. b + m < n
      BY <2>4, <2>6, <2>7, BaseType DEF m, n
    <3> QED
      BY <3>1 DEF m, n
  <2> QED
    BY <2>1, <2>2, <2>4, <2>8
<1>3. \A k \in 0 .. i : k \in S
  <2> HIDE DEF S
  <2>1. S \in SUBSET (0 .. i)
    BY DEF S
  <2> QED
    BY <1>1, <1>2, <2>1, InductDown
<1>4. From(a, 0) < Weight(i - 0)
  BY <1>3
<1> QED
  BY <1>4, ValueIsFrom

\* The blocks of two numbers, one after the other.
LEMMA ConcatValue ==
  ASSUME NEW a \in Seq(Blocks), NEW b \in Seq(Blocks)
  PROVE  /\ a \o b \in Seq(Blocks) /\ Len(a \o b) = Len(a) + Len(b)
         /\ Value(a \o b) = Value(a) + Weight(Len(a)) * Value(b)
<1> DEFINE z == a \o b
           i == Len(a)
<1>1. i \in Nat /\ Len(b) \in Nat
  OBVIOUS
<1>2. /\ z \in Seq(Blocks) /\ Len(z) = i + Len(b)
      /\ \A k \in 1 .. i + Len(b) : z[k] = IF k <= i THEN a[k] ELSE b[k - i]
  BY ConcatProperties
<1> HIDE DEF z
<1>3. DOMAIN z = 1 .. i + Len(b) /\ DOMAIN a = 1 .. i /\ DOMAIN b = 1 .. Len(b)
  BY <1>2
<1> HIDE DEF i
<1>4. ASSUME NEW k \in 1 .. i PROVE Block(z, k) = Block(a, k)
  <2>1. k \in 1 .. i + Len(b) /\ k <= i
    BY <1>1
  <2> QED
    BY <1>2, <1>3, <2>1 DEF Block
<1>5. ASSUME NEW k \in Nat \ {0} PROVE Block(z, i + k) = Block(b, k)
  <2>1. (i + k \in 1 .. i + Len(b) <=> k \in 1 .. Len(b)) /\ ~(i + k <= i) /\ (i + k) - i = k
    BY <1>1
  <2> QED
    BY <1>2, <1>3, <2>1 DEF Block
<1>6. From(z, i + 0) = From(b, 0)
  <2>1. z \in Seq(Blocks) /\ 0 \in Nat /\ i \in Nat
    BY <1>1, <1>2
  <2> QED
    BY <1>5, <2>1, ShiftedBlocks, Zenon
<1>7. Value(z) = Value(a) + Weight(i) * From(z, i)
  BY <1>1, <1>2, <1>4, SplitValue DEF i
<1>8. i + 0 = i
  BY <1>1
<1> QED
  BY <1>1, <1>2, <1>6, <1>7, <1>8, ValueIsFrom DEF i, z

\* A number, cut into two.
LEMMA CutValue ==
  ASSUME NEW z \in Seq(Blocks), NEW i \in 0 .. Len(z)
  PROVE  /\ SubSeq(z, 1, i) \in Seq(Blocks) /\ Len(SubSeq(z, 1, i)) = i
         /\ SubSeq(z, i + 1, Len(z)) \in Seq(Blocks)
         /\ Len(SubSeq(z, i + 1, Len(z))) = Len(z) - i
         /\ Value(z) = Value(SubSeq(z, 1, i)) + Weight(i) * Value(SubSeq(z, i + 1, Len(z)))
<1> DEFINE n == Len(z)
           a == SubSeq(z, 1, i)
           b == SubSeq(z, i + 1, n)
<1>1. n \in Nat /\ i \in Int /\ \A k \in 1 .. n : z[k] \in Blocks
  OBVIOUS
<1>2. a \in Seq(Blocks) /\ Len(a) = i
  <2>1. /\ SubSeq(z, 1, i) \in Seq(Blocks)
        /\ Len(SubSeq(z, 1, i)) = IF 1 <= i THEN i - 1 + 1 ELSE 0
    BY <1>1, SubSeqProperties
  <2> QED
    BY <2>1
<1>3. b \in Seq(Blocks) /\ Len(b) = n - i
  <2>1. i + 1 \in Int /\ \A k \in i + 1 .. n : z[k] \in Blocks
    BY <1>1
  <2>2. /\ b \in Seq(Blocks)
        /\ Len(b) = IF i + 1 <= n THEN n - (i + 1) + 1 ELSE 0
    BY <1>1, <2>1, SubSeqProperties
  <2> HIDE DEF b
  <2> QED
    BY <1>1, <2>2
<1>4. a \o b = z
  <2>1. 1 \in 1 .. n + 1 /\ i \in 1 - 1 .. n /\ n \in i .. n
    BY <1>1
  <2>2. a \o b = SubSeq(z, 1, n)
    BY <2>1, ConcatAdjacentSubSeq
  <2> QED
    BY <2>2, SubSeqFull
<1> HIDE DEF a, b
<1>5. Value(a \o b) = Value(a) + Weight(Len(a)) * Value(b)
  BY <1>2, <1>3, ConcatValue
<1> QED
  BY <1>2, <1>3, <1>4, <1>5 DEF a, b

\* Products of naturals.
LEMMA Products ==
  /\ \A a \in Nat, b \in Nat : a * b \in Nat /\ a * b = b * a
  /\ \A a \in Nat, b \in Nat, c \in Nat : (a * b) * c = a * (b * c)
  /\ \A a \in Nat, b \in Nat, c \in Nat : a * (b + c) = a * b + a * c
  /\ \A a \in Nat, b \in Nat, c \in Nat : b < c => a * b + a <= a * c
  /\ \A a \in Nat, b \in Nat, c \in Nat : b <= c => a * b <= a * c
<1>1. \A a \in Nat, b \in Nat : a * b \in Nat /\ a * b = b * a
  BY Z3
<1>2. \A a \in Nat, b \in Nat, c \in Nat : (a * b) * c = a * (b * c)
  BY Z3
<1>3. \A a \in Nat, b \in Nat, c \in Nat : a * (b + c) = a * b + a * c
  BY Z3
<1>4. ASSUME NEW a \in Nat, NEW b \in Nat, NEW c \in Nat, b <= c
      PROVE  a * b <= a * c
  <2>1. PICK d \in Nat : c = b + d
    BY <1>4, c - b \in Nat
  <2>2. a * c = a * b + a * d
    BY <1>3, <2>1
  <2>3. a * b \in Nat /\ a * d \in Nat
    BY <1>1
  <2> DEFINE m == a * b
             n == a * d
  <2> HIDE DEF m, n
  <2>4. m <= m + n
    BY <2>3 DEF m, n
  <2> QED
    BY <2>2, <2>4 DEF m, n
<1>5. ASSUME NEW a \in Nat, NEW b \in Nat, NEW c \in Nat, b < c
      PROVE  a * b + a <= a * c
  <2>1. b + 1 \in Nat /\ b + 1 <= c
    BY <1>5
  <2>2. a * (b + 1) <= a * c
    BY <1>4, <2>1
  <2>3. a * (b + 1) = a * b + a * 1 /\ a * 1 = a
    BY <1>3
  <2> QED
    BY <2>2, <2>3
<1> QED
  BY <1>1, <1>2, <1>3, <1>4, <1>5

\* A number, split by a divisor.
LEMMA Division ==
  \A a \in Int, q \in Int : q > 0 => a = q * (a \div q) + (a % q)
  OBVIOUS

\* A natural, split by a divisor.
LEMMA Quotients ==
  ASSUME NEW a \in Nat, NEW q \in Nat \ {0}
  PROVE  a \div q \in Nat /\ a % q \in Nat /\ a % q < q /\ a = q * (a \div q) + (a % q)
<1>1. a % q \in Nat /\ a % q < q
  OBVIOUS
<1>2. a = q * (a \div q) + (a % q)
  <2>1. a \in Int /\ q \in Int /\ q > 0
    OBVIOUS
  <2> QED
    BY <2>1, Division, Zenon
<1>3. a \div q \in Nat
  OBVIOUS
<1> QED
  BY <1>1, <1>2, <1>3

\* And the other way round.
LEMMA QuotientIs ==
  ASSUME NEW a \in Nat, NEW q \in Nat \ {0}, NEW h \in Nat, NEW r \in Nat,
         r < q, a = q * h + r
  PROVE  a \div q = h /\ a % q = r
<1> DEFINE k == a \div q
           m == a % q
<1>1. k \in Nat /\ m \in Nat /\ m < q /\ a = q * k + m
  BY Quotients
<1> HIDE DEF k, m
<1>2. q * h \in Nat /\ q * k \in Nat
  BY <1>1, Products
<1>3. ~(h < k)
  <2> SUFFICES ASSUME h < k PROVE FALSE
    OBVIOUS
  <2>1. q * h + q <= q * k
    BY <1>1, Products
  <2> DEFINE x == q * h
             y == q * k
  <2> HIDE DEF x, y
  <2>2. x \in Nat /\ y \in Nat /\ x + q <= y /\ x + r = y + m
    BY <1>1, <1>2, <2>1 DEF x, y
  <2> QED
    BY <1>1, <2>2
<1>4. ~(k < h)
  <2> SUFFICES ASSUME k < h PROVE FALSE
    OBVIOUS
  <2>1. q * k + q <= q * h
    BY <1>1, Products
  <2> DEFINE x == q * h
             y == q * k
  <2> HIDE DEF x, y
  <2>2. x \in Nat /\ y \in Nat /\ y + q <= x /\ x + r = y + m
    BY <1>1, <1>2, <2>1 DEF x, y
  <2> QED
    BY <1>1, <2>2
<1>5. k = h
  BY <1>1, <1>3, <1>4
<1>6. m = r
  <2> DEFINE x == q * h
  <2> HIDE DEF x
  <2>1. x \in Nat /\ x + r = x + m
    BY <1>1, <1>2, <1>5 DEF x
  <2> QED
    BY <1>1, <2>1
<1> QED
  BY <1>5, <1>6 DEF k, m

-----------------------------------------------------------------------------
(* A number, shifted left by less than a block                               *)

\* The bits that leave a block, and those that stay.
Leaving(b, s) == IF s = 0 THEN 0 ELSE b \div 2 ^ (N - s)
Staying(b, s) == Wrapped(b * 2 ^ s)

\* The bits of a block that a shift pushes out and those it keeps make up the
\* shifted block.
LEMMA BlockShifted ==
  ASSUME NEW b \in Blocks, NEW s \in 0 .. N - 1
  PROVE  /\ Leaving(b, s) \in Nat /\ Leaving(b, s) < 2 ^ s
         /\ Staying(b, s) \in Nat /\ Staying(b, s) + 2 ^ s <= Base
         /\ Staying(b, s) + Base * Leaving(b, s) = 2 ^ s * b
<1> DEFINE p == 2 ^ s
           q == 2 ^ (N - s)
           h == b \div q
           r == b % q
<1>1. /\ p \in Nat \ {0} /\ q \in Nat \ {0} /\ p * q = Base
  <2>1. s \in 0 .. N
    BY BlockAssumption
  <2> QED
    BY <2>1, Powers
<1>2. b \in Nat /\ b < Base /\ Base \in Nat \ {0}
  BY BaseType DEF Blocks
<1> HIDE DEF p, q
<1>3. h \in Nat /\ r \in Nat /\ r < q /\ b = q * h + r
  BY <1>1, <1>2, Quotients
<1> HIDE DEF h, r
<1>4. h < p
  <2> SUFFICES ASSUME p <= h PROVE FALSE
    BY <1>1, <1>3
  <2>1. q * p <= q * h /\ q * p = Base /\ q * h \in Nat
    BY <1>1, <1>3, Products
  <2> DEFINE x == q * h
  <2> HIDE DEF x
  <2>2. x \in Nat /\ Base <= x /\ b = x + r
    BY <1>3, <2>1 DEF x
  <2> QED
    BY <1>2, <1>3, <2>2
<1>5. p * b = Base * h + p * r
  <2>1. p * b = p * (q * h) + p * r
    BY <1>1, <1>3, Products
  <2>2. p * (q * h) = (p * q) * h
    BY <1>1, <1>3, Products
  <2> QED
    BY <1>1, <2>1, <2>2
<1>6. p * r \in Nat /\ p * r + p <= Base
  BY <1>1, <1>3, Products
<1>7. (p * b) % Base = p * r
  <2> DEFINE x == p * r
             y == p * b
  <2>1. y \in Nat /\ x \in Nat /\ x < Base /\ y = Base * h + x
    <3>1. p * b \in Nat
      BY <1>1, <1>2, Products
    <3>2. x < Base
      <4> HIDE DEF x
      <4>1. x \in Nat /\ x + p <= Base
        BY <1>6 DEF x
      <4> QED
        BY <1>1, <1>2, <4>1
    <3> QED
      BY <1>5, <1>6, <3>1, <3>2
  <2> HIDE DEF x, y
  <2>2. y % Base = x
    BY <1>2, <1>3, <2>1, QuotientIs
  <2> QED
    BY <2>2 DEF x, y
<1>8. Staying(b, s) = p * r
  <2>1. b * p = p * b
    BY <1>1, <1>2, Products
  <2> QED
    BY <1>7, <2>1 DEF Staying, Wrapped, p
<1>9. Leaving(b, s) = h
  <2>1. CASE s = 0
    <3>1. p = 1
      BY <2>1, PowerAssumption DEF p
    <3> QED
      BY <1>3, <1>4, <2>1, <3>1 DEF Leaving
  <2>2. CASE s # 0
    BY <2>2 DEF Leaving, h, q
  <2> QED
    BY <2>1, <2>2
<1>10. Base * h \in Nat
  BY <1>2, <1>3, Products
<1>11. p * r + Base * h = p * b
  BY <1>5, <1>6, <1>10
<1> QED
  BY <1>3, <1>4, <1>6, <1>8, <1>9, <1>11 DEF p

\* The blocks of getShiftedBlock() are those of the number times a power of two.
LEMMA ShiftRight ==
  ASSUME NEW x \in Seq(Blocks), NEW s \in 0 .. N - 1
  PROVE  /\ Shifted(x, s) \in Seq(Blocks) /\ Len(Shifted(x, s)) = Len(x) + 1
         /\ Value(Shifted(x, s)) = 2 ^ s * Value(x)
<1> DEFINE n == Len(x)
           p == 2 ^ s
           hi(k) == IF k = 0 THEN 0 ELSE Leaving(Block(x, k), s)
           lo(k) == IF k = n THEN 0 ELSE Staying(Block(x, k + 1), s)
           z == Shifted(x, s)
<1>1. n \in Nat /\ p \in Nat \ {0} /\ Base \in Nat
  <2>1. s \in 0 .. N
    BY BlockAssumption
  <2> QED
    BY <2>1, Powers, BaseType
<1>2. \A k \in Nat : Block(x, k) \in Blocks
  BY BlocksType
<1>3. ASSUME NEW k \in 0 .. n
      PROVE  /\ hi(k) \in Nat /\ hi(k) < p
             /\ lo(k) \in Nat /\ lo(k) + p <= Base
             /\ k # n => lo(k) + Base * hi(k + 1) = p * Block(x, k + 1)
  <2>1. k \in Nat /\ k + 1 \in Nat /\ k + 1 # 0
    OBVIOUS
  <2> DEFINE b == Block(x, k)
             d == Block(x, k + 1)
  <2>a. b \in Blocks /\ d \in Blocks
    BY <1>2, <2>1
  <2> HIDE DEF b, d
  <2>b. Leaving(b, s) \in Nat /\ Leaving(b, s) < p
    BY <2>a, BlockShifted
  <2>c. /\ Staying(d, s) \in Nat /\ Staying(d, s) + p <= Base
        /\ Staying(d, s) + Base * Leaving(d, s) = p * d
    BY <2>a, BlockShifted
  <2> HIDE DEF p
  <2>2. hi(k) \in Nat /\ hi(k) < p
    BY <1>1, <2>b DEF b
  <2>3. p <= Base
    BY <1>1, <2>c
  <2>4. lo(k) \in Nat /\ lo(k) + p <= Base
    BY <1>1, <2>c, <2>3 DEF d
  <2>5. k # n => lo(k) + Base * hi(k + 1) = p * Block(x, k + 1)
    BY <2>1, <2>c DEF d
  <2> QED
    BY <2>2, <2>4, <2>5
<1>4. ASSUME NEW k \in 0 .. n PROVE getShiftedBlock(x, k, s) = hi(k) + lo(k)
  <2>1. k # 0 => Block(x, k) = x[k]
    BY BlocksType
  <2>2. k # n => Block(x, k + 1) = x[k + 1]
    <3>1. k # n => k + 1 \in 1 .. Len(x)
      BY <1>1
    <3> QED
      BY <3>1, BlocksType
  <2> QED
    BY <2>1, <2>2 DEF getShiftedBlock, Leaving, Staying
<1> HIDE DEF hi, lo, p
<1>5. ASSUME NEW k \in 0 .. n PROVE hi(k) + lo(k) \in Blocks
  BY <1>1, <1>3 DEF Blocks
<1>6. z = [j \in 1 .. n + 1 |-> getShiftedBlock(x, j - 1, s)]
  BY DEF Shifted
<1>7. \A j \in 1 .. n + 1 : j - 1 \in 0 .. n
  BY <1>1
<1>8. z \in [1 .. n + 1 -> Blocks]
  BY <1>4, <1>5, <1>6, <1>7
<1>9. z \in Seq(Blocks) /\ Len(z) = n + 1
  <2>1. n + 1 \in Nat
    BY <1>1
  <2>2. z \in Seq(Blocks)
    BY <1>8, <2>1, SeqDef
  <2> QED
    BY <1>8, <2>1, <2>2
<1>10. ASSUME NEW k \in 0 .. n PROVE Block(z, k + 1) = hi(k) + lo(k)
  <2>1. k + 1 \in 1 .. n + 1 /\ (k + 1) - 1 = k
    BY <1>1
  <2>2. z[k + 1] = getShiftedBlock(x, k, s)
    BY <1>6, <2>1
  <2>3. Block(z, k + 1) = z[k + 1]
    <3> HIDE DEF z
    <3> QED
      BY <1>9, <2>1, BlocksType
  <2> QED
    BY <1>4, <2>2, <2>3
<1> HIDE DEF z
<1> DEFINE S == {k \in 0 .. n : From(z, k) = p * From(x, k) + hi(k)}
<1>11. n \in S
  <2>1. n \in 0 .. n /\ n + 1 \in Nat
    BY <1>1
  <2>2. From(z, n) = Block(z, n + 1) + Base * From(z, n + 1) /\ From(z, n + 1) = 0
    BY <1>1, <1>9, <2>1, FromFacts
  <2>3. Block(z, n + 1) = hi(n) + lo(n) /\ lo(n) = 0 /\ hi(n) \in Nat
    BY <1>3, <1>10, <2>1 DEF lo
  <2>4. From(x, n) = 0
    BY <1>1, FromFacts
  <2> QED
    BY <1>1, <2>1, <2>2, <2>3, <2>4
<1>12. ASSUME NEW k \in 0 .. n - 1, k + 1 \in S PROVE k \in S
  <2>1. k \in Nat /\ k + 1 \in 0 .. n /\ k \in 0 .. n /\ k # n
    BY <1>1
  <2> DEFINE b == Block(x, k + 1)
             q == From(z, k + 1)
             f == From(x, k + 1)
  <2>2. From(z, k) = (hi(k) + lo(k)) + Base * q /\ From(x, k) = b + Base * f
    BY <1>9, <1>10, <2>1, FromFacts
  <2>3. q = p * f + hi(k + 1)
    BY <1>12
  <2>4. b \in Nat /\ f \in Nat /\ hi(k) \in Nat /\ lo(k) \in Nat /\ hi(k + 1) \in Nat
    <3>1. k + 1 \in Nat
      BY <2>1
    <3>2. b \in Blocks /\ f \in Nat
      BY <1>2, <3>1, FromFacts
    <3>3. b \in Nat
      BY <3>2, <1>1 DEF Blocks
    <3> QED
      BY <1>3, <2>1, <3>2, <3>3
  <2>5. lo(k) + Base * hi(k + 1) = p * b
    BY <1>3, <2>1
  <2> HIDE DEF b, q, f
  <2>6. Base * q = Base * (p * f) + Base * hi(k + 1)
    BY <1>1, <2>3, <2>4, Products
  <2>7. p * From(x, k) = p * b + p * (Base * f)
    BY <1>1, <2>2, <2>4, Products
  <2>8. p * (Base * f) = Base * (p * f)
    <3>1. p * (Base * f) = (p * Base) * f /\ Base * (p * f) = (Base * p) * f /\ p * Base = Base * p
      BY <1>1, <2>4, Products
    <3> QED
      BY <3>1
  <2> DEFINE m == Base * (p * f)
             u == Base * hi(k + 1)
             w == p * b
  <2>9. m \in Nat /\ u \in Nat /\ w \in Nat
    BY <1>1, <2>4, Products
  <2>10. /\ From(z, k) = (hi(k) + lo(k)) + (m + u) /\ p * From(x, k) = w + m
         /\ lo(k) + u = w
    BY <2>2, <2>5, <2>6, <2>7, <2>8
  <2> DEFINE h == hi(k)
             l == lo(k)
             e == From(z, k)
             g == p * From(x, k)
  <2>11. e = (h + l) + (m + u) /\ g = w + m /\ l + u = w /\ h \in Nat /\ l \in Nat
    BY <2>4, <2>10
  <2> HIDE DEF m, u, w, h, l, e, g
  <2>12. e = g + h
    BY <2>9, <2>11
  <2>13. From(z, k) = p * From(x, k) + hi(k)
    BY <2>12 DEF e, g, h
  <2> QED
    BY <2>1, <2>13
<1>13. \A k \in 0 .. n : k \in S
  <2> HIDE DEF S
  <2>1. S \in SUBSET (0 .. n)
    BY DEF S
  <2> QED
    BY <1>1, <1>11, <1>12, <2>1, InductDown
<1>14. From(z, 0) = p * From(x, 0) + hi(0) /\ hi(0) = 0
  BY <1>1, <1>13 DEF hi
<1>15. From(x, 0) \in Nat
  BY FromFacts, 0 \in Nat
<1>16. From(z, 0) = p * From(x, 0)
  BY <1>1, <1>14, <1>15, Products
<1> QED
  BY <1>9, <1>16, ValueIsFrom DEF z, p

\* The greatest of a set that has an element no other is above.
LEMMA MaxIs ==
  ASSUME NEW n \in Nat, NEW S \in SUBSET (0 .. n), NEW m \in S, \A i \in S : i <= m
  PROVE  Max(S) = m
<1>1. Max(S) \in S /\ m <= Max(S)
  BY MaxFacts
<1>2. Max(S) <= m
  BY <1>1
<1>3. m \in Int /\ Max(S) \in Int
  <2>1. \A i \in S : i \in Int
    OBVIOUS
  <2> QED
    BY <1>1, <2>1
<1> QED
  BY <1>1, <1>2, <1>3

\* What a fold computes that takes the elements of a set as C chooses them.
IsFold(f, S, C, p, G) ==
  \A s \in SUBSET S : f[s] = IF s = {} THEN p ELSE G[C[s]][f[s \ {C[s]}]]

\* There is such a function.
LEMMA FoldExists ==
  ASSUME NEW S, IsFiniteSet(S), NEW C, \A s \in SUBSET S : s # {} => C[s] \in s,
         NEW P, NEW p \in P, NEW G \in [S -> [P -> P]]
  PROVE  \E f \in [SUBSET S -> P] : IsFold(f, S, C, p, G)
<1> DEFINE R(f, s) == f[s] = IF s = {} THEN p ELSE G[C[s]][f[s \ {C[s]}]]
           Sets(m) == {s \in SUBSET S : Cardinality(s) <= m}
           Q(m) == \E f \in [Sets(m) -> P] : \A s \in Sets(m) : R(f, s)
           T == {m \in Nat : Q(m)}
<1>1. \A s \in SUBSET S : /\ Cardinality(s) \in Nat /\ Cardinality(s) <= Cardinality(S)
                          /\ Cardinality(s) = 0 <=> s = {}
  <2>1. ASSUME NEW s \in SUBSET S PROVE IsFiniteSet(s) /\ Cardinality(s) <= Cardinality(S)
    BY FS_Subset
  <2> QED
    BY <2>1, FS_EmptySet, FS_CardinalityType
<1>2. ASSUME NEW s \in SUBSET S, s # {}
      PROVE  C[s] \in S /\ s \ {C[s]} \in SUBSET S
             /\ Cardinality(s \ {C[s]}) = Cardinality(s) - 1
  <2>1. IsFiniteSet(s) /\ C[s] \in s
    BY <1>2, FS_Subset
  <2>2. Cardinality(s \ {C[s]}) = Cardinality(s) - 1
    BY <2>1, FS_RemoveElement
  <2> QED
    BY <2>1, <2>2
<1>3. 0 \in T
  <2> DEFINE f == [s \in Sets(0) |-> p]
  <2>1. \A s \in Sets(0) : s = {}
    BY <1>1
  <2> HIDE DEF Sets
  <2>2. f \in [Sets(0) -> P] /\ \A s \in Sets(0) : f[s] = p
    OBVIOUS
  <2> HIDE DEF f
  <2>3. \A s \in Sets(0) : R(f, s)
    BY <2>1, <2>2
  <2> HIDE DEF R
  <2> QED
    BY <2>2, <2>3
<1>4. ASSUME NEW m \in T PROVE m + 1 \in T
  <2>1. PICK f \in [Sets(m) -> P] : \A s \in Sets(m) : R(f, s)
    BY DEF T
  <2> DEFINE E(s) == IF s = {} THEN p ELSE G[C[s]][f[s \ {C[s]}]]
             g == [s \in Sets(m + 1) |-> E(s)]
  <2>2. ASSUME NEW s \in Sets(m + 1), s # {} PROVE C[s] \in S /\ s \ {C[s]} \in Sets(m)
    <3>1. s \in SUBSET S /\ Cardinality(s) <= m + 1
      OBVIOUS
    <3>2. C[s] \in S /\ s \ {C[s]} \in SUBSET S /\ Cardinality(s \ {C[s]}) = Cardinality(s) - 1
      BY <1>2, <2>2, <3>1
    <3>3. Cardinality(s) \in Nat
      BY <1>1, <3>1
    <3>4. Cardinality(s) - 1 <= m
      BY <3>1, <3>3
    <3> QED
      BY <3>2, <3>4
  <2>3. \A s \in Sets(m) : s \in Sets(m + 1)
    BY <1>1
  <2> HIDE DEF Sets
  <2>4. \A s \in Sets(m + 1) : E(s) \in P
    <3>1. ASSUME NEW s \in Sets(m + 1), s # {} PROVE G[C[s]][f[s \ {C[s]}]] \in P
      <4>1. C[s] \in S /\ s \ {C[s]} \in Sets(m)
        BY <2>2, <3>1
      <4>2. G[C[s]] \in [P -> P] /\ f[s \ {C[s]}] \in P
        BY <4>1
      <4> QED
        BY <4>2
    <3> QED
      BY <3>1
  <2>5. g \in [Sets(m + 1) -> P] /\ \A s \in Sets(m + 1) : g[s] = E(s)
    <3> HIDE DEF E
    <3> QED
      BY <2>4
  <2> HIDE DEF g
  <2>6. \A s \in Sets(m) : g[s] = f[s]
    <3>1. ASSUME NEW s \in Sets(m) PROVE g[s] = f[s]
      <4>1. g[s] = E(s) /\ R(f, s)
        BY <2>1, <2>3, <2>5
      <4> QED
        BY <4>1
    <3> QED
      BY <3>1
  <2>7. ASSUME NEW s \in Sets(m + 1) PROVE R(g, s)
    <3>1. CASE s = {}
      BY <2>5, <3>1
    <3>2. CASE s # {}
      <4>1. g[s \ {C[s]}] = f[s \ {C[s]}]
        BY <2>2, <2>6, <3>2
      <4>2. g[s] = G[C[s]][f[s \ {C[s]}]]
        BY <2>5, <3>2
      <4> QED
        BY <3>2, <4>1, <4>2
    <3> QED
      BY <3>1, <3>2
  <2> HIDE DEF R
  <2>8. Q(m + 1)
    BY <2>5, <2>7
  <2> QED
    BY <2>8
<1> HIDE DEF Q
<1>5. T = Nat
  <2> HIDE DEF T
  <2>1. T \in SUBSET Nat
    BY DEF T
  <2> QED
    BY <1>3, <1>4, <2>1, Induct
<1>6. Q(Cardinality(S))
  <2>1. Cardinality(S) \in Nat
    BY FS_CardinalityType
  <2> QED
    BY <1>5, <2>1
<1>7. Sets(Cardinality(S)) = SUBSET S
  BY <1>1
<1> HIDE DEF Sets
<1>8. \E f \in [SUBSET S -> P] : \A s \in SUBSET S : R(f, s)
  BY <1>6, <1>7 DEF Q
<1> QED
  BY <1>8 DEF IsFold

\* The greatest of the elements that are left.
MaxOf(n) == [s \in SUBSET (1 .. n) |-> Max(s)]

\* A fold that takes the greatest element of its set first exists.
LEMMA MaxFoldExists ==
  ASSUME NEW n \in Nat, NEW P, NEW p \in P, NEW G \in [1 .. n -> [P -> P]]
  PROVE  \E f \in [SUBSET (1 .. n) -> P] : IsFold(f, 1 .. n, MaxOf(n), p, G)
<1>1. IsFiniteSet(1 .. n)
  BY FS_Interval
<1>2. ASSUME NEW s \in SUBSET (1 .. n), s # {} PROVE MaxOf(n)[s] \in s
  <2>1. s \in SUBSET (0 .. n)
    OBVIOUS
  <2>2. Max(s) \in s
    BY <1>2, <2>1, MaxFacts
  <2> QED
    BY <2>2 DEF MaxOf
<1> DEFINE S == 1 .. n
           C == MaxOf(n)
<1>3. IsFiniteSet(S) /\ \A s \in SUBSET S : s # {} => C[s] \in s
  BY <1>1, <1>2
<1>4. G \in [S -> [P -> P]]
  OBVIOUS
<1> HIDE DEF S, C
<1>5. \E f \in [SUBSET S -> P] : IsFold(f, S, C, p, G)
  BY <1>3, <1>4, FoldExists
<1> QED
  BY <1>5 DEF S, C

\* Such a function, on the sets 1 .. k.
LEMMA FoldSteps ==
  ASSUME NEW k \in Nat, k # 0
  PROVE  1 .. k # {} /\ Max(1 .. k) = k /\ (1 .. k) \ {Max(1 .. k)} = 1 .. k - 1
<1> DEFINE S == 1 .. k
<1>1. S \in SUBSET (0 .. k) /\ k \in S /\ \A i \in S : i <= k
  OBVIOUS
<1>2. Max(S) = k
  <2> HIDE DEF S
  <2> QED
    BY <1>1, MaxIs
<1> QED
  BY <1>2

-----------------------------------------------------------------------------
(* The turns of a multiplication                                             *)

\* A turn: y shifted to b is added if b is a bit of x.
AddShifted(x, y, product, b) ==
  IF getBit(x, b) = 0 THEN product
  ELSE SubSeq(product, 1, b \div N) \o
       Chain(AddBlock, SubSeq(product, (b \div N) + 1, Len(product)), Shifted(y, b % N)).blk

\* multiply() makes its turns one after the other, from the lowest bit up.
LEMMA MultiplyFolds ==
  ASSUME NEW x \in Seq(Blocks), NEW y \in Seq(Blocks), x # <<>>, y # <<>>,
         NEW P, Zeros(Len(x) + Len(y)) \in P,
         \A z \in P, b \in 0 .. Len(x) * N - 1 : AddShifted(x, y, z, b) \in P
  PROVE  \E f : /\ f[0] = Zeros(Len(x) + Len(y))
                /\ \A k \in 1 .. Len(x) * N : f[k] = AddShifted(x, y, f[k - 1], k - 1)
                /\ multiply(x, y) = zapLeadingZero(f[Len(x) * N])
<1> DEFINE n == Len(x) * N
           p == Zeros(Len(x) + Len(y))
           q == [k \in 1 .. n |-> k - 1]
           G == [k \in 1 .. n |-> [z \in P |-> AddShifted(x, y, z, k - 1)]]
<1>1. n \in Nat
  BY BlockAssumption
<1>2. \A k \in 1 .. n : k - 1 \in 0 .. n - 1
  BY <1>1
<1>3. G \in [1 .. n -> [P -> P]]
  BY <1>2
<1> HIDE DEF n, p
<1>4. PICK g \in [SUBSET (1 .. n) -> P] : IsFold(g, 1 .. n, MaxOf(n), p, G)
  <2>1. p \in P
    BY DEF p
  <2> HIDE DEF G
  <2> QED
    BY <1>1, <1>3, <2>1, MaxFoldExists, Zenon
<1>5. ASSUME NEW s \in SUBSET (1 .. n), s # {}
      PROVE  /\ Max(s) \in 1 .. n /\ s \ {Max(s)} \in SUBSET (1 .. n)
             /\ q[Max(s)] = Max(s) - 1
  <2>1. s \in SUBSET (0 .. n)
    OBVIOUS
  <2>2. Max(s) \in s
    BY <1>1, <1>5, <2>1, MaxFacts
  <2> QED
    BY <2>2
<1>6. g = [s \in SUBSET (1 .. n) |->
             IF s = {} THEN p ELSE AddShifted(x, y, g[s \ {Max(s)}], q[Max(s)])]
  <2>1. ASSUME NEW s \in SUBSET (1 .. n)
        PROVE  g[s] = IF s = {} THEN p ELSE AddShifted(x, y, g[s \ {Max(s)}], q[Max(s)])
    <3>1. CASE s = {}
      BY <1>4, <3>1 DEF IsFold, MaxOf
    <3>2. CASE s # {}
      <4>1. /\ Max(s) \in 1 .. n /\ g[s \ {Max(s)}] \in P
            /\ q[Max(s)] = Max(s) - 1
        BY <1>5, <3>2
      <4>2. g[s] = G[Max(s)][g[s \ {Max(s)}]]
        BY <1>4, <3>2 DEF IsFold, MaxOf
      <4>3. G[Max(s)][g[s \ {Max(s)}]] = AddShifted(x, y, g[s \ {Max(s)}], Max(s) - 1)
        BY <4>1
      <4> HIDE DEF G, q
      <4> QED
        BY <3>2, <4>1, <4>2, <4>3
    <3> QED
      BY <3>1, <3>2
  <2> HIDE DEF q, G
  <2> QED
    BY <2>1
<1> DEFINE h == CHOOSE h : h = [s \in SUBSET (1 .. n) |->
             IF s = {} THEN p ELSE AddShifted(x, y, h[s \ {Max(s)}], q[Max(s)])]
<1>7. h = [s \in SUBSET (1 .. n) |->
             IF s = {} THEN p ELSE AddShifted(x, y, h[s \ {Max(s)}], q[Max(s)])]
  <2> HIDE DEF q
  <2> QED
    BY <1>6
<1>8. multiply(x, y) = zapLeadingZero(h[1 .. n])
  <2>1. DOMAIN q = 1 .. n
    OBVIOUS
  <2> QED
    BY <2>1 DEF multiply, FoldLeft, MapThenFoldSet, AddShifted, n, p
<1> HIDE DEF h
<1> DEFINE f == [k \in 0 .. n |-> h[1 .. k]]
<1>9. f[0] = p
  <2>1. h[{}] = p
    BY <1>7
  <2>2. f[0] = h[1 .. 0] /\ 1 .. 0 = {}
    BY <1>1
  <2> QED
    BY <2>1, <2>2
<1>10. ASSUME NEW k \in 1 .. n PROVE f[k] = AddShifted(x, y, f[k - 1], k - 1)
  <2> DEFINE s == 1 .. k
  <2>1. s \in SUBSET (1 .. n) /\ s # {} /\ Max(s) = k /\ s \ {Max(s)} = 1 .. k - 1
    BY <1>1, FoldSteps
  <2>2. k \in 0 .. n /\ k - 1 \in 0 .. n /\ q[k] = k - 1
    BY <1>1
  <2>3. h[s] = AddShifted(x, y, h[s \ {Max(s)}], q[Max(s)])
    <3> HIDE DEF s, q
    <3> QED
      BY <1>7, <2>1
  <2>4. f[k] = h[s] /\ f[k - 1] = h[1 .. k - 1]
    BY <2>2
  <2> HIDE DEF f, q, s
  <2> QED
    BY <2>1, <2>2, <2>3, <2>4
<1>11. f[n] = h[1 .. n]
  BY <1>1
<1> HIDE DEF f
<1> QED
  BY <1>8, <1>9, <1>10, <1>11 DEF n, p

\* A sum that fits into the blocks of the longer operand leaves no carry.
LEMMA SumThatFits ==
  ASSUME NEW x \in Seq(Blocks), NEW y \in Seq(Blocks), Len(y) <= Len(x),
         Value(x) + Value(y) < Weight(Len(x))
  PROVE  LET r == Chain(AddBlock, x, y).blk
         IN r \in Seq(Blocks) /\ Len(r) = Len(x) /\ Value(r) = Value(x) + Value(y)
<1> DEFINE sum == Chain(AddBlock, x, y)
           s == sum.blk
           n == Len(x)
<1>1. s \in Seq(Blocks) /\ Len(s) = n /\ n \in Nat
  BY AddChain
<1>2. Value(IF sum.out = 1 THEN Append(s, 1) ELSE s) = Value(x) + Value(y)
  BY Carried
<1> HIDE DEF sum
<1>3. sum.out # 1
  <2> SUFFICES ASSUME sum.out = 1 PROVE FALSE
    OBVIOUS
  <2> HIDE DEF s
  <2>1. Append(s, 1) = s \o <<1>>
    BY <1>1, AppendIsConcat
  <2>2. Value(s \o <<1>>) = Value(s) + Weight(n) * 1
    <3> DEFINE u == <<1>>
    <3>1. u \in Seq(Blocks) /\ Value(u) = 1
      BY ValueOfFew
    <3> HIDE DEF u
    <3>2. Value(s \o u) = Value(s) + Weight(n) * Value(u)
      BY <1>1, <3>1, ConcatValue
    <3> QED
      BY <3>1, <3>2 DEF u
  <2>3. Weight(n) \in Nat /\ Value(s) \in Nat
    BY <1>1, Weights, ValueIsFrom
  <2>4. Value(Append(s, 1)) = Value(x) + Value(y)
    BY <1>2
  <2>5. Value(Append(s, 1)) = Value(s) + Weight(n)
    <3>1. Weight(n) * 1 = Weight(n)
      BY <2>3
    <3> QED
      BY <2>1, <2>2, <3>1, Zenon
  <2> QED
    BY <2>3, <2>4, <2>5
<1> QED
  BY <1>1, <1>2, <1>3 DEF sum

\* The bits of a block from the s-th up.
LEMMA OneBit ==
  ASSUME NEW b \in Nat, NEW s \in 0 .. N - 1
  PROVE  /\ 2 ^ s \in Nat \ {0} /\ 2 ^ (s + 1) \in Nat \ {0} /\ 2 ^ (s + 1) = 2 * 2 ^ s
         /\ BitOf(b, s) \in {0, 1}
         /\ 2 ^ s * (b \div 2 ^ s) = 2 ^ (s + 1) * (b \div 2 ^ (s + 1)) + BitOf(b, s) * 2 ^ s
<1> DEFINE p == 2 ^ s
           q == 2 ^ (s + 1)
           h == b \div p
           r == b % p
           k == h \div 2
           t == h % 2
<1>1. p \in Nat \ {0} /\ q \in Nat \ {0} /\ q = 2 * p
  BY PowerAssumption
<1> HIDE DEF p, q
<1>2. h \in Nat /\ r \in Nat /\ r < p /\ b = p * h + r
  BY <1>1, Quotients
<1> HIDE DEF h, r
<1>3. k \in Nat /\ t \in Nat /\ t < 2 /\ h = 2 * k + t
  BY <1>2, Quotients, 2 \in Nat \ {0}
<1> HIDE DEF k, t
<1>4. p * h = q * k + t * p
  <2>1. p * h = p * (2 * k) + p * t
    BY <1>1, <1>2, <1>3, Products
  <2>2. p * (2 * k) = (p * 2) * k /\ p * 2 = 2 * p /\ p * t = t * p
    BY <1>1, <1>3, Products
  <2> QED
    BY <1>1, <2>1, <2>2
<1>5. t = 0 \/ t = 1
  BY <1>3
<1>6. t * p + r < q /\ t * p + r \in Nat
  BY <1>1, <1>2, <1>5
<1>7. b = q * k + (t * p + r)
  <2> DEFINE u == q * k
             v == t * p
  <2>1. u \in Nat /\ v \in Nat
    BY <1>1, <1>3, Products
  <2>2. b = (u + v) + r
    BY <1>2, <1>4
  <2> HIDE DEF u, v
  <2>3. b = u + (v + r)
    BY <1>2, <2>1, <2>2
  <2> QED
    BY <2>3 DEF u, v
<1>8. b \div q = k
  <2> DEFINE w == t * p + r
  <2>1. w \in Nat /\ w < q /\ b = q * k + w
    BY <1>6, <1>7
  <2> HIDE DEF w
  <2> QED
    BY <1>1, <1>3, <2>1, QuotientIs
<1>9. BitOf(b, s) = t
  BY DEF BitOf, t, h, p
<1> QED
  BY <1>1, <1>4, <1>5, <1>8, <1>9 DEF p, q, h

-----------------------------------------------------------------------------
(* The bits of a factor from one of them up                                  *)

\* What the bits of x from the s-th of block i up stand for.
RestAt(x, i, s) ==
  Weight(i) * (2 ^ s * (Block(x, i + 1) \div 2 ^ s) + Base * From(x, i + 1))

\* And from bit b of x up.
Rest(x, b) == RestAt(x, b \div N, b % N)

\* Above the first bit of a block the whole block is left.
LEMMA RestAtBlock ==
  ASSUME NEW x \in Seq(Blocks), NEW i \in Nat
  PROVE  RestAt(x, i, 0) = Weight(i) * From(x, i)
<1>1. Block(x, i + 1) \in Nat /\ From(x, i) = Block(x, i + 1) + Base * From(x, i + 1)
  <2>1. i + 1 \in Nat
    OBVIOUS
  <2>2. Block(x, i + 1) \in Blocks
    BY <2>1, BlocksType
  <2> QED
    BY <2>2, BaseType, FromFacts DEF Blocks
<1> DEFINE b == Block(x, i + 1)
<1>2. 2 ^ 0 * (b \div 2 ^ 0) = b
  <2> HIDE DEF b
  <2>1. 2 ^ 0 = 1 /\ b \in Nat
    BY <1>1, PowerAssumption DEF b
  <2>2. b \div 1 = b
    BY <2>1
  <2> QED
    BY <2>1, <2>2
<1> QED
  BY <1>1, <1>2 DEF RestAt

\* A bit is left or gone with what it stands for.
LEMMA RestAtStep ==
  ASSUME NEW x \in Seq(Blocks), NEW i \in Nat, NEW s \in 0 .. N - 1
  PROVE  RestAt(x, i, s) = RestAt(x, i, s + 1) + BitOf(Block(x, i + 1), s) * (Weight(i) * 2 ^ s)
<1> DEFINE b == Block(x, i + 1)
           t == BitOf(b, s)
           p == 2 ^ s
           u == 2 ^ (s + 1) * (b \div 2 ^ (s + 1))
           v == Base * From(x, i + 1)
           w == Weight(i)
<1>1. i + 1 \in Nat
  OBVIOUS
<1>2. b \in Nat
  <2>1. Block(x, i + 1) \in Blocks
    BY <1>1, BlocksType
  <2> QED
    BY <2>1, BaseType DEF Blocks
<1>3. v \in Nat /\ w \in Nat
  BY <1>1, BaseType, FromFacts, Weights, Products
<1> HIDE DEF b
<1>4. t \in Nat /\ p \in Nat /\ p * (b \div p) = u + t * p
  <2>1. BitOf(b, s) \in {0, 1} /\ 2 ^ s \in Nat \ {0}
    BY <1>2, OneBit
  <2>2. 2 ^ s * (b \div 2 ^ s) = 2 ^ (s + 1) * (b \div 2 ^ (s + 1)) + BitOf(b, s) * 2 ^ s
    BY <1>2, OneBit
  <2>3. t \in Nat /\ p \in Nat
    BY <2>1
  <2> QED
    BY <2>2, <2>3
<1>5. u \in Nat
  <2>1. 2 ^ (s + 1) \in Nat \ {0}
    BY <1>2, OneBit
  <2>2. b \div 2 ^ (s + 1) \in Nat
    BY <1>2, <2>1, Quotients
  <2> QED
    BY <2>1, <2>2, Products
<1>6. RestAt(x, i, s) = w * ((u + t * p) + v) /\ RestAt(x, i, s + 1) = w * (u + v)
  BY <1>4 DEF RestAt, b
<1> HIDE DEF t, p, u, v, w
<1>7. t * p \in Nat
  BY <1>4, Products
<1>8. (u + t * p) + v = (u + v) + t * p
  <2> DEFINE m == t * p
  <2>1. m \in Nat
    BY <1>7
  <2> HIDE DEF m
  <2>2. (u + m) + v = (u + v) + m
    BY <1>3, <1>5, <2>1
  <2> QED
    BY <2>2 DEF m
<1>9. u + v \in Nat
  BY <1>3, <1>5
<1>10. w * ((u + v) + t * p) = w * (u + v) + w * (t * p)
  BY <1>3, <1>7, <1>9, Products
<1>11. w * (t * p) = t * (w * p)
  <2>1. w * (t * p) = (w * t) * p /\ t * (w * p) = (t * w) * p /\ w * t = t * w
    BY <1>3, <1>4, Products
  <2> QED
    BY <2>1
<1> QED
  BY <1>6, <1>8, <1>10, <1>11 DEF t, b, w, p

\* Above the last bit of a block the next one begins.
LEMMA RestOfBlock ==
  ASSUME NEW x \in Seq(Blocks), NEW i \in Nat
  PROVE  RestAt(x, i, N) = RestAt(x, i + 1, 0)
<1> DEFINE b == Block(x, i + 1)
           f == From(x, i + 1)
           w == Weight(i)
<1>1. i + 1 \in Nat /\ Base \in Nat \ {0}
  BY BaseType
<1>2. b \in Nat /\ b < Base
  <2>1. Block(x, i + 1) \in Blocks
    BY <1>1, BlocksType
  <2> QED
    BY <2>1, BaseType DEF Blocks
<1>3. f \in Nat /\ w \in Nat /\ Weight(i + 1) = Base * w
  BY <1>1, FromFacts, Weights
<1>4. RestAt(x, i + 1, 0) = (Base * w) * f
  BY <1>1, <1>3, RestAtBlock
<1>5. RestAt(x, i, N) = w * (Base * (b \div Base) + Base * f)
  BY DEF RestAt, Base
<1> HIDE DEF b, f, w
<1>6. b \div Base = 0
  <2>1. b = Base * 0 + b
    BY <1>1, <1>2
  <2> QED
    BY <1>1, <1>2, <2>1, QuotientIs, 0 \in Nat
<1>7. Base * 0 = 0 /\ Base * f \in Nat
  BY <1>1, <1>3, Products
<1>8. RestAt(x, i, N) = w * (Base * f)
  BY <1>5, <1>6, <1>7
<1>9. w * (Base * f) = (w * Base) * f /\ w * Base = Base * w
  BY <1>1, <1>3, Products
<1> QED
  BY <1>4, <1>8, <1>9

\* The place of a bit.
LEMMA BitPlaces ==
  ASSUME NEW b \in Nat
  PROVE  /\ b \div N \in Nat /\ b % N \in 0 .. N - 1
         /\ b = N * (b \div N) + (b % N)
         /\ (b % N) + 1 < N => (b + 1) \div N = b \div N /\ (b + 1) % N = (b % N) + 1
         /\ (b % N) + 1 = N => (b + 1) \div N = (b \div N) + 1 /\ (b + 1) % N = 0
<1> DEFINE i == b \div N
           s == b % N
<1>1. N \in Nat \ {0}
  BY BlockAssumption
<1>2. i \in Nat /\ s \in Nat /\ s < N /\ b = N * i + s
  BY <1>1, Quotients
<1> HIDE DEF i, s
<1>3. N * i \in Nat
  BY <1>1, <1>2, Products
<1>4. ASSUME s + 1 < N PROVE (b + 1) \div N = i /\ (b + 1) % N = s + 1
  <2>1. b + 1 \in Nat /\ s + 1 \in Nat /\ b + 1 = N * i + (s + 1)
    BY <1>2, <1>3
  <2> DEFINE c == b + 1
             u == s + 1
  <2> HIDE DEF c, u
  <2>2. c \in Nat /\ u \in Nat /\ u < N /\ c = N * i + u
    BY <1>4, <2>1 DEF c, u
  <2>3. c \div N = i /\ c % N = u
    BY <1>1, <1>2, <2>2, QuotientIs
  <2> QED
    BY <2>3 DEF c, u
<1>5. ASSUME s + 1 = N PROVE (b + 1) \div N = i + 1 /\ (b + 1) % N = 0
  <2>1. N * (i + 1) = N * i + N * 1 /\ N * 1 = N
    BY <1>1, <1>2, Products
  <2> DEFINE c == b + 1
             j == i + 1
  <2>2. c \in Nat /\ j \in Nat /\ c = N * j + 0
    BY <1>1, <1>2, <1>3, <1>5, <2>1
  <2> HIDE DEF c, j
  <2>3. c \div N = j /\ c % N = 0
    BY <1>1, <2>2, QuotientIs, 0 \in Nat, 0 < N
  <2> QED
    BY <2>3 DEF c, j
<1>6. s \in 0 .. N - 1
  BY <1>1, <1>2
<1> QED
  BY <1>2, <1>4, <1>5, <1>6 DEF i, s

\* What is left above a bit and what the bit stands for.
LEMMA RestSteps ==
  ASSUME NEW x \in Seq(Blocks), NEW b \in Nat
  PROVE  /\ Rest(x, b) \in Nat
         /\ getBit(x, b) \in {0, 1}
         /\ Rest(x, b) = Rest(x, b + 1) + getBit(x, b) * (Weight(b \div N) * 2 ^ (b % N))
<1> DEFINE i == b \div N
           s == b % N
<1>1. i \in Nat /\ s \in 0 .. N - 1
  BY BitPlaces
<1>2. Rest(x, b + 1) = RestAt(x, i, s + 1)
  <2>1. CASE s + 1 < N
    BY <2>1, BitPlaces DEF Rest
  <2>2. CASE s + 1 = N
    <3>1. Rest(x, b + 1) = RestAt(x, i + 1, 0)
      BY <2>2, BitPlaces DEF Rest
    <3> HIDE DEF i, s
    <3>2. RestAt(x, i, N) = RestAt(x, i + 1, 0)
      BY <1>1, RestOfBlock
    <3> QED
      BY <2>2, <3>1, <3>2
  <2>3. s + 1 < N \/ s + 1 = N
    <3> HIDE DEF s
    <3> QED
      BY <1>1, BlockAssumption
  <2> QED
    BY <2>1, <2>2, <2>3
<1>3. RestAt(x, i, s) = RestAt(x, i, s + 1) + BitOf(Block(x, i + 1), s) * (Weight(i) * 2 ^ s)
  <2> HIDE DEF i, s
  <2> QED
    BY <1>1, RestAtStep
<1>4. Block(x, i + 1) \in Nat
  <2> HIDE DEF i
  <2>1. i + 1 \in Nat
    BY <1>1
  <2>2. Block(x, i + 1) \in Blocks
    BY <2>1, BlocksType
  <2> QED
    BY <2>2, BaseType DEF Blocks
<1>5. getBit(x, b) = BitOf(Block(x, i + 1), s)
  BY DEF getBit
<1>6. BitOf(Block(x, i + 1), s) \in {0, 1}
  <2> HIDE DEF i, s
  <2> QED
    BY <1>1, <1>4, OneBit
<1>7. RestAt(x, i, s) \in Nat
  <2> HIDE DEF i, s
  <2>1. 2 ^ s \in Nat \ {0}
    BY <1>1, <1>4, OneBit
  <2>2. Block(x, i + 1) \div 2 ^ s \in Nat
    BY <1>4, <2>1, Quotients
  <2>3. 2 ^ s * (Block(x, i + 1) \div 2 ^ s) \in Nat
    BY <2>1, <2>2, Products
  <2>4. i + 1 \in Nat /\ Base \in Nat
    BY <1>1, BaseType
  <2>5. From(x, i + 1) \in Nat
    BY <2>4, FromFacts
  <2>6. Base * From(x, i + 1) \in Nat /\ Weight(i) \in Nat
    BY <1>1, <2>4, <2>5, Products, Weights
  <2> DEFINE m == 2 ^ s * (Block(x, i + 1) \div 2 ^ s)
             k == Base * From(x, i + 1)
  <2>7. m \in Nat /\ k \in Nat
    BY <2>3, <2>6
  <2> HIDE DEF m, k
  <2>8. Weight(i) * (m + k) \in Nat
    <3>1. m + k \in Nat
      BY <2>7
    <3> QED
      BY <2>6, <3>1, Products
  <2> QED
    BY <2>8 DEF RestAt, m, k
<1> QED
  BY <1>2, <1>3, <1>5, <1>6, <1>7 DEF Rest

\* All of the number is left at the first bit, nothing after the last one.
LEMMA RestEnds ==
  ASSUME NEW x \in Seq(Blocks)
  PROVE  Rest(x, 0) = Value(x) /\ Rest(x, Len(x) * N) = 0
<1> DEFINE n == Len(x)
<1>1. n \in Nat /\ N \in Nat \ {0}
  BY BlockAssumption
<1>2. 0 \div N = 0 /\ 0 % N = 0
  <2>1. 0 = N * 0 + 0 /\ 0 < N /\ 0 \in Nat
    BY <1>1
  <2> QED
    BY <1>1, <2>1, QuotientIs
<1>3. Rest(x, 0) = 1 * From(x, 0) /\ From(x, 0) \in Nat
  BY <1>2, RestAtBlock, Weights, FromFacts, 0 \in Nat DEF Rest
<1> HIDE DEF n
<1>4. (n * N) \div N = n /\ (n * N) % N = 0
  <2>1. n * N \in Nat /\ n * N = N * n
    BY <1>1, Products
  <2> DEFINE c == n * N
  <2>2. c \in Nat /\ c = N * n + 0
    BY <2>1
  <2> HIDE DEF c
  <2>3. c \div N = n /\ c % N = 0
    BY <1>1, <2>2, QuotientIs, 0 \in Nat, 0 < N
  <2> QED
    BY <2>3 DEF c
<1>5. From(x, n) = 0 /\ Weight(n) \in Nat
  BY <1>1, FromFacts, Weights DEF n
<1>6. Rest(x, n * N) = Weight(n) * 0
  BY <1>1, <1>4, <1>5, RestAtBlock DEF Rest
<1> QED
  BY <1>3, <1>5, <1>6, ValueIsFrom DEF n

\* A turn keeps the number of blocks of the product.
LEMMA TurnType ==
  ASSUME NEW x \in Seq(Blocks), NEW y \in Seq(Blocks), NEW z \in Seq(Blocks),
         Len(z) = Len(x) + Len(y), NEW b \in 0 .. Len(x) * N - 1
  PROVE  /\ b \in Nat /\ b \div N \in 0 .. Len(x) - 1
         /\ AddShifted(x, y, z, b) \in Seq(Blocks)
         /\ Len(AddShifted(x, y, z, b)) = Len(z)
<1> DEFINE i == b \div N
           s == b % N
           n == Len(x)
           m == Len(z)
           lo == SubSeq(z, 1, i)
           hi == SubSeq(z, i + 1, m)
           r == Chain(AddBlock, hi, Shifted(y, s)).blk
<1>1. n \in Nat /\ N \in Nat \ {0} /\ m \in Nat /\ n <= m
  <2>1. Len(y) \in Nat
    OBVIOUS
  <2> QED
    BY <2>1, BlockAssumption
<1>2. b \in Nat /\ b < n * N
  <2>1. n * N \in Nat
    BY <1>1, Products
  <2> DEFINE k == n * N
  <2>2. k \in Nat /\ b \in 0 .. k - 1
    BY <2>1
  <2> HIDE DEF k
  <2>3. b \in Nat /\ b < k
    BY <2>2
  <2> QED
    BY <2>3 DEF k
<1>3. i \in Nat /\ s \in 0 .. N - 1 /\ b = N * i + s
  BY <1>2, BitPlaces
<1> HIDE DEF i, s, n, m
<1>4. i < n
  <2> SUFFICES ASSUME n <= i PROVE FALSE
    BY <1>1, <1>3
  <2>1. N * n <= N * i /\ n * N = N * n /\ N * i \in Nat /\ N * n \in Nat
    BY <1>1, <1>3, Products
  <2> DEFINE u == N * i
             v == N * n
  <2>2. u \in Nat /\ v \in Nat /\ v <= u /\ b = u + s /\ b < v
    BY <1>2, <1>3, <2>1
  <2> HIDE DEF u, v
  <2> QED
    BY <1>1, <1>3, <2>2
<1>5. i \in 0 .. n - 1 /\ i \in 0 .. m
  BY <1>1, <1>3, <1>4
<1>6. lo \in Seq(Blocks) /\ Len(lo) = i /\ hi \in Seq(Blocks) /\ Len(hi) = m - i
  BY <1>5, CutValue DEF m
<1> HIDE DEF lo, hi
<1>7. Shifted(y, s) \in Seq(Blocks)
  BY <1>3, ShiftRight
<1>8. r \in Seq(Blocks) /\ Len(r) = m - i
  BY <1>6, <1>7, AddChain
<1> HIDE DEF r
<1>9. lo \o r \in Seq(Blocks) /\ Len(lo \o r) = m
  <2>1. lo \o r \in Seq(Blocks) /\ Len(lo \o r) = Len(lo) + Len(r)
    BY <1>6, <1>8, ConcatValue
  <2> QED
    BY <1>1, <1>3, <1>6, <1>8, <2>1
<1>10. AddShifted(x, y, z, b) = z \/ AddShifted(x, y, z, b) = lo \o r
  BY DEF AddShifted, lo, hi, r, i, s, m
<1> QED
  BY <1>2, <1>5, <1>9, <1>10 DEF i, n, m

\* It adds what the bit stands for, times y: the bits that are left make up
\* for the rest of the product.
LEMMA TurnValue ==
  ASSUME NEW x \in Seq(Blocks), NEW y \in Seq(Blocks), NEW z \in Seq(Blocks),
         Len(z) = Len(x) + Len(y), NEW b \in 0 .. Len(x) * N - 1,
         Value(z) + Rest(x, b) * Value(y) = Value(x) * Value(y)
  PROVE  Value(AddShifted(x, y, z, b)) + Rest(x, b + 1) * Value(y) = Value(x) * Value(y)
<1> DEFINE i == b \div N
           s == b % N
           m == Len(z)
           lo == SubSeq(z, 1, i)
           hi == SubSeq(z, i + 1, m)
           sh == Shifted(y, s)
           r == Chain(AddBlock, hi, sh).blk
           w == Weight(i)
           p == 2 ^ s
           vy == Value(y)
           t == Rest(x, b + 1)
           g == Value(x) * Value(y)
           bit == getBit(x, b)
           a == AddShifted(x, y, z, b)
<1>1. b \in Nat /\ i \in 0 .. Len(x) - 1
  BY TurnType
<1>2. s \in 0 .. N - 1
  BY <1>1, BitPlaces
<1>3. /\ Rest(x, b) \in Nat /\ bit \in {0, 1}
      /\ Rest(x, b) = t + bit * (w * p)
  BY <1>1, RestSteps
<1>4. t \in Nat
  <2>1. b + 1 \in Nat
    BY <1>1
  <2> QED
    BY <2>1, RestSteps
<1>5. vy \in Nat /\ Value(x) \in Nat /\ g \in Nat /\ Value(z) \in Nat
  <2>1. Value(x) \in Nat /\ Value(y) \in Nat /\ Value(z) \in Nat
    BY ValueIsFrom
  <2> QED
    BY <2>1, Products
<1>6. Value(z) + Rest(x, b) * vy = g
  OBVIOUS
<1>7. a = IF bit = 0 THEN z ELSE lo \o r
  BY DEF AddShifted
<1> HIDE DEF t, g, bit, a, vy
<1>8. CASE bit = 0
  <2>1. Rest(x, b) = t
    <3>1. w * p \in Nat
      <4>1. p \in Nat \ {0} /\ w \in Nat
        <5>1. s \in 0 .. N /\ i \in Nat
          BY <1>1, <1>2, BlockAssumption
        <5> HIDE DEF i, s
        <5> QED
          BY <5>1, Powers, Weights
      <4> QED
        BY <4>1, Products
    <3> HIDE DEF w, p
    <3> QED
      BY <1>3, <1>4, <1>8, <3>1
  <2>2. a = z
    BY <1>7, <1>8
  <2> QED
    BY <1>6, <2>1, <2>2 DEF t, g, a, vy
<1>9. CASE bit # 0
  <2>1. Len(x) \in Nat /\ Len(y) \in Nat /\ m \in Nat /\ m = Len(x) + Len(y)
    OBVIOUS
  <2>2. i \in Nat /\ i \in 0 .. m /\ m - i \in Nat /\ Len(y) + 1 <= m - i
    <3> HIDE DEF i, m
    <3> QED
      BY <1>1, <2>1
  <2> HIDE DEF i, s
  <2>3. /\ lo \in Seq(Blocks) /\ Len(lo) = i /\ hi \in Seq(Blocks) /\ Len(hi) = m - i
        /\ Value(z) = Value(lo) + w * Value(hi)
    BY <2>2, CutValue
  <2>4. sh \in Seq(Blocks) /\ Len(sh) = Len(y) + 1 /\ Value(sh) = p * vy
    BY <1>2, ShiftRight DEF vy
  <2>5. p \in Nat \ {0} /\ w \in Nat \ {0}
    <3>1. s \in 0 .. N
      BY <1>2, BlockAssumption
    <3> QED
      BY <2>2, <3>1, Powers, Weights
  <2> HIDE DEF lo, hi, sh, m
  <2>6. Value(lo) \in Nat /\ Value(hi) \in Nat /\ Value(sh) \in Nat
    BY <2>3, <2>4, ValueIsFrom
  <2> DEFINE e == Value(hi) + Value(sh)
  <2>7. e \in Nat /\ w * e = w * Value(hi) + (w * p) * vy
    <3>1. w * e = w * Value(hi) + w * Value(sh)
      BY <2>5, <2>6, Products
    <3>2. w * (p * vy) = (w * p) * vy
      BY <1>5, <2>5, Products
    <3> QED
      BY <2>4, <2>6, <3>1, <3>2
  <2> DEFINE A == w * Value(hi)
             B == (w * p) * vy
             C == t * vy
             D == w * e
             L == Value(lo)
  <2>8. A \in Nat /\ B \in Nat /\ C \in Nat /\ D \in Nat /\ L \in Nat
    <3>1. w * p \in Nat
      BY <2>5, Products
    <3> HIDE DEF e
    <3> QED
      BY <1>4, <1>5, <2>5, <2>6, <2>7, <3>1, Products
  <2>9. D = A + B
    BY <2>7
  <2>10. (L + A) + (C + B) = g
    <3>1. Rest(x, b) = t + w * p
      <4>1. w * p \in Nat
        BY <2>5, Products
      <4>2. bit = 1
        BY <1>3, <1>9
      <4>3. 1 * (w * p) = w * p
        BY <4>1
      <4> QED
        BY <1>3, <4>2, <4>3
    <3>2. Rest(x, b) * vy = C + B
      <4>1. w * p \in Nat /\ t + w * p \in Nat
        <5>1. w * p \in Nat
          BY <2>5, Products
        <5> DEFINE k == w * p
        <5> HIDE DEF k
        <5>2. k \in Nat /\ t + k \in Nat
          BY <1>4, <5>1 DEF k
        <5> QED
          BY <5>2 DEF k
      <4>2. (t + w * p) * vy = vy * (t + w * p)
        BY <1>5, <4>1, Products
      <4>3. vy * (t + w * p) = vy * t + vy * (w * p)
        BY <1>4, <1>5, <4>1, Products
      <4>4. vy * t = t * vy /\ vy * (w * p) = (w * p) * vy
        BY <1>4, <1>5, <4>1, Products
      <4> QED
        BY <3>1, <4>2, <4>3, <4>4
    <3> QED
      BY <1>6, <2>3, <3>2
  <2>11. e < Weight(m - i)
    <3>1. Value(x) < Weight(Len(x)) /\ vy < Weight(Len(y))
      BY <2>1, BelowWeight DEF vy
    <3> DEFINE W == Weight(m - i)
               X == Weight(Len(x))
               Y == Weight(Len(y))
    <3>2. W \in Nat \ {0} /\ X \in Nat \ {0} /\ Y \in Nat \ {0}
      BY <2>1, <2>2, Weights
    <3>3. X * Y = w * W
      <4>1. Weight(Len(x) + Len(y)) = X * Y
        BY <2>1, WeightOfSum
      <4>2. Weight(i + (m - i)) = w * W
        BY <2>2, WeightOfSum
      <4>3. i + (m - i) = Len(x) + Len(y)
        BY <2>1, <2>2
      <4> QED
        BY <4>1, <4>2, <4>3
    <3>4. g < X * Y
      <4> DEFINE vx == Value(x)
      <4> HIDE DEF X, Y, vx
      <4>1. vx \in Nat /\ vx < X /\ vy < Y
        BY <1>5, <3>1 DEF vx, X, Y
      <4>2. vx * vy <= vx * Y
        BY <1>5, <3>2, <4>1, Products
      <4>3. Y * vx + Y <= Y * X /\ Y * vx = vx * Y /\ Y * X = X * Y
        BY <3>2, <4>1, Products
      <4> DEFINE k == vx * vy
                 j == vx * Y
                 l == X * Y
      <4>4. k \in Nat /\ j \in Nat /\ l \in Nat
        BY <1>5, <3>2, <4>1, Products
      <4>5. k <= j /\ j + Y <= l
        BY <4>2, <4>3
      <4> HIDE DEF k, j, l
      <4>6. k < l
        BY <3>2, <4>4, <4>5
      <4> QED
        BY <4>6 DEF k, l, g, vx, vy
    <3>5. D <= g
      <4> HIDE DEF A, B, C, D, L
      <4> QED
        BY <2>8, <2>9, <2>10
    <3>6. D < w * W
      <4> DEFINE l == X * Y
      <4>1. l \in Nat
        BY <3>2, Products
      <4>2. D <= g /\ g < l
        BY <3>4, <3>5
      <4> HIDE DEF l, D
      <4>3. D < l
        BY <1>5, <2>8, <4>1, <4>2
      <4> QED
        BY <3>3, <4>3 DEF l
    <3> SUFFICES ASSUME W <= e PROVE FALSE
      <4> HIDE DEF W, e
      <4>1. ~(W <= e) => e < W
        BY <2>7, <3>2
      <4> QED
        BY <4>1 DEF W
    <3> HIDE DEF W, e
    <3>7. w * W <= w * e
      BY <2>5, <2>7, <3>2, Products
    <3> DEFINE l == w * W
    <3>8. l \in Nat
      BY <2>5, <3>2, Products
    <3>9. l <= D /\ D < l
      BY <3>6, <3>7
    <3> HIDE DEF l, D
    <3> QED
      BY <2>8, <3>8, <3>9
  <2>12. r \in Seq(Blocks) /\ Len(r) = m - i /\ Value(r) = e
    <3>1. Len(sh) <= Len(hi) /\ Value(hi) + Value(sh) < Weight(Len(hi))
      BY <2>2, <2>3, <2>4, <2>11
    <3> HIDE DEF e
    <3> QED
      BY <2>3, <2>4, <3>1, SumThatFits DEF e
  <2> HIDE DEF r, e
  <2>13. Value(lo \o r) = L + D
    BY <2>3, <2>12, ConcatValue
  <2>14. Value(a) = L + D
    BY <1>7, <1>9, <2>13
  <2>15. (L + D) + C = g
    <3> HIDE DEF A, B, C, D, L
    <3> QED
      BY <1>5, <2>8, <2>9, <2>10
  <2> QED
    BY <2>14, <2>15 DEF a, t, g, vy
<1> QED
  BY <1>8, <1>9

\* Blocks that are all 0 stand for 0.
LEMMA ZeroBlocks ==
  ASSUME NEW n \in Nat
  PROVE  Zeros(n) \in Seq(Blocks) /\ Len(Zeros(n)) = n /\ Value(Zeros(n)) = 0
<1> DEFINE z == Zeros(n)
           e == <<>>
<1>1. 0 \in Blocks
  BY BaseType DEF Blocks
<1>2. z \in [1 .. n -> Blocks] /\ \A k \in 1 .. n : z[k] = 0
  BY <1>1 DEF Zeros
<1> HIDE DEF z
<1>3. z \in Seq(Blocks) /\ Len(z) = n
  <2>1. z \in Seq(Blocks)
    BY <1>2, SeqDef
  <2> QED
    BY <1>2, <2>1
<1>4. e \in Seq(Blocks) /\ Len(e) = 0 /\ Value(e) = 0
  BY ValueOfFew
<1>5. ASSUME NEW k \in Nat, k > 0 PROVE Block(z, k) = Block(e, k)
  <2>1. Block(e, k) = 0
    <3> HIDE DEF e
    <3> QED
      BY <1>4, <1>5, BlocksType
  <2>2. CASE k \in 1 .. n
    <3>1. Block(z, k) = z[k]
      BY <1>3, <2>2, BlocksType
    <3> QED
      BY <1>2, <2>1, <2>2, <3>1
  <2>3. CASE k > n
    BY <1>3, <2>1, <2>3, BlocksType
  <2>4. k \in 1 .. n \/ k > n
    BY <1>5
  <2> QED
    BY <2>2, <2>3, <2>4
<1> HIDE DEF e
<1>6. From(z, 0) = From(e, 0)
  BY <1>3, <1>4, <1>5, SameBlocks, 0 \in Nat
<1> QED
  BY <1>3, <1>4, <1>6, ValueIsFrom DEF z

\* A canonical number is at least the weight of its last block.
LEMMA CanonicalIsLong ==
  ASSUME NEW x \in Seq(Blocks), Canonical(x), x # <<>>
  PROVE  Len(x) - 1 \in Nat /\ Weight(Len(x) - 1) <= Value(x)
<1> DEFINE n == Len(x)
           k == n - 1
           a == SubSeq(x, 1, k)
           f == From(x, k)
           w == Weight(k)
<1>1. n \in Nat /\ n >= 1 /\ k \in Nat /\ k \in 0 .. n /\ k + 1 = n
  OBVIOUS
<1>2. a \in Seq(Blocks) /\ Len(a) = k /\ Value(a) \in Nat
  BY <1>1, CutValue, ValueIsFrom
<1>3. ASSUME NEW j \in 1 .. k PROVE Block(x, j) = Block(a, j)
  <2>1. j \in 1 .. n /\ j \in 1 .. Len(a)
    BY <1>1, <1>2
  <2>2. Block(x, j) = x[j] /\ Block(a, j) = a[j]
    BY <1>2, <2>1, BlocksType
  <2>3. a[j] = x[j]
    BY <1>1
  <2> QED
    BY <2>2, <2>3
<1> HIDE DEF a
<1>4. Value(x) = Value(a) + w * f
  <2> HIDE DEF k
  <2>1. Len(a) <= k
    BY <1>1, <1>2
  <2> QED
    BY <1>1, <1>2, <1>3, <2>1, SplitValue
<1>5. w \in Nat
  BY <1>1, Weights
<1>6. f \in Nat /\ f # 0
  <2>1. Last(x) = Block(x, n) /\ Last(x) # 0 /\ Block(x, n) \in Blocks
    BY <1>1, LastBlock, BlocksType DEF Canonical
  <2>2. f = Block(x, k + 1) + Base * From(x, k + 1) /\ f \in Nat /\ From(x, k + 1) = 0
    <3> HIDE DEF k
    <3>1. k + 1 \in Nat /\ k + 1 >= Len(x)
      BY <1>1
    <3> QED
      BY <1>1, <3>1, FromFacts
  <2>3. Block(x, k + 1) = Block(x, n)
    BY <1>1
  <2>4. Block(x, n) \in Nat /\ Block(x, n) # 0
    BY <2>1, BaseType DEF Blocks
  <2> HIDE DEF f
  <2> QED
    BY <2>2, <2>3, <2>4, BaseType
<1> HIDE DEF f, w
<1>7. w <= w * f
  <2>1. w * 1 = w /\ 1 \in Nat /\ 1 <= f
    BY <1>5, <1>6
  <2> QED
    BY <1>5, <1>6, <2>1, Products
<1>8. w <= Value(x)
  <2> DEFINE m == w * f
  <2>1. m \in Nat /\ w <= m /\ Value(x) = Value(a) + m
    BY <1>4, <1>5, <1>6, <1>7, Products
  <2> HIDE DEF m
  <2> QED
    BY <1>2, <1>5, <2>1
<1> QED
  BY <1>1, <1>8 DEF w

\* A number whose last blocks are zero is less than the weight of the first.
LEMMA ZerosAbove ==
  ASSUME NEW x \in Seq(Blocks), NEW i \in 0 .. Len(x), \A k \in i + 1 .. Len(x) : Block(x, k) = 0
  PROVE  Value(x) < Weight(i)
<1> DEFINE n == Len(x)
           a == SubSeq(x, 1, i)
<1>1. n \in Nat /\ i \in Nat
  OBVIOUS
<1>2. a \in Seq(Blocks) /\ Len(a) = i
  BY CutValue
<1>3. ASSUME NEW j \in Nat, j > 0 PROVE Block(x, j) = Block(a, j)
  <2>1. CASE j <= i
    <3>1. j \in 1 .. n /\ j \in 1 .. Len(a) /\ j \in 1 .. i
      BY <1>1, <1>2, <1>3, <2>1
    <3>2. Block(x, j) = x[j] /\ Block(a, j) = a[j]
      BY <1>2, <3>1, BlocksType
    <3>3. a[j] = x[j]
      BY <1>1, <3>1
    <3> QED
      BY <3>2, <3>3
  <2>2. CASE j > i
    <3>1. Block(a, j) = 0
      BY <1>2, <2>2, BlocksType
    <3>2. j \in i + 1 .. n => Block(x, j) = 0
      OBVIOUS
    <3>3. j > n => Block(x, j) = 0
      BY BlocksType
    <3>4. j \in i + 1 .. n \/ j > n
      BY <1>1, <2>2
    <3> QED
      BY <3>1, <3>2, <3>3, <3>4
  <2>3. j <= i \/ j > i
    BY <1>1
  <2> QED
    BY <2>1, <2>2, <2>3
<1> HIDE DEF a
<1>4. From(x, 0) = From(a, 0)
  BY <1>2, <1>3, SameBlocks, 0 \in Nat
<1>5. Value(x) = Value(a)
  BY <1>2, <1>4, ValueIsFrom
<1>6. Len(a) <= i
  BY <1>1, <1>2
<1>7. Value(a) < Weight(i)
  BY <1>1, <1>2, <1>6, BelowWeight
<1> QED
  BY <1>5, <1>7

\* multiply() returns the canonical blocks of the product.
THEOREM MultiplicationIsRight ==
  ASSUME NEW x \in Seq(Blocks), NEW y \in Seq(Blocks), Canonical(x), Canonical(y)
  PROVE  /\ multiply(x, y) \in Seq(Blocks)
         /\ Canonical(multiply(x, y))
         /\ Value(multiply(x, y)) = Value(x) * Value(y)
<1>1. Value(x) \in Nat /\ Value(y) \in Nat
  BY ValueIsFrom
<1>2. CASE x = <<>> \/ y = <<>>
  <2>1. multiply(x, y) = <<>>
    BY <1>2, Zenon DEF multiply
  <2>2. Value(x) * Value(y) = 0
    <3>1. Value(x) = 0 \/ Value(y) = 0
      BY <1>2, ValueOfFew
    <3> QED
      BY <1>1, <3>1
  <2>3. multiply(x, y) \in Seq(Blocks) /\ Canonical(multiply(x, y))
    BY <2>1 DEF Canonical
  <2>4. Value(multiply(x, y)) = 0
    BY <2>1, ValueOfFew
  <2> QED
    BY <2>2, <2>3, <2>4
<1>3. CASE x # <<>> /\ y # <<>>
  <2> DEFINE l == Len(x) + Len(y)
             n == Len(x) * N
             P == {z \in Seq(Blocks) : Len(z) = l}
             g == Value(x) * Value(y)
             v == Value(y)
  <2>1. l \in Nat /\ l >= 2 /\ n \in Nat /\ g \in Nat /\ Len(x) \in Nat /\ Len(y) \in Nat
    <3>1. Len(x) \in Nat /\ Len(y) \in Nat /\ Len(x) >= 1 /\ Len(y) >= 1
      BY <1>3
    <3> QED
      BY <1>1, <3>1, BlockAssumption, Products
  <2>2. Zeros(l) \in P /\ Value(Zeros(l)) = 0
    BY <2>1, ZeroBlocks
  <2>3. ASSUME NEW z \in P, NEW b \in 0 .. n - 1 PROVE AddShifted(x, y, z, b) \in P
    BY TurnType
  <2>4. PICK f : /\ f[0] = Zeros(l)
                 /\ \A k \in 1 .. n : f[k] = AddShifted(x, y, f[k - 1], k - 1)
                 /\ multiply(x, y) = zapLeadingZero(f[n])
    <3> HIDE DEF P
    <3> QED
      BY <1>3, <2>2, <2>3, MultiplyFolds
  <2> DEFINE R(k) == f[k] \in P /\ Value(f[k]) + Rest(x, k) * v = g
             T == {k \in Nat : k <= n => R(k)}
  <2>5. R(0)
    <3>1. Rest(x, 0) * v = g
      BY RestEnds
    <3>2. 0 + g = g
      BY <2>1
    <3> HIDE DEF P, g, v
    <3> QED
      BY <2>2, <2>4, <3>1, <3>2
  <2>6. ASSUME NEW k \in Nat, k < n, R(k) PROVE R(k + 1)
    <3>1. k + 1 \in 1 .. n /\ k \in 0 .. n - 1 /\ (k + 1) - 1 = k
      <4> HIDE DEF n
      <4> QED
        BY <2>1, <2>6
    <3>2. f[k + 1] = AddShifted(x, y, f[k], k)
      <4> HIDE DEF n
      <4> QED
        BY <2>4, <3>1
    <3>3. AddShifted(x, y, f[k], k) \in P
      BY <2>3, <2>6, <3>1
    <3>4. f[k] \in Seq(Blocks) /\ Len(f[k]) = Len(x) + Len(y)
      BY <2>6
    <3>5. Value(f[k]) + Rest(x, k) * Value(y) = Value(x) * Value(y)
      BY <2>6
    <3>6. Value(AddShifted(x, y, f[k], k)) + Rest(x, k + 1) * Value(y) = Value(x) * Value(y)
      BY <3>1, <3>4, <3>5, TurnValue
    <3> HIDE DEF P
    <3> QED
      BY <3>2, <3>3, <3>6
  <2> HIDE DEF R
  <2>7. 0 \in T
    BY <2>5
  <2>8. ASSUME NEW k \in T PROVE k + 1 \in T
    <3> SUFFICES ASSUME k + 1 <= n PROVE R(k + 1)
      OBVIOUS
    <3> HIDE DEF n
    <3>1. k \in Nat /\ k < n /\ R(k)
      BY <2>1
    <3> QED
      BY <2>6, <3>1
  <2>9. R(n)
    <3> HIDE DEF T
    <3>1. T \in SUBSET Nat
      BY DEF T
    <3>2. T = Nat
      BY <2>7, <2>8, <3>1, Induct
    <3>3. n \in T /\ n <= n
      BY <2>1, <3>2
    <3> HIDE DEF n
    <3> QED
      BY <3>3 DEF T
  <2> DEFINE z == f[n]
  <2>10. z \in Seq(Blocks) /\ Len(z) = l /\ Value(z) = g
    <3>1. z \in Seq(Blocks) /\ Len(z) = l /\ Value(z) + Rest(x, n) * v = g
      BY <2>9 DEF R
    <3>2. Rest(x, n) = 0 /\ 0 * v = 0
      BY <1>1, RestEnds
    <3>3. Value(z) \in Nat
      BY <3>1, ValueIsFrom
    <3> HIDE DEF z, g, v, l, n
    <3> QED
      BY <3>1, <3>2, <3>3
  <2>11. multiply(x, y) = zapLeadingZero(z)
    BY <2>4
  <2> HIDE DEF z
  <2>12. ~(Block(z, l) = 0 /\ Block(z, l - 1) = 0)
    <3> SUFFICES ASSUME Block(z, l) = 0, Block(z, l - 1) = 0 PROVE FALSE
      OBVIOUS
    <3> DEFINE i == Len(x) - 1
               j == Len(y) - 1
    <3>1. /\ i \in Nat /\ Weight(i) <= Value(x)
          /\ j \in Nat /\ Weight(j) <= Value(y)
      BY <1>3, CanonicalIsLong
    <3>2. i + j = l - 2
      BY <2>1
    <3>3. g < Weight(i + j)
      <4>1. l - 2 \in 0 .. l /\ \A k \in (l - 2) + 1 .. l : k = l - 1 \/ k = l
        <5> HIDE DEF l
        <5> QED
          BY <2>1
      <4> HIDE DEF l
      <4>2. \A k \in (l - 2) + 1 .. l : Block(z, k) = 0
        BY <4>1
      <4>3. Value(z) < Weight(l - 2)
        BY <2>10, <4>1, <4>2, ZerosAbove
      <4> QED
        BY <2>10, <3>2, <4>3
    <3> DEFINE a == Weight(i)
               b == Weight(j)
               c == Value(x)
    <3>4. a \in Nat /\ b \in Nat /\ c \in Nat /\ Weight(i + j) = a * b
      <4> HIDE DEF i, j
      <4> QED
        BY <1>1, <3>1, Weights, WeightOfSum
    <3>5. a <= c /\ b <= v /\ g = c * v /\ v \in Nat /\ g < a * b
      BY <1>1, <3>1, <3>3, <3>4
    <3> HIDE DEF a, b, c, v, g
    <3>6. a * b <= a * v
      BY <3>4, <3>5, Products
    <3>7. v * a <= v * c /\ v * a = a * v /\ v * c = c * v
      BY <3>4, <3>5, Products
    <3> DEFINE p == a * b
               q == a * v
               r == c * v
    <3>8. p \in Nat /\ q \in Nat /\ r \in Nat
      BY <3>4, <3>5, Products
    <3>9. p <= q /\ q <= r /\ r < p
      BY <3>5, <3>6, <3>7
    <3> HIDE DEF p, q, r
    <3> QED
      BY <3>8, <3>9
  <2>13. Last(z) = Block(z, l) /\ z # <<>>
    <3>1. z # <<>>
      BY <2>1, <2>10
    <3> QED
      BY <2>10, <3>1, LastBlock
  <2> HIDE DEF l, g
  <2>14. zapLeadingZero(z) \in Seq(Blocks) /\ Value(zapLeadingZero(z)) = g
    BY <2>10, <2>13, ZapOneFacts
  <2>15. Canonical(zapLeadingZero(z))
    <3>1. CASE Last(z) # 0
      BY <2>10, <2>13, <3>1, ZapOneFacts
    <3>2. CASE Last(z) = 0
      <4>1. Len(z) > 1 /\ Block(z, Len(z) - 1) # 0
        BY <2>1, <2>10, <2>12, <2>13, <3>2
      <4> QED
        BY <2>10, <2>13, <4>1, ZapOneFacts
    <3> QED
      BY <3>1, <3>2
  <2> QED
    BY <2>11, <2>14, <2>15 DEF g
<1> QED
  BY <1>2, <1>3

-----------------------------------------------------------------------------
(* The numbers of bits                                                       *)

\* What bit b stands for: 1 for the first one, and twice as much for the next.
Unit(b) == Weight(b \div N) * 2 ^ (b % N)

\* A bit stands for twice what the bit below it stands for.
LEMMA Units ==
  ASSUME NEW b \in Nat
  PROVE  Unit(b) \in Nat \ {0} /\ Unit(b + 1) = 2 * Unit(b)
<1> DEFINE i == b \div N
           s == b % N
           w == Weight(i)
           p == 2 ^ s
<1>1. i \in Nat /\ s \in 0 .. N - 1
  BY BitPlaces
<1> HIDE DEF i, s
<1>2. w \in Nat \ {0} /\ p \in Nat \ {0} /\ 2 ^ (s + 1) = 2 * p
  BY <1>1, Weights, OneBit, 0 \in Nat
<1>3. w * (2 * p) = 2 * (w * p)
  <2>1. w * (2 * p) = (w * 2) * p /\ w * 2 = 2 * w /\ (2 * w) * p = 2 * (w * p)
    BY <1>2, Products
  <2> QED
    BY <2>1
<1>4. w * p \in Nat \ {0}
  <2>1. w * 1 <= w * p /\ w * 1 = w /\ w * p \in Nat
    BY <1>2, Products
  <2> DEFINE m == w * p
  <2>2. w <= m /\ m \in Nat
    BY <2>1
  <2> HIDE DEF m
  <2>3. m # 0
    BY <1>2, <2>2
  <2> QED
    BY <2>2, <2>3 DEF m
<1>5. Unit(b + 1) = w * 2 ^ (s + 1)
  <2>1. CASE s + 1 < N
    BY <2>1, BitPlaces DEF Unit, i, s
  <2>2. CASE s + 1 = N
    <3>1. Unit(b + 1) = Weight(i + 1) * 2 ^ 0
      BY <2>2, BitPlaces DEF Unit, i, s
    <3>2. Weight(i + 1) = Base * w /\ Base * w = w * Base /\ Weight(i + 1) \in Nat
      BY <1>1, <1>2, Weights, BaseType, Products
    <3>3. Weight(i + 1) * 2 ^ 0 = Weight(i + 1)
      BY <3>2, PowerAssumption
    <3> QED
      BY <2>2, <3>1, <3>2, <3>3 DEF Base
  <2>3. s + 1 < N \/ s + 1 = N
    BY <1>1, BlockAssumption
  <2> QED
    BY <2>1, <2>2, <2>3
<1> QED
  BY <1>2, <1>3, <1>4, <1>5 DEF Unit, i, s

\* The first bit of a block stands for the weight of the block.
LEMMA BlockUnits ==
  ASSUME NEW n \in Nat
  PROVE  Unit(n * N) = Weight(n)
<1>1. N \in Nat \ {0} /\ Weight(n) \in Nat
  BY BlockAssumption, Weights
<1>2. (n * N) \div N = n /\ (n * N) % N = 0
  <2>1. n * N \in Nat /\ n * N = N * n
    BY <1>1, Products
  <2> DEFINE c == n * N
  <2>2. c \in Nat /\ c = N * n + 0
    BY <2>1
  <2> HIDE DEF c
  <2>3. c \div N = n /\ c % N = 0
    BY <1>1, <2>2, QuotientIs, 0 \in Nat, 0 < N
  <2> QED
    BY <2>3 DEF c
<1>3. Unit(n * N) = Weight(n) * 2 ^ 0
  BY <1>2 DEF Unit
<1>4. Weight(n) * 2 ^ 0 = Weight(n)
  BY <1>1, PowerAssumption
<1> QED
  BY <1>3, <1>4

\* The first bit of all stands for 1.
LEMMA FirstUnit ==
  Unit(0) = 1
<1>1. Unit(0 * N) = Weight(0)
  BY BlockUnits, 0 \in Nat
<1>2. 0 * N = 0
  BY BlockAssumption
<1> QED
  BY <1>1, <1>2, Weights

-----------------------------------------------------------------------------
(* Parts of numbers                                                          *)

\* A number, cut in three.
LEMMA CutTwice ==
  ASSUME NEW z \in Seq(Blocks), NEW t \in 0 .. Len(z), NEW i \in 0 .. t
  PROVE  /\ SubSeq(z, 1, i) \in Seq(Blocks) /\ Len(SubSeq(z, 1, i)) = i
         /\ SubSeq(z, i + 1, t) \in Seq(Blocks) /\ Len(SubSeq(z, i + 1, t)) = t - i
         /\ SubSeq(z, t + 1, Len(z)) \in Seq(Blocks)
         /\ Len(SubSeq(z, t + 1, Len(z))) = Len(z) - t
         /\ Value(z) = Value(SubSeq(z, 1, i)) +
                       Weight(i) * (Value(SubSeq(z, i + 1, t)) +
                                    Weight(t - i) * Value(SubSeq(z, t + 1, Len(z))))
<1> DEFINE n == Len(z)
           a == SubSeq(z, 1, i)
           r == SubSeq(z, i + 1, n)
           m == SubSeq(z, i + 1, t)
           h == SubSeq(z, t + 1, n)
<1>1. n \in Nat /\ t \in Nat /\ i \in Nat /\ i <= t /\ t <= n /\ i \in 0 .. n
  OBVIOUS
<1>2. /\ a \in Seq(Blocks) /\ Len(a) = i /\ r \in Seq(Blocks) /\ Len(r) = n - i
      /\ Value(z) = Value(a) + Weight(i) * Value(r)
  BY <1>1, CutValue
<1>3. \A k \in 1 .. n - i : r[k] = z[k + i]
  BY <1>1
<1>4. m \in Seq(Blocks) /\ Len(m) = t - i /\ \A k \in 1 .. t - i : m[k] = z[k + i]
  <2>1. \A k \in i + 1 .. t : z[k] \in Blocks
    BY <1>1
  <2>2. i + 1 \in Int /\ t \in Int
    BY <1>1
  <2>3. m \in Seq(Blocks) /\ Len(m) = IF i + 1 <= t THEN t - (i + 1) + 1 ELSE 0
    BY <2>1, <2>2, SubSeqProperties
  <2>4. \A k \in 1 .. t - i : m[k] = z[k + i]
    BY <1>1
  <2> QED
    BY <1>1, <2>3, <2>4
<1>5. h \in Seq(Blocks) /\ Len(h) = n - t /\ \A k \in 1 .. n - t : h[k] = z[k + t]
  <2>1. h \in Seq(Blocks) /\ Len(h) = n - t
    BY <1>1, CutValue
  <2>2. \A k \in 1 .. n - t : h[k] = z[k + t]
    BY <1>1
  <2> QED
    BY <2>1, <2>2
<1> HIDE DEF a, r, m, h
<1>6. t - i \in 0 .. Len(r) /\ Len(r) - (t - i) = n - t
  BY <1>1, <1>2
<1> DEFINE j == t - i
           b == SubSeq(r, 1, j)
           c == SubSeq(r, j + 1, Len(r))
<1>7. /\ b \in Seq(Blocks) /\ Len(b) = j /\ c \in Seq(Blocks) /\ Len(c) = n - t
      /\ Value(r) = Value(b) + Weight(j) * Value(c)
  <2> HIDE DEF j
  <2>1. j \in 0 .. Len(r) /\ Len(r) - j = n - t
    BY <1>6 DEF j
  <2> QED
    BY <1>2, <2>1, CutValue
<1>8. b = m
  <2>1. \A k \in 1 .. j : b[k] = r[k]
    BY <1>1, <1>2
  <2> HIDE DEF b
  <2>2. \A k \in 1 .. j : k \in 1 .. n - i
    BY <1>1
  <2>3. \A k \in 1 .. j : b[k] = m[k]
    BY <1>3, <1>4, <2>1, <2>2
  <2>4. Len(b) = Len(m) /\ DOMAIN b = 1 .. j /\ DOMAIN m = 1 .. j
    BY <1>1, <1>4, <1>7
  <2> QED
    BY <1>4, <1>7, <2>3, <2>4, SeqEqual
<1>9. c = h
  <2>1. \A k \in 1 .. n - t : c[k] = r[k + j]
    BY <1>1, <1>2, <1>6
  <2> HIDE DEF c
  <2>2. \A k \in 1 .. n - t : k + j \in 1 .. n - i /\ (k + j) + i = k + t
    BY <1>1
  <2>3. \A k \in 1 .. n - t : c[k] = h[k]
    BY <1>3, <1>5, <2>1, <2>2
  <2>4. Len(c) = Len(h) /\ Len(c) = n - t
    BY <1>1, <1>5, <1>7
  <2> QED
    BY <1>5, <1>7, <2>3, <2>4, SeqEqual
<1> HIDE DEF b, c
<1>10. Value(r) = Value(m) + Weight(t - i) * Value(h)
  BY <1>7, <1>8, <1>9
<1> QED
  BY <1>2, <1>4, <1>5, <1>10 DEF a, m, h

\* A number of which one block is replaced.
LEMMA ChangeBlock ==
  ASSUME NEW x \in Seq(Blocks), NEW i \in Nat, i < Len(x), NEW c \in Blocks
  PROVE  LET z == [x EXCEPT ![i + 1] = c]
         IN /\ z \in Seq(Blocks) /\ Len(z) = Len(x)
            /\ \A k \in Nat : Block(z, k) = IF k = i + 1 THEN c ELSE Block(x, k)
            /\ Value(z) + Weight(i) * Block(x, i + 1) = Value(x) + Weight(i) * c
<1> DEFINE z == [x EXCEPT ![i + 1] = c]
           n == Len(x)
           a == SubSeq(x, 1, i)
<1>1. n \in Nat /\ i + 1 \in 1 .. n /\ i \in 0 .. n
  OBVIOUS
<1>2. z \in Seq(Blocks) /\ Len(z) = n
  OBVIOUS
<1>3. \A k \in 1 .. n : z[k] = IF k = i + 1 THEN c ELSE x[k]
  BY <1>1
<1> HIDE DEF z
<1>4. ASSUME NEW k \in Nat PROVE Block(z, k) = IF k = i + 1 THEN c ELSE Block(x, k)
  <2>1. DOMAIN z = 1 .. n /\ DOMAIN x = 1 .. n
    BY <1>2
  <2>2. CASE k \in 1 .. n
    BY <1>3, <2>1, <2>2 DEF Block
  <2>3. CASE k \notin 1 .. n
    BY <1>1, <2>1, <2>3 DEF Block
  <2> QED
    BY <2>2, <2>3
<1>5. a \in Seq(Blocks) /\ Len(a) = i /\ Value(a) \in Nat
  BY <1>1, CutValue, ValueIsFrom
<1>6. ASSUME NEW k \in 1 .. i PROVE Block(x, k) = Block(a, k) /\ Block(z, k) = Block(a, k)
  <2>1. k \in 1 .. n /\ k \in 1 .. Len(a) /\ k \in Nat /\ k # i + 1
    BY <1>1, <1>5
  <2>2. Block(x, k) = x[k] /\ Block(a, k) = a[k]
    BY <1>5, <2>1, BlocksType
  <2>3. a[k] = x[k]
    BY <1>1
  <2> QED
    BY <1>4, <2>1, <2>2, <2>3
<1> HIDE DEF a
<1>7. Value(x) = Value(a) + Weight(i) * From(x, i) /\ Value(z) = Value(a) + Weight(i) * From(z, i)
  <2>1. Len(a) <= i
    BY <1>5
  <2> QED
    BY <1>2, <1>5, <1>6, <2>1, SplitValue
<1> DEFINE f == From(x, i + 1)
           b == Block(x, i + 1)
           w == Weight(i)
<1>8. From(z, i + 1) = f
  <2>1. i + 1 \in Nat /\ \A k \in Nat : k > i + 1 => Block(z, k) = Block(x, k)
    BY <1>4
  <2> QED
    BY <1>2, <2>1, SameBlocks
<1>9. Block(z, i + 1) = c
  <2>1. i + 1 \in Nat
    OBVIOUS
  <2> QED
    BY <1>4, <2>1
<1>10. From(x, i) = b + Base * f /\ From(z, i) = c + Base * f
  BY <1>2, <1>8, <1>9, FromFacts
<1>11. b \in Nat /\ c \in Nat /\ Base * f \in Nat /\ w \in Nat
  <2>1. i + 1 \in Nat
    OBVIOUS
  <2>2. Block(x, i + 1) \in Blocks /\ f \in Nat
    BY <2>1, BlocksType, FromFacts
  <2>3. b \in Nat /\ c \in Nat
    BY <2>2, BaseType DEF Blocks
  <2>4. Base * f \in Nat
    BY <2>2, BaseType, Products
  <2>5. w \in Nat
    BY Weights
  <2> QED
    BY <2>3, <2>4, <2>5
<1> DEFINE g == Base * f
<1> HIDE DEF f, b, w, g
<1>12. w * (b + g) = w * b + w * g /\ w * (c + g) = w * c + w * g
  BY <1>11, Products DEF g
<1> DEFINE B == w * b
           C == w * c
           G == w * g
           A == Value(a)
<1>13. B \in Nat /\ C \in Nat /\ G \in Nat /\ A \in Nat
  BY <1>5, <1>11, Products DEF g
<1>14. Value(x) = A + (B + G) /\ Value(z) = A + (C + G)
  BY <1>7, <1>10, <1>12 DEF w, g
<1> HIDE DEF A, B, C, G
<1>15. Value(z) + B = Value(x) + C
  BY <1>13, <1>14
<1> QED
  BY <1>2, <1>4, <1>15 DEF z, B, C, w, b

-----------------------------------------------------------------------------
(* Bits that are set                                                         *)

\* Setting a bit of a block keeps it a block.
LEMMA SetInBlock ==
  ASSUME NEW b \in Blocks, NEW s \in 0 .. N - 1
  PROVE  /\ BitOf(b, s) \in {0, 1}
         /\ b + (1 - BitOf(b, s)) * 2 ^ s \in Blocks \ {0}
<1> DEFINE p == 2 ^ s
           q == 2 ^ (s + 1)
           u == 2 ^ (N - (s + 1))
           t == BitOf(b, s)
           h == b \div p
           k == b \div q
<1>1. /\ p \in Nat \ {0} /\ q \in Nat \ {0} /\ q = 2 * p
      /\ u \in Nat \ {0} /\ q * u = Base
  <2>1. s + 1 \in 0 .. N
    BY BlockAssumption
  <2>2. p \in Nat \ {0} /\ q = 2 * p
    BY PowerAssumption
  <2> QED
    BY <2>1, <2>2, Powers
<1>2. b \in Nat /\ b < Base /\ Base \in Nat
  BY BaseType DEF Blocks
<1>3. t \in {0, 1} /\ p * h = q * k + t * p
  BY <1>2, OneBit
<1> HIDE DEF p, q, u, t
<1>4. h \in Nat /\ b % p \in Nat /\ b % p < p /\ b = p * h + (b % p)
  BY <1>1, <1>2, Quotients
<1>5. k \in Nat /\ b % q \in Nat /\ b % q < q /\ b = q * k + (b % q)
  BY <1>1, <1>2, Quotients
<1> DEFINE r == b % p
           r2 == b % q
<1> HIDE DEF h, k, r, r2
<1>6. CASE t = 1
  <2>1. b + (1 - t) * p = b
    BY <1>1, <1>2, <1>6
  <2>2. b # 0
    <3> SUFFICES ASSUME b = 0 PROVE FALSE
      OBVIOUS
    <3>1. p * h \in Nat /\ q * k \in Nat /\ t * p = p
      BY <1>1, <1>4, <1>5, <1>6, Products
    <3> DEFINE m == p * h
               n == q * k
    <3>2. m \in Nat /\ n \in Nat /\ m = n + p /\ b = m + r
      BY <1>3, <1>4, <3>1 DEF r
    <3> HIDE DEF m, n
    <3> QED
      BY <1>1, <1>4, <3>2 DEF r
  <2> QED
    BY <1>3, <2>1, <2>2 DEF t, p
<1>7. CASE t = 0
  <2>1. p * h = q * k
    <3>1. t * p = 0 /\ q * k \in Nat
      BY <1>1, <1>5, <1>7, Products
    <3> QED
      BY <1>3, <3>1
  <2>2. k < u
    <3> SUFFICES ASSUME u <= k PROVE FALSE
      BY <1>1, <1>5
    <3>1. q * u <= q * k /\ q * k \in Nat
      BY <1>1, <1>5, Products
    <3> DEFINE n == q * k
    <3>2. n \in Nat /\ Base <= n /\ b = n + r2
      BY <1>1, <1>5, <3>1 DEF r2
    <3> HIDE DEF n
    <3> QED
      BY <1>2, <1>5, <3>2 DEF r2
  <2>3. q * k + q <= Base /\ q * k \in Nat
    BY <1>1, <1>5, <2>2, Products
  <2> DEFINE n == q * k
  <2>4. n \in Nat /\ n + q <= Base /\ b = n + r
    BY <1>4, <2>1, <2>3 DEF r
  <2> HIDE DEF n
  <2>5. b + p \in Nat /\ b + p < Base /\ b + p # 0
    BY <1>1, <1>2, <1>4, <2>4 DEF r
  <2>6. b + (1 - t) * p = b + p
    BY <1>1, <1>2, <1>7
  <2>7. b + p \in Blocks \ {0}
    BY <1>2, <2>5 DEF Blocks
  <2> QED
    BY <1>3, <2>6, <2>7 DEF t, p
<1> QED
  BY <1>3, <1>6, <1>7

\* The bits of q below the s-th of block i are clear.
Clear(q, i, s) ==
  /\ \E k \in Nat : Block(q, i + 1) = 2 ^ s * k
  /\ \A j \in 1 .. i : Block(q, j) = 0

\* The bits of q below bit b are clear.
LowClear(q, b) == Clear(q, b \div N, b % N)

\* Where the bits below bit s + 1 are clear, bit s is, and to set it leaves those
\* below it clear.
LEMMA ClearBit ==
  ASSUME NEW q, NEW i \in Nat, NEW s \in 0 .. N - 1, Clear(q, i, s + 1)
  PROVE  /\ Clear(q, i, s) /\ BitOf(Block(q, i + 1), s) = 0
         /\ \E k \in Nat : Block(q, i + 1) + 2 ^ s = 2 ^ s * k
<1> DEFINE p == 2 ^ s
           b == Block(q, i + 1)
<1>1. p \in Nat \ {0} /\ 2 ^ (s + 1) = 2 * p
  BY PowerAssumption
<1>2. PICK k \in Nat : b = 2 ^ (s + 1) * k
  BY DEF Clear
<1> HIDE DEF p, b
<1>3. b = p * (2 * k)
  <2>1. (2 * p) * k = (p * 2) * k /\ (p * 2) * k = p * (2 * k)
    BY <1>1, Products
  <2> QED
    BY <1>1, <1>2, <2>1
<1>4. 2 * k \in Nat /\ (2 * k) % 2 = 0
  OBVIOUS
<1> DEFINE h == 2 * k
<1> HIDE DEF h
<1>5. h \in Nat /\ h % 2 = 0 /\ b = p * h /\ b \in Nat
  BY <1>1, <1>3, <1>4, Products DEF h
<1>6. b \div p = h
  <2>1. b = p * h + 0 /\ 0 < p /\ 0 \in Nat
    BY <1>1, <1>5
  <2> QED
    BY <1>1, <1>5, <2>1, QuotientIs
<1>7. BitOf(b, s) = 0
  BY <1>5, <1>6 DEF BitOf, p
<1>8. p * (h + 1) = p * h + p * 1 /\ p * 1 = p /\ h + 1 \in Nat
  BY <1>1, <1>5, Products
<1>9. b + p = p * (h + 1)
  BY <1>5, <1>8
<1>10. \A j \in 1 .. i : Block(q, j) = 0
  BY DEF Clear
<1> QED
  BY <1>5, <1>7, <1>8, <1>9, <1>10 DEF Clear, b, p

\* The bits below b + 1, seen from the block of b.
LEMMA ClearStep ==
  ASSUME NEW q, NEW b \in Nat, LowClear(q, b + 1)
  PROVE  Clear(q, b \div N, (b % N) + 1)
<1> DEFINE i == b \div N
           s == b % N
<1>1. i \in Nat /\ s \in 0 .. N - 1
  BY BitPlaces
<1>2. CASE s + 1 < N
  BY <1>2, BitPlaces DEF LowClear
<1>3. CASE s + 1 = N
  <2>1. Clear(q, i + 1, 0)
    BY <1>3, BitPlaces DEF LowClear
  <2> HIDE DEF i, s
  <2>2. Block(q, i + 1) = 0 /\ \A j \in 1 .. i : Block(q, j) = 0
    <3>1. i + 1 \in 1 .. i + 1 /\ \A j \in 1 .. i : j \in 1 .. i + 1
      BY <1>1
    <3> QED
      BY <2>1, <3>1 DEF Clear
  <2>3. 2 ^ N * 0 = 0
    BY BaseType DEF Base
  <2>4. \E k \in Nat : Block(q, i + 1) = 2 ^ N * k
    <3>1. 0 \in Nat
      OBVIOUS
    <3> QED
      BY <2>2, <2>3, <3>1, Zenon
  <2>5. Clear(q, i, N)
    BY <2>2, <2>4, Zenon DEF Clear
  <2> QED
    BY <1>3, <2>5 DEF i, s
<1>4. s + 1 < N \/ s + 1 = N
  <2> HIDE DEF s
  <2> QED
    BY <1>1, BlockAssumption
<1> QED
  BY <1>2, <1>3, <1>4

\* setBit(b, true) within a number.
LEMMA SetBitFacts ==
  ASSUME NEW q \in Seq(Blocks), NEW b \in Nat, b \div N < Len(q)
  PROVE  /\ setBit(q, b, 1) \in Seq(Blocks) /\ Len(setBit(q, b, 1)) = Len(q)
         /\ LowClear(q, b + 1) =>
              /\ LowClear(q, b) /\ LowClear(setBit(q, b, 1), b)
              /\ Value(setBit(q, b, 1)) = Value(q) + Unit(b)
<1> DEFINE i == b \div N
           s == b % N
           o == Block(q, i + 1)
           t == BitOf(o, s)
           c == o + (1 - t) * 2 ^ s
           z == [q EXCEPT ![i + 1] = c]
<1>1. i \in Nat /\ s \in 0 .. N - 1 /\ i < Len(q)
  BY BitPlaces
<1>2. setBit(q, b, 1) = z
  <2>1. c # 0
    <3> HIDE DEF i, s
    <3>1. i + 1 \in Nat
      BY <1>1
    <3>2. o \in Blocks
      BY <3>1, BlocksType
    <3> QED
      BY <1>1, <3>2, SetInBlock
  <2>2. setBit(q, b, 1) = setBlock(q, i, c)
    BY DEF setBit, getBit
  <2> HIDE DEF c, i
  <2>3. setBlock(q, i, c) = [q \o Zeros(Max({0, i + 1 - Len(q)})) EXCEPT ![i + 1] = c]
    BY <2>1 DEF setBlock
  <2>4. Max({0, i + 1 - Len(q)}) = 0
    <3> DEFINE d == i + 1 - Len(q)
               S == {0, d}
    <3>1. d \in Int /\ d <= 0
      BY <1>1
    <3> HIDE DEF d
    <3>2. \A m \in S : m <= 0
      BY <3>1
    <3>3. Max(S) = 0
      <4>1. 0 \in S /\ \A m \in S : m <= 0
        BY <3>2
      <4>2. \A m \in S : (\A j \in S : m >= j) => m = 0
        BY <3>1
      <4> QED
        BY <4>1, <4>2, Zenon DEF Max
    <3> QED
      BY <3>3 DEF d
  <2>5. Zeros(0) = <<>> /\ q \o <<>> = q
    BY DEF Zeros
  <2> QED
    BY <2>2, <2>3, <2>4, <2>5
<1> HIDE DEF i, s
<1>3. o \in Blocks
  <2>1. i + 1 \in Nat
    BY <1>1
  <2> QED
    BY <2>1, BlocksType
<1>4. c \in Blocks
  BY <1>1, <1>3, SetInBlock
<1> HIDE DEF c
<1>5. /\ z \in Seq(Blocks) /\ Len(z) = Len(q)
      /\ \A k \in Nat : Block(z, k) = IF k = i + 1 THEN c ELSE Block(q, k)
      /\ Value(z) + Weight(i) * o = Value(q) + Weight(i) * c
  BY <1>1, <1>4, ChangeBlock
<1> HIDE DEF z
<1>6. ASSUME LowClear(q, b + 1)
      PROVE  LowClear(q, b) /\ LowClear(z, b) /\ Value(z) = Value(q) + Unit(b)
  <2>1. Clear(q, i, s + 1)
    BY <1>6, ClearStep DEF i, s
  <2>2. Clear(q, i, s) /\ t = 0 /\ \E k \in Nat : o + 2 ^ s = 2 ^ s * k
    BY <1>1, <2>1, ClearBit
  <2> DEFINE p == 2 ^ s
             w == Weight(i)
  <2>3. p \in Nat /\ w \in Nat /\ o \in Nat
    BY <1>1, <1>3, PowerAssumption, Weights, BaseType DEF Blocks
  <2>4. c = o + p
    <3> HIDE DEF o, t, p
    <3>1. c = o + (1 - t) * p
      BY DEF c, p
    <3> QED
      BY <2>2, <2>3, <3>1
  <2>5. Clear(z, i, s)
    <3>1. i + 1 \in Nat /\ \A j \in 1 .. i : j \in Nat /\ j # i + 1
      BY <1>1
    <3>2. Block(z, i + 1) = o + 2 ^ s
      BY <1>5, <2>4, <3>1
    <3>3. \A j \in 1 .. i : Block(z, j) = 0
      BY <1>5, <2>2, <3>1 DEF Clear
    <3> QED
      BY <2>2, <3>2, <3>3 DEF Clear
  <2>6. w * (o + p) = w * o + w * p
    BY <2>3, Products
  <2>7. Value(z) = Value(q) + w * p
    <3> DEFINE x == w * o
               y == w * p
               v == Value(z)
               u == Value(q)
    <3>1. x \in Nat /\ y \in Nat /\ v \in Nat /\ u \in Nat
      BY <1>5, <2>3, Products, ValueIsFrom
    <3>2. v + x = u + (x + y)
      BY <1>5, <2>4, <2>6
    <3> HIDE DEF x, y, v, u
    <3>3. v = u + y
      BY <3>1, <3>2
    <3> QED
      BY <3>3 DEF v, u, y
  <2> QED
    BY <2>2, <2>5, <2>7 DEF LowClear, Unit, i, s
<1> QED
  BY <1>2, <1>5, <1>6

-----------------------------------------------------------------------------
(* The turns of a division                                                   *)

\* The last block of the remainder that a turn at block i computes.
Top(x, y, i) == Max({i + Len(y) + 1, Len(x)})

\* The remainder z from the block of b up, less y shifted to b.
Difference(x, y, z, b) ==
  Chain(SubtractBlock, SubSeq(z, (b \div N) + 1, Top(x, y, b \div N)), Shifted(y, b % N))

\* A turn: b is a bit of the quotient if the difference is not negative.
TrySubtract(x, y, s, b) ==
  IF Difference(x, y, s.remainder, b).out = 1 THEN s
  ELSE [quotient  |-> setBit(s.quotient, b, 1),
        remainder |-> SubSeq(s.remainder, 1, b \div N) \o
                      Difference(x, y, s.remainder, b).blk \o
                      SubSeq(s.remainder, Top(x, y, b \div N) + 1, Len(x) + 1)]

\* A turn subtracts within the blocks of the remainder.
LEMMA TopFacts ==
  ASSUME NEW x \in Seq(Blocks), NEW y \in Seq(Blocks), NEW i \in Nat, i + Len(y) <= Len(x)
  PROVE  /\ Top(x, y, i) \in 0 .. Len(x) + 1
         /\ i + Len(y) + 1 <= Top(x, y, i) /\ Len(x) <= Top(x, y, i)
<1> DEFINE u == i + Len(y) + 1
           n == Len(x)
           S == {u, n}
<1>1. n \in Nat /\ u \in Nat /\ u <= n + 1
  OBVIOUS
<1> HIDE DEF u, n
<1>2. S \in SUBSET (0 .. n + 1) /\ S # {} /\ n + 1 \in Nat
  BY <1>1
<1>3. Max(S) \in S /\ \A j \in S : j <= Max(S)
  BY <1>2, MaxFacts
<1>4. u <= Max(S) /\ n <= Max(S)
  BY <1>3
<1>5. Max(S) \in 0 .. n + 1
  BY <1>2, <1>3
<1> QED
  BY <1>4, <1>5 DEF Top, u, n

\* The parts of the remainder that a turn of a division tells apart.
HasParts(x, y, z, b) ==
  LET i   == b \div N
      top == Top(x, y, i)
      lo  == SubSeq(z, 1, i)
      mid == SubSeq(z, i + 1, top)
      hi  == SubSeq(z, top + 1, Len(x) + 1)
      sh  == Shifted(y, b % N)
  IN /\ i \in Nat /\ i + Len(y) <= Len(x)
     /\ top \in Nat /\ i + Len(y) + 1 <= top /\ top <= Len(x) + 1
     /\ lo \in Seq(Blocks) /\ Len(lo) = i
     /\ mid \in Seq(Blocks) /\ Len(mid) = top - i
     /\ hi \in Seq(Blocks) /\ Len(hi) = Len(x) + 1 - top
     /\ sh \in Seq(Blocks) /\ Len(sh) = Len(y) + 1
     /\ Value(sh) = 2 ^ (b % N) * Value(y)
     /\ Value(z) = Value(lo) + Weight(i) * (Value(mid) + Weight(top - i) * Value(hi))

\* The remainder is the blocks a turn reads, and those below and above them.
LEMMA RemainderParts ==
  ASSUME NEW x \in Seq(Blocks), NEW y \in Seq(Blocks), NEW z \in Seq(Blocks),
         Len(y) <= Len(x), Len(z) = Len(x) + 1, NEW b \in Nat, b < (Len(x) - Len(y) + 1) * N
  PROVE  HasParts(x, y, z, b)
<1> DEFINE i == b \div N
           s == b % N
           n == Len(x) - Len(y) + 1
           top == Top(x, y, i)
<1>1. i \in Nat /\ s \in 0 .. N - 1 /\ b = N * i + s
  BY BitPlaces
<1>2. Len(x) \in Nat /\ Len(y) \in Nat /\ n \in Nat
  OBVIOUS
<1>3. N \in Nat
  BY BlockAssumption
<1>4. i < n
  <2> HIDE DEF i, s, n
  <2> SUFFICES ASSUME n <= i PROVE FALSE
    BY <1>1, <1>2
  <2>1. N * n <= N * i /\ n * N = N * n /\ N * i \in Nat /\ N * n \in Nat
    BY <1>1, <1>2, <1>3, Products
  <2> DEFINE u == N * i
             v == N * n
  <2>2. u \in Nat /\ v \in Nat /\ v <= u /\ b = u + s /\ b < v
    BY <1>1, <2>1 DEF n
  <2> HIDE DEF u, v
  <2> QED
    BY <1>1, <1>3, <2>2
<1> HIDE DEF i, s
<1>5. i + Len(y) <= Len(x)
  BY <1>1, <1>2, <1>4
<1>6. top \in 0 .. Len(x) + 1 /\ i + Len(y) + 1 <= top
  BY <1>1, <1>5, TopFacts
<1> HIDE DEF top, n
<1>7. top \in 0 .. Len(z) /\ i \in 0 .. top /\ top \in Nat /\ top <= Len(x) + 1
  BY <1>1, <1>2, <1>6
<1>a. Len(z) = Len(x) + 1
  OBVIOUS
<1>b. /\ SubSeq(z, 1, i) \in Seq(Blocks) /\ Len(SubSeq(z, 1, i)) = i
      /\ SubSeq(z, i + 1, top) \in Seq(Blocks) /\ Len(SubSeq(z, i + 1, top)) = top - i
      /\ SubSeq(z, top + 1, Len(z)) \in Seq(Blocks)
      /\ Len(SubSeq(z, top + 1, Len(z))) = Len(z) - top
      /\ Value(z) = Value(SubSeq(z, 1, i)) +
                    Weight(i) * (Value(SubSeq(z, i + 1, top)) +
                                 Weight(top - i) * Value(SubSeq(z, top + 1, Len(z))))
  BY <1>7, CutTwice
<1> DEFINE hi == SubSeq(z, top + 1, Len(x) + 1)
<1>8. /\ SubSeq(z, top + 1, Len(z)) = hi /\ Len(z) - top = (Len(x) + 1) - top
  BY <1>a, Zenon
<1> HIDE DEF hi
<1>c. /\ hi \in Seq(Blocks) /\ Len(hi) = Len(x) + 1 - top
      /\ Value(z) = Value(SubSeq(z, 1, i)) +
                    Weight(i) * (Value(SubSeq(z, i + 1, top)) + Weight(top - i) * Value(hi))
  <2> DEFINE g == SubSeq(z, top + 1, Len(z))
  <2>1. g = hi
    BY <1>8
  <2>2. /\ g \in Seq(Blocks) /\ Len(g) = Len(z) - top
        /\ Value(z) = Value(SubSeq(z, 1, i)) +
                      Weight(i) * (Value(SubSeq(z, i + 1, top)) + Weight(top - i) * Value(g))
    BY <1>b
  <2> HIDE DEF g
  <2>3. Len(hi) = Len(x) + 1 - top
    BY <1>2, <1>7, <1>a, <2>1, <2>2
  <2> QED
    BY <2>1, <2>2, <2>3
<1>9. /\ Shifted(y, s) \in Seq(Blocks) /\ Len(Shifted(y, s)) = Len(y) + 1
      /\ Value(Shifted(y, s)) = 2 ^ s * Value(y)
  BY <1>1, ShiftRight
<1> QED
  BY <1>1, <1>5, <1>6, <1>7, <1>b, <1>c, <1>9, Zenon DEF HasParts, hi, i, s, top

\* A quotient and a remainder of as many blocks as q and z.
IsLike(t, q, z) ==
  /\ t = [quotient |-> t.quotient, remainder |-> t.remainder]
  /\ t.quotient \in Seq(Blocks) /\ Len(t.quotient) = Len(q)
  /\ t.remainder \in Seq(Blocks) /\ Len(t.remainder) = Len(z)

\* A turn keeps the number of blocks of the quotient and of the remainder.
LEMMA DivisionTurnType ==
  ASSUME NEW x \in Seq(Blocks), NEW y \in Seq(Blocks), Len(y) <= Len(x),
         NEW q \in Seq(Blocks), Len(q) = Len(x) - Len(y) + 1,
         NEW z \in Seq(Blocks), Len(z) = Len(x) + 1,
         NEW b \in Nat, b < (Len(x) - Len(y) + 1) * N
  PROVE  IsLike(TrySubtract(x, y, [quotient |-> q, remainder |-> z], b), q, z)
<1> DEFINE i == b \div N
           top == Top(x, y, i)
           lo == SubSeq(z, 1, i)
           mid == SubSeq(z, i + 1, top)
           hi == SubSeq(z, top + 1, Len(x) + 1)
           sh == Shifted(y, b % N)
           d == Chain(SubtractBlock, mid, sh)
           r == (lo \o d.blk) \o hi
           p == setBit(q, b, 1)
           st == [quotient |-> q, remainder |-> z]
           t == TrySubtract(x, y, st, b)
<1>1. /\ i \in Nat /\ i + Len(y) <= Len(x)
      /\ top \in Nat /\ i + Len(y) + 1 <= top /\ top <= Len(x) + 1
      /\ lo \in Seq(Blocks) /\ Len(lo) = i
      /\ mid \in Seq(Blocks) /\ Len(mid) = top - i
      /\ hi \in Seq(Blocks) /\ Len(hi) = Len(x) + 1 - top
      /\ sh \in Seq(Blocks)
  <2>1. HasParts(x, y, z, b)
    BY RemainderParts
  <2> QED
    BY <2>1, Zenon DEF HasParts
<1>2. t = st \/ t = [quotient |-> p, remainder |-> r]
  <2> HIDE DEF p
  <2> QED
    BY DEF TrySubtract, Difference, p
<1>3. p \in Seq(Blocks) /\ Len(p) = Len(q)
  <2>1. b \div N < Len(q)
    <3>1. Len(x) \in Nat /\ Len(y) \in Nat
      OBVIOUS
    <3>2. i < Len(q)
      <4> HIDE DEF i
      <4> QED
        BY <1>1, <3>1
    <3> QED
      BY <3>2
  <2> QED
    BY <2>1, SetBitFacts
<1> HIDE DEF i, top, lo, mid, hi, sh
<1>4. d.blk \in Seq(Blocks) /\ Len(d.blk) = top - i
  BY <1>1, SubtractChain
<1> HIDE DEF d
<1>5. r \in Seq(Blocks) /\ Len(r) = Len(z)
  <2>1. lo \o d.blk \in Seq(Blocks) /\ Len(lo \o d.blk) = Len(lo) + Len(d.blk)
    BY <1>1, <1>4, ConcatValue
  <2>2. r \in Seq(Blocks) /\ Len(r) = Len(lo \o d.blk) + Len(hi)
    BY <1>1, <2>1, ConcatValue
  <2>3. Len(x) \in Nat
    OBVIOUS
  <2> HIDE DEF r
  <2> QED
    BY <1>1, <1>4, <2>1, <2>2, <2>3
<1> HIDE DEF p, r, t
<1>6. CASE t = st
  <2>1. t.quotient = q /\ t.remainder = z
    BY <1>6
  <2> QED
    BY <1>6, <2>1 DEF t, IsLike
<1>7. CASE t = [quotient |-> p, remainder |-> r]
  <2>1. t.quotient = p /\ t.remainder = r
    BY <1>7
  <2> QED
    BY <1>3, <1>5, <1>7, <2>1 DEF t, IsLike
<1> QED
  BY <1>2, <1>6, <1>7

\* Blocks further up weigh more.
LEMMA WeightGrows ==
  ASSUME NEW i \in Nat, NEW j \in Nat, i <= j
  PROVE  Weight(i) <= Weight(j)
<1> PICK d \in Nat : j = i + d
  BY j - i \in Nat
<1>1. Weight(j) = Weight(i) * Weight(d) /\ Weight(i) \in Nat /\ Weight(d) \in Nat \ {0}
  BY Weights, WeightOfSum
<1> DEFINE a == Weight(i)
           b == Weight(d)
<1> HIDE DEF a, b
<1>2. a * 1 <= a * b /\ a * 1 = a
  <2>1. a \in Nat /\ b \in Nat /\ 1 \in Nat /\ 1 <= b
    BY <1>1 DEF a, b
  <2> QED
    BY <2>1, Products
<1> QED
  BY <1>1, <1>2 DEF a, b

\* A bit stands for half of the next block at most.
LEMMA UnitBelow ==
  ASSUME NEW b \in Nat
  PROVE  2 * Unit(b) <= Weight((b \div N) + 1)
<1> DEFINE i == b \div N
           s == b % N
           w == Weight(i)
           p == 2 ^ s
           q == 2 ^ (s + 1)
           u == 2 ^ (N - (s + 1))
<1>1. i \in Nat /\ s \in 0 .. N - 1
  BY BitPlaces
<1> HIDE DEF i, s
<1>2. /\ p \in Nat \ {0} /\ q \in Nat \ {0} /\ q = 2 * p
      /\ u \in Nat \ {0} /\ q * u = Base
  <2>1. s + 1 \in 0 .. N
    BY <1>1, BlockAssumption
  <2>2. p \in Nat \ {0} /\ q = 2 * p
    BY <1>1, PowerAssumption
  <2> QED
    BY <2>1, <2>2, Powers
<1>3. w \in Nat /\ Weight(i + 1) = Base * w
  BY <1>1, Weights
<1> HIDE DEF w, p, q, u
<1>4. q <= Base
  <2>1. q * 1 <= q * u /\ q * 1 = q
    BY <1>2, Products
  <2> QED
    BY <1>2, <2>1
<1>5. w * q <= w * Base /\ w * Base = Base * w
  BY <1>2, <1>3, <1>4, BaseType, Products
<1>6. 2 * (w * p) = w * q
  <2>1. w * (2 * p) = (w * 2) * p /\ w * 2 = 2 * w /\ (2 * w) * p = 2 * (w * p)
    BY <1>2, <1>3, Products
  <2> QED
    BY <1>2, <2>1
<1>7. 2 * Unit(b) <= Weight(i + 1)
  BY <1>3, <1>5, <1>6 DEF Unit, w, p, i, s
<1> QED
  BY <1>7 DEF i

\* The dividend is made of the quotient so far and the remainder, which is less
\* than the divisor shifted by b; the bits of the quotient below b are clear.
DivisionInv(x, y, q, z, b) ==
  /\ Value(z) + Value(q) * Value(y) = Value(x)
  /\ Value(z) < Unit(b) * Value(y)
  /\ LowClear(q, b)

\* A turn keeps what the quotient and the remainder stand for together, and the
\* bound on the remainder, for the next lower bit.
LEMMA DivisionTurnValue ==
  ASSUME NEW x \in Seq(Blocks), NEW y \in Seq(Blocks), Len(y) <= Len(x),
         NEW q \in Seq(Blocks), Len(q) = Len(x) - Len(y) + 1,
         NEW z \in Seq(Blocks), Len(z) = Len(x) + 1,
         NEW b \in Nat, b < (Len(x) - Len(y) + 1) * N,
         DivisionInv(x, y, q, z, b + 1)
  PROVE  LET t == TrySubtract(x, y, [quotient |-> q, remainder |-> z], b)
         IN DivisionInv(x, y, t.quotient, t.remainder, b)
<1> DEFINE i == b \div N
           s == b % N
           top == Top(x, y, i)
           lo == SubSeq(z, 1, i)
           mid == SubSeq(z, i + 1, top)
           hi == SubSeq(z, top + 1, Len(x) + 1)
           sh == Shifted(y, s)
           d == Chain(SubtractBlock, mid, sh)
           r == (lo \o d.blk) \o hi
           n == setBit(q, b, 1)
           st == [quotient |-> q, remainder |-> z]
           t == TrySubtract(x, y, st, b)
           w == Weight(i)
           p == 2 ^ s
           v == Value(y)
           W == Weight(top - i)
           L == Value(lo)
           M == Value(mid)
           H == Value(hi)
           U == Unit(b)
           Z == Value(z)
           Q == Value(q)
           X == Value(x)
<1>1. /\ i \in Nat /\ i + Len(y) <= Len(x)
      /\ top \in Nat /\ i + Len(y) + 1 <= top /\ top <= Len(x) + 1
      /\ lo \in Seq(Blocks) /\ Len(lo) = i
      /\ mid \in Seq(Blocks) /\ Len(mid) = top - i
      /\ hi \in Seq(Blocks)
      /\ sh \in Seq(Blocks) /\ Len(sh) = Len(y) + 1
      /\ Value(sh) = p * v
      /\ Z = L + w * (M + W * H)
  <2>1. HasParts(x, y, z, b)
    BY RemainderParts
  <2> QED
    BY <2>1, Zenon DEF HasParts
<1>2. t = IF d.out = 1 THEN st ELSE [quotient |-> n, remainder |-> r]
  <2> HIDE DEF n
  <2> QED
    BY DEF TrySubtract, Difference, n
<1>3. /\ n \in Seq(Blocks) /\ LowClear(q, b) /\ LowClear(n, b)
      /\ Value(n) = Q + U
  <2>1. Len(x) \in Nat /\ Len(y) \in Nat
    OBVIOUS
  <2>2. i < Len(q)
    <3> HIDE DEF i
    <3> QED
      BY <1>1, <2>1
  <2>3. LowClear(q, b + 1) /\ b \div N < Len(q)
    BY <2>2 DEF DivisionInv
  <2> QED
    BY <2>3, SetBitFacts
<1>4. Z + Q * v = X /\ Z < (2 * U) * v
  BY Units DEF DivisionInv
<1>5. /\ v \in Nat /\ Z \in Nat /\ Q \in Nat /\ X \in Nat /\ L \in Nat /\ M \in Nat /\ H \in Nat
      /\ U \in Nat \ {0} /\ Value(n) \in Nat
  BY <1>1, <1>3, ValueIsFrom, Units
<1>6. U = w * p /\ 2 * U <= Weight(i + 1)
  BY UnitBelow DEF Unit
<1>7. d.blk \in Seq(Blocks) /\ Len(d.blk) = top - i
  <2> HIDE DEF mid, sh, top, i
  <2> QED
    BY <1>1, SubtractChain
<1>8. /\ d.out = 1 => M < p * v
      /\ d.out # 1 => M = Value(d.blk) + p * v
  <2>1. Len(y) \in Nat /\ Len(sh) <= Len(mid)
    <3>1. Len(y) \in Nat
      OBVIOUS
    <3> HIDE DEF mid, sh, top, i
    <3> QED
      BY <1>1, <3>1
  <2> HIDE DEF mid, sh
  <2>2. /\ d.out = 1 => Value(mid) < Value(sh)
        /\ d.out # 1 => Value(mid) = Value(d.blk) + Value(sh)
    BY <1>1, <2>1, Borrowed
  <2> QED
    BY <1>1, <2>2
<1> HIDE DEF i, s, top, lo, mid, hi, sh, d, n, t, v, L, M, H, Z, Q, X, U
<1>9. w \in Nat \ {0} /\ W \in Nat \ {0} /\ w * W = Weight(top) /\ p \in Nat
  <2>1. top - i \in Nat /\ i + (top - i) = top
    <3>1. Len(y) \in Nat
      OBVIOUS
    <3> QED
      BY <1>1, <3>1
  <2>2. Weight(i + (top - i)) = w * W
    BY <1>1, <2>1, WeightOfSum
  <2>3. w \in Nat \ {0} /\ W \in Nat \ {0}
    BY <1>1, <2>1, Weights
  <2>4. p \in Nat
    <3>1. s \in 0 .. N - 1
      BY BitPlaces DEF s
    <3> QED
      BY <3>1, PowerAssumption
  <2> QED
    BY <2>1, <2>2, <2>3, <2>4
<1>10. H = 0
  <2> SUFFICES ASSUME H # 0 PROVE FALSE
    OBVIOUS
  <2>1. Len(y) \in Nat /\ i + 1 \in Nat /\ (i + 1) + Len(y) <= top
    <3>1. Len(y) \in Nat
      OBVIOUS
    <3> QED
      BY <1>1, <3>1
  <2> DEFINE A == Weight(i + 1)
             B == Weight(Len(y))
             C == Weight(top)
             D == Weight((i + 1) + Len(y))
  <2>2. A \in Nat /\ B \in Nat /\ C \in Nat /\ D \in Nat /\ D = A * B /\ D <= C
    <3>1. A \in Nat /\ B \in Nat /\ D = A * B
      BY <2>1, Weights, WeightOfSum
    <3>2. (i + 1) + Len(y) \in Nat
      BY <2>1
    <3>3. C \in Nat /\ D \in Nat /\ D <= C
      BY <1>1, <2>1, <3>2, Weights, WeightGrows
    <3> QED
      BY <3>1, <3>3
  <2>3. v < B
    BY <2>1, BelowWeight DEF v
  <2> HIDE DEF A, B, C, D, w, W
  <2>4. (2 * U) * v <= D
    <3> DEFINE e == 2 * U
    <3>1. e \in Nat /\ e <= A
      BY <1>5, <1>6 DEF A
    <3> HIDE DEF e
    <3>2. e * v <= e * B /\ B * e <= B * A /\ e * B = B * e /\ B * A = A * B
      BY <1>5, <2>2, <2>3, <3>1, Products
    <3> DEFINE f == e * v
               g == e * B
    <3>3. f \in Nat /\ g \in Nat /\ f <= g /\ g <= D
      BY <1>5, <2>2, <3>1, <3>2, Products
    <3> HIDE DEF f, g
    <3>4. f <= D
      BY <2>2, <3>3
    <3> QED
      BY <3>4 DEF f, e
  <2>5. C <= Z
    <3>1. W * 1 <= W * H /\ W * 1 = W
      <4>1. 1 <= H
        BY <1>5
      <4> QED
        BY <1>5, <1>9, <4>1, Products
    <3> DEFINE e == W * H
    <3>2. e \in Nat /\ W <= e
      BY <1>5, <1>9, <3>1, Products
    <3> HIDE DEF e
    <3>3. M + e \in Nat /\ W <= M + e
      BY <1>5, <1>9, <3>2
    <3> DEFINE f == M + e
    <3> HIDE DEF f
    <3>4. w * W <= w * f /\ w * f \in Nat
      BY <1>9, <3>3, Products DEF f
    <3> DEFINE g == w * f
    <3>5. g \in Nat /\ C <= g /\ Z = L + g
      BY <1>1, <1>9, <3>4 DEF C, e, f
    <3> HIDE DEF g
    <3> QED
      BY <1>5, <2>2, <3>5
  <2> DEFINE g == (2 * U) * v
  <2>6. g \in Nat /\ Z < g /\ g <= D
    <3>1. 2 * U \in Nat
      BY <1>5
    <3> QED
      BY <1>4, <1>5, <2>4, <3>1, Products
  <2> HIDE DEF g
  <2> QED
    BY <1>5, <2>2, <2>5, <2>6
<1>11. Z = L + w * M
  <2>1. W * H = 0
    BY <1>9, <1>10
  <2>2. M + 0 = M
    BY <1>5
  <2> QED
    BY <1>1, <2>1, <2>2
<1>12. L < w
  <2>1. Len(lo) <= i
    BY <1>1
  <2> QED
    BY <1>1, <2>1, BelowWeight DEF L
<1>13. p * v \in Nat /\ U * v = w * (p * v) /\ U * v \in Nat /\ w * M \in Nat
  <2>1. p * v \in Nat /\ w * M \in Nat
    BY <1>5, <1>9, Products
  <2>2. w * (p * v) \in Nat
    BY <1>9, <2>1, Products
  <2>3. (w * p) * v = w * (p * v)
    BY <1>5, <1>9, Products
  <2> QED
    BY <1>6, <2>1, <2>2, <2>3
<1>14. CASE d.out = 1
  <2> DEFINE e == p * v
             f == w * M
             g == w * e
  <2>1. e \in Nat /\ M < e /\ f \in Nat /\ g \in Nat /\ f + w <= g /\ U * v = g
    <3>1. e \in Nat /\ M < e
      BY <1>8, <1>13, <1>14
    <3> HIDE DEF e
    <3>2. w * M + w <= w * e /\ w * e \in Nat
      BY <1>5, <1>9, <3>1, Products
    <3> QED
      BY <1>13, <3>1, <3>2 DEF e
  <2>2. Z = L + f
    BY <1>11
  <2> HIDE DEF e, f, g, w
  <2>3. Z < g
    BY <1>5, <1>9, <1>12, <2>1, <2>2
  <2>4. Z < U * v
    BY <2>1, <2>3
  <2>5. t.quotient = q /\ t.remainder = z
    BY <1>2, <1>14
  <2> QED
    BY <1>3, <1>4, <2>4, <2>5 DEF DivisionInv, t, U, v, Z, Q, X
<1>15. CASE d.out # 1
  <2>1. t.quotient = n /\ t.remainder = r
    BY <1>2, <1>15
  <2> DEFINE R == Value(d.blk)
             e == p * v
  <2>2. R \in Nat /\ M = R + e /\ e \in Nat
    BY <1>7, <1>8, <1>13, <1>15, ValueIsFrom
  <2>3. Value(r) = L + w * R
    <3>1. /\ lo \o d.blk \in Seq(Blocks) /\ Len(lo \o d.blk) = i + Len(d.blk)
          /\ Value(lo \o d.blk) = L + w * R
      BY <1>1, <1>7, ConcatValue DEF L
    <3> DEFINE k == lo \o d.blk
    <3> HIDE DEF k
    <3>2. Value(k \o hi) = Value(k) + Weight(Len(k)) * H
      BY <1>1, <3>1, ConcatValue DEF k, H
    <3>3. Weight(Len(k)) \in Nat /\ Value(k) \in Nat
      <4>1. k \in Seq(Blocks)
        BY <3>1 DEF k
      <4>2. Len(k) \in Nat
        BY <4>1
      <4> QED
        BY <4>1, <4>2, Weights, ValueIsFrom
    <3>4. Weight(Len(k)) * H = 0
      BY <1>10, <3>3
    <3>5. Value(k \o hi) = Value(k)
      BY <3>2, <3>3, <3>4
    <3> QED
      BY <3>1, <3>5 DEF k
  <2> HIDE DEF R, e, r
  <2>4. w * M = w * R + w * e
    BY <1>9, <2>2, Products
  <2> DEFINE f == w * R
             g == w * e
             k == Q * v
             m == Value(n) * v
             o == Value(r)
  <2>5. f \in Nat /\ g \in Nat /\ k \in Nat /\ o = L + f /\ Z = L + (f + g) /\ U * v = g
    BY <1>5, <1>9, <1>11, <1>13, <2>2, <2>3, <2>4, Products DEF e
  <2>6. m = k + g
    <3>1. (Q + U) * v = v * (Q + U)
      BY <1>5, Products
    <3>2. v * (Q + U) = v * Q + v * U
      BY <1>5, Products
    <3>3. v * Q = Q * v /\ v * U = U * v
      BY <1>5, Products
    <3> QED
      BY <1>3, <2>5, <3>1, <3>2, <3>3
  <2>7. (2 * U) * v = g + g
    <3>1. (2 * U) * v = 2 * (U * v)
      BY <1>5, Products
    <3> QED
      BY <2>5, <3>1
  <2>8. Z + k = X /\ Z < g + g
    BY <1>4, <2>7
  <2> HIDE DEF f, g, k, m, o
  <2>9. o + m = X /\ o < g
    BY <1>5, <2>5, <2>6, <2>8
  <2>10. Value(r) + Value(n) * v = X /\ Value(r) < U * v
    BY <2>5, <2>9 DEF o, m
  <2> QED
    BY <1>3, <2>1, <2>10 DEF DivisionInv, t, U, v, X
<1> QED
  BY <1>14, <1>15

\* divideWithRemainder() makes its turns one after the other, from the highest
\* bit down.
LEMMA DivisionFolds ==
  ASSUME NEW x \in Seq(Blocks), NEW y \in Seq(Blocks), y # <<>>, Len(y) <= Len(x),
         NEW P,
         [quotient |-> Zeros(Len(x) - Len(y) + 1), remainder |-> Append(x, 0)] \in P,
         \A s \in P, b \in 0 .. (Len(x) - Len(y) + 1) * N - 1 : TrySubtract(x, y, s, b) \in P
  PROVE  LET n == (Len(x) - Len(y) + 1) * N
         IN \E f : /\ f[0] = [quotient |-> Zeros(Len(x) - Len(y) + 1), remainder |-> Append(x, 0)]
                   /\ \A k \in 1 .. n : f[k] = TrySubtract(x, y, f[k - 1], n - k)
                   /\ divideWithRemainder(x, y) =
                        [quotient  |-> zapLeadingZero(f[n].quotient),
                         remainder |-> zapLeadingZeros(f[n].remainder)]
<1> DEFINE n == (Len(x) - Len(y) + 1) * N
           p == [quotient |-> Zeros(Len(x) - Len(y) + 1), remainder |-> Append(x, 0)]
           q == [k \in 1 .. n |-> n - k]
           G == [k \in 1 .. n |-> [s \in P |-> TrySubtract(x, y, s, n - k)]]
<1>1. n \in Nat
  <2>1. Len(x) - Len(y) + 1 \in Nat /\ N \in Nat
    BY BlockAssumption
  <2> QED
    BY <2>1, Products
<1>a. \A s \in P, b \in 0 .. n - 1 : TrySubtract(x, y, s, b) \in P
  OBVIOUS
<1>b. ~(y = <<>> \/ Len(x) < Len(y))
  <2>1. Len(x) \in Nat /\ Len(y) \in Nat
    OBVIOUS
  <2> QED
    BY <2>1
<1>c. DOMAIN q = 1 .. n
  OBVIOUS
<1>2. \A k \in 1 .. n : n - k \in 0 .. n - 1
  <2> HIDE DEF n
  <2> QED
    BY <1>1
<1>3. G \in [1 .. n -> [P -> P]]
  <2> HIDE DEF n
  <2> QED
    BY <1>2, <1>a
<1> DEFINE h == CHOOSE h : h = [s \in SUBSET (1 .. n) |->
             IF s = {} THEN p ELSE TrySubtract(x, y, h[s \ {Max(s)}], q[Max(s)])]
<1>8. divideWithRemainder(x, y) =
        [quotient  |-> zapLeadingZero(h[1 .. n].quotient),
         remainder |-> zapLeadingZeros(h[1 .. n].remainder)]
  BY <1>b, <1>c DEF divideWithRemainder, FoldLeft, MapThenFoldSet, TrySubtract, Difference, Top
<1>d. p \in P
  OBVIOUS
<1> HIDE DEF n, p, h
<1>4. PICK g \in [SUBSET (1 .. n) -> P] : IsFold(g, 1 .. n, MaxOf(n), p, G)
  <2> HIDE DEF G
  <2> QED
    BY <1>1, <1>3, <1>d, MaxFoldExists, Zenon
<1>5. ASSUME NEW s \in SUBSET (1 .. n), s # {}
      PROVE  /\ Max(s) \in 1 .. n /\ s \ {Max(s)} \in SUBSET (1 .. n)
             /\ q[Max(s)] = n - Max(s)
  <2>1. s \in SUBSET (0 .. n)
    OBVIOUS
  <2>2. Max(s) \in s
    BY <1>1, <1>5, <2>1, MaxFacts
  <2> QED
    BY <2>2
<1>6. g = [s \in SUBSET (1 .. n) |->
             IF s = {} THEN p ELSE TrySubtract(x, y, g[s \ {Max(s)}], q[Max(s)])]
  <2>1. ASSUME NEW s \in SUBSET (1 .. n)
        PROVE  g[s] = IF s = {} THEN p ELSE TrySubtract(x, y, g[s \ {Max(s)}], q[Max(s)])
    <3>1. CASE s = {}
      BY <1>4, <3>1 DEF IsFold, MaxOf
    <3>2. CASE s # {}
      <4>1. /\ Max(s) \in 1 .. n /\ g[s \ {Max(s)}] \in P
            /\ q[Max(s)] = n - Max(s)
        BY <1>5, <3>2
      <4>2. g[s] = G[Max(s)][g[s \ {Max(s)}]]
        BY <1>4, <3>2 DEF IsFold, MaxOf
      <4>3. G[Max(s)][g[s \ {Max(s)}]] = TrySubtract(x, y, g[s \ {Max(s)}], n - Max(s))
        BY <4>1
      <4> HIDE DEF G, q
      <4> QED
        BY <3>2, <4>1, <4>2, <4>3
    <3> QED
      BY <3>1, <3>2
  <2> HIDE DEF q, G
  <2> QED
    BY <2>1
<1>7. h = [s \in SUBSET (1 .. n) |->
             IF s = {} THEN p ELSE TrySubtract(x, y, h[s \ {Max(s)}], q[Max(s)])]
  <2> HIDE DEF q
  <2> QED
    BY <1>6 DEF h
<1> DEFINE f == [k \in 0 .. n |-> h[1 .. k]]
<1>9. f[0] = p
  <2>1. h[{}] = p
    BY <1>7
  <2>2. f[0] = h[1 .. 0] /\ 1 .. 0 = {}
    BY <1>1
  <2> QED
    BY <2>1, <2>2
<1>10. ASSUME NEW k \in 1 .. n PROVE f[k] = TrySubtract(x, y, f[k - 1], n - k)
  <2> DEFINE s == 1 .. k
  <2>a. k \in Nat /\ k # 0 /\ k <= n
    BY <1>1
  <2>b. s # {} /\ Max(s) = k /\ s \ {Max(s)} = 1 .. k - 1
    BY <2>a, FoldSteps
  <2>1. s \in SUBSET (1 .. n) /\ s # {} /\ Max(s) = k /\ s \ {Max(s)} = 1 .. k - 1
    BY <1>1, <2>a, <2>b
  <2>2. k \in 0 .. n /\ k - 1 \in 0 .. n /\ q[k] = n - k
    BY <1>1
  <2>3. h[s] = TrySubtract(x, y, h[s \ {Max(s)}], q[Max(s)])
    <3> HIDE DEF s, q
    <3> QED
      BY <1>7, <2>1
  <2>4. f[k] = h[s] /\ f[k - 1] = h[1 .. k - 1]
    BY <2>2
  <2> HIDE DEF f, q, s
  <2> QED
    BY <2>1, <2>2, <2>3, <2>4
<1>11. f[n] = h[1 .. n]
  BY <1>1
<1> HIDE DEF f
<1>12. divideWithRemainder(x, y) =
         [quotient  |-> zapLeadingZero(f[n].quotient),
          remainder |-> zapLeadingZeros(f[n].remainder)]
  BY <1>8, <1>11, Zenon
<1> QED
  BY <1>9, <1>10, <1>12, Zenon DEF n, p

\* Before the first turn the remainder is the dividend.
LEMMA DivisionStarts ==
  ASSUME NEW x \in Seq(Blocks), NEW y \in Seq(Blocks), Canonical(y), y # <<>>, Len(y) <= Len(x)
  PROVE  LET q == Zeros(Len(x) - Len(y) + 1)
             z == Append(x, 0)
         IN /\ q \in Seq(Blocks) /\ Len(q) = Len(x) - Len(y) + 1
            /\ z \in Seq(Blocks) /\ Len(z) = Len(x) + 1
            /\ DivisionInv(x, y, q, z, (Len(x) - Len(y) + 1) * N)
<1> DEFINE l == Len(x) - Len(y) + 1
           q == Zeros(l)
           z == Append(x, 0)
           b == l * N
           v == Value(y)
<1>1. Len(x) \in Nat /\ Len(y) \in Nat /\ l \in Nat /\ N \in Nat
  BY BlockAssumption
<1>2. q \in Seq(Blocks) /\ Len(q) = l /\ Value(q) = 0
  <2> HIDE DEF l
  <2> QED
    BY <1>1, ZeroBlocks
<1>3. z \in Seq(Blocks) /\ Len(z) = Len(x) + 1 /\ Value(z) = Value(x)
  <2>1. 0 \in Blocks
    BY BaseType DEF Blocks
  <2>2. z \in Seq(Blocks) /\ Len(z) = Len(x) + 1
    BY <2>1
  <2>3. \A k \in 1 .. Len(x) : z[k] = x[k]
    OBVIOUS
  <2>4. z[Len(x) + 1] = 0
    OBVIOUS
  <2> HIDE DEF z
  <2>5. ASSUME NEW k \in Nat, k > 0 PROVE Block(z, k) = Block(x, k)
    <3>1. CASE k \in 1 .. Len(x)
      <4>1. k \in 1 .. Len(z)
        BY <1>1, <2>2, <3>1
      <4> QED
        BY <2>2, <2>3, <3>1, <4>1, BlocksType
    <3>2. CASE k = Len(x) + 1
      <4>1. k \in 1 .. Len(z) /\ k > Len(x)
        BY <1>1, <2>2, <3>2
      <4> QED
        BY <2>2, <2>4, <3>2, <4>1, BlocksType
    <3>3. CASE k > Len(x) + 1
      <4>1. k > Len(z) /\ k > Len(x)
        BY <1>1, <2>2, <3>3
      <4> QED
        BY <2>2, <4>1, BlocksType
    <3>4. k \in 1 .. Len(x) \/ k = Len(x) + 1 \/ k > Len(x) + 1
      BY <1>1, <2>5
    <3> QED
      BY <3>1, <3>2, <3>3, <3>4
  <2>6. From(z, 0) = From(x, 0)
    BY <2>2, <2>5, SameBlocks, 0 \in Nat
  <2> QED
    BY <2>2, <2>6, ValueIsFrom
<1>4. b \in Nat /\ Unit(b) = Weight(l)
  <2> HIDE DEF l
  <2> QED
    BY <1>1, Products, BlockUnits
<1>5. v \in Nat /\ Value(x) \in Nat
  BY ValueIsFrom
<1>6. Value(x) < Weight(l) * v
  <2> DEFINE i == Len(y) - 1
             A == Weight(l)
             B == Weight(i)
             C == Weight(Len(x))
             X == Value(x)
  <2>1. i \in Nat /\ B <= v
    BY CanonicalIsLong
  <2>2. l + i = Len(x)
    BY <1>1
  <2>3. C = A * B /\ A \in Nat /\ B \in Nat /\ C \in Nat
    <3>1. Weight(l + i) = A * B /\ A \in Nat /\ B \in Nat
      <4> HIDE DEF l, i
      <4> QED
        BY <1>1, <2>1, Weights, WeightOfSum
    <3>2. C \in Nat
      BY <1>1, Weights
    <3> QED
      BY <2>2, <3>1, <3>2
  <2>4. X < C
    BY <1>1, BelowWeight
  <2> HIDE DEF A, B, C, v, X
  <2>5. A * B <= A * v /\ A * v \in Nat
    BY <1>5, <2>1, <2>3, Products
  <2> DEFINE D == A * v
  <2>6. D \in Nat /\ C <= D
    BY <2>3, <2>5
  <2> HIDE DEF D
  <2>7. X < D
    BY <1>5, <2>3, <2>4, <2>6 DEF X
  <2> QED
    BY <2>7 DEF D, A, X
<1>7. LowClear(q, b)
  <2>1. b \div N \in Nat /\ b % N \in 0 .. N - 1
    BY <1>4, BitPlaces
  <2> DEFINE i == b \div N
             s == b % N
  <2> HIDE DEF i, s
  <2>2. \A k \in Nat : Block(q, k) = 0
    <3>1. \A k \in Nat : Block(q, k) = IF k \in 1 .. Len(q) THEN q[k] ELSE 0
      <4>1. DOMAIN q = 1 .. Len(q)
        BY <1>2
      <4> HIDE DEF q
      <4> QED
        BY <4>1 DEF Block
    <3>2. \A k \in 1 .. l : q[k] = 0
      BY DEF Zeros
    <3> HIDE DEF q
    <3> QED
      BY <1>2, <3>1, <3>2
  <2> HIDE DEF q
  <2>3. i \in Nat /\ s \in 0 .. N - 1
    BY <2>1 DEF i, s
  <2>4. Block(q, i + 1) = 0 /\ \A j \in 1 .. i : Block(q, j) = 0
    <3>1. i + 1 \in Nat /\ \A j \in 1 .. i : j \in Nat
      BY <2>3
    <3> QED
      BY <2>2, <3>1
  <2>5. 2 ^ s * 0 = 0 /\ 0 \in Nat
    BY <2>3, PowerAssumption
  <2>6. \E k \in Nat : Block(q, i + 1) = 2 ^ s * k
    BY <2>4, <2>5, Zenon
  <2>7. Clear(q, i, s)
    BY <2>4, <2>6, Zenon DEF Clear
  <2> QED
    BY <2>7 DEF LowClear, i, s
<1>8. DivisionInv(x, y, q, z, b)
  <2>1. Value(z) + Value(q) * v = Value(x)
    BY <1>2, <1>3, <1>5
  <2>2. Value(z) < Unit(b) * v
    BY <1>3, <1>4, <1>6
  <2> HIDE DEF q, z, b
  <2> QED
    BY <1>7, <2>1, <2>2 DEF DivisionInv
<1> QED
  BY <1>2, <1>3, <1>8

\* A quotient of a dividend that is canonical has at most one zero block.
LEMMA QuotientIsLong ==
  ASSUME NEW x \in Seq(Blocks), NEW y \in Seq(Blocks), Canonical(x), x # <<>>, y # <<>>,
         Len(y) <= Len(x), NEW q \in Seq(Blocks), Len(q) = Len(x) - Len(y) + 1,
         NEW r \in Nat, r + Value(q) * Value(y) = Value(x), r < Value(y)
  PROVE  Canonical(zapLeadingZero(q))
<1> DEFINE l == Len(q)
           v == Value(y)
           Q == Value(q)
           X == Value(x)
<1>1. /\ Len(x) \in Nat /\ Len(y) \in Nat /\ l \in Nat /\ l = Len(x) - Len(y) + 1 /\ l >= 1
      /\ Len(x) >= 1 /\ q # <<>>
  OBVIOUS
<1>2. Q \in Nat /\ v \in Nat /\ X \in Nat
  BY ValueIsFrom
<1>3. Last(q) = Block(q, l)
  BY <1>1, LastBlock
<1>4. CASE Last(q) # 0 \/ l = 1
  BY <1>1, <1>4, ZapOneFacts
<1>5. CASE Last(q) = 0 /\ l > 1
  <2>1. Block(q, l - 1) # 0
    <3> SUFFICES ASSUME Block(q, l - 1) = 0 PROVE FALSE
      OBVIOUS
    <3> HIDE DEF l
    <3> DEFINE i == l - 2
               j == Len(x) - 1
               A == Weight(i)
               B == Weight(Len(y))
               C == Weight(j)
    <3>1. i \in Nat /\ i \in 0 .. l /\ i + Len(y) = j /\ \A k \in i + 1 .. l : k = l - 1 \/ k = l
      <4>1. l \in Nat /\ l > 1 /\ l = Len(x) - Len(y) + 1 /\ Len(x) \in Nat /\ Len(y) \in Nat
        BY <1>1, <1>5
      <4>2. i \in Nat /\ i \in 0 .. l
        BY <4>1
      <4>3. i + Len(y) = j
        BY <4>1
      <4>4. \A k \in i + 1 .. l : k = l - 1 \/ k = l
        <5>1. l \in Nat /\ l > 1
          BY <4>1
        <5>2. ASSUME NEW k \in i + 1 .. l PROVE k = l - 1 \/ k = l
          <6>1. k \in Int /\ l - 1 <= k /\ k <= l
            BY <5>1
          <6> QED
            BY <5>1, <6>1
        <5> QED
          BY <5>2
      <4> QED
        BY <4>2, <4>3, <4>4
    <3>2. Q < A
      <4> HIDE DEF i
      <4>1. \A k \in i + 1 .. l : Block(q, k) = 0
        BY <1>3, <1>5, <3>1
      <4>2. i \in 0 .. Len(q) /\ \A k \in i + 1 .. Len(q) : Block(q, k) = 0
        BY <3>1, <4>1 DEF l
      <4> QED
        BY <4>2, ZerosAbove
    <3>3. v < B
      BY <1>1, BelowWeight
    <3>4. j \in Nat /\ C <= X
      BY CanonicalIsLong
    <3>5. A \in Nat /\ B \in Nat /\ C = A * B
      <4> HIDE DEF i, j
      <4>1. Weight(i + Len(y)) = A * B
        BY <1>1, <3>1, WeightOfSum
      <4> QED
        BY <1>1, <3>1, <4>1, Weights
    <3>6. r + Q * v = X /\ r < v
      OBVIOUS
    <3> HIDE DEF A, B, C, Q, v, X
    <3>7. /\ v * Q + v <= v * A /\ A * v <= A * B /\ Q * v = v * Q /\ v * A = A * v
          /\ v * Q \in Nat /\ v * A \in Nat
      BY <1>2, <3>2, <3>3, <3>5, Products
    <3> DEFINE D == v * Q
               E == v * A
    <3>8. D \in Nat /\ E \in Nat /\ D + v <= E /\ E <= C /\ r + D = X
      BY <3>5, <3>6, <3>7
    <3> HIDE DEF D, E
    <3>9. X < C
      <4>1. C \in Nat
        BY <3>4, Weights DEF C
      <4> QED
        BY <1>2, <3>6, <3>8, <4>1
    <3>10. C \in Nat
      BY <3>4, Weights DEF C
    <3> QED
      BY <1>2, <3>4, <3>9, <3>10
  <2> QED
    BY <1>1, <1>5, <2>1, ZapOneFacts
<1> QED
  <2>1. l > 1 \/ l = 1
    <3> HIDE DEF l
    <3> QED
      BY <1>1
  <2> QED
    BY <1>4, <1>5, <2>1

\* divideWithRemainder() returns the canonical blocks of the quotient and of
\* the remainder, for a divisor that is not zero.
THEOREM DivisionIsRight ==
  ASSUME NEW x \in Seq(Blocks), NEW y \in Seq(Blocks), Canonical(x), Canonical(y), y # <<>>
  PROVE  LET d == divideWithRemainder(x, y)
         IN /\ d.quotient \in Seq(Blocks) /\ Canonical(d.quotient)
            /\ d.remainder \in Seq(Blocks) /\ Canonical(d.remainder)
            /\ Value(x) = Value(d.quotient) * Value(y) + Value(d.remainder)
            /\ Value(d.remainder) < Value(y)
<1> DEFINE d == divideWithRemainder(x, y)
           l == Len(x) - Len(y) + 1
           n == l * N
           v == Value(y)
           X == Value(x)
<1>1. Len(x) \in Nat /\ Len(y) \in Nat /\ N \in Nat /\ v \in Nat /\ X \in Nat
  BY BlockAssumption, ValueIsFrom
<1>2. CASE Len(x) < Len(y)
  <2>1. d = [quotient |-> <<>>, remainder |-> x]
    BY <1>2, Zenon DEF divideWithRemainder
  <2>2. d.quotient = <<>> /\ d.remainder = x
    BY <2>1
  <2>3. X < v
    BY <1>2, LongerIsGreater
  <2>4. Value(<<>>) = 0 /\ 0 * v + X = X
    BY <1>1, ValueOfFew
  <2>5. <<>> \in Seq(Blocks) /\ Canonical(<<>>)
    BY DEF Canonical
  <2> HIDE DEF d, v, X
  <2>6. X = Value(d.quotient) * v + X
    BY <2>2, <2>4
  <2> QED
    BY <2>2, <2>3, <2>5, <2>6 DEF d, v, X
<1>3. CASE Len(y) <= Len(x)
  <2> DEFINE P == {s \in [quotient : Seq(Blocks), remainder : Seq(Blocks)] :
                     Len(s.quotient) = l /\ Len(s.remainder) = Len(x) + 1}
             p == [quotient |-> Zeros(l), remainder |-> Append(x, 0)]
  <2>1. n \in Nat /\ l \in Nat
    <3>1. l \in Nat
      BY <1>1, <1>3
    <3> HIDE DEF l
    <3> QED
      BY <1>1, <3>1, Products
  <2>2. /\ p.quotient \in Seq(Blocks) /\ Len(p.quotient) = l
        /\ p.remainder \in Seq(Blocks) /\ Len(p.remainder) = Len(x) + 1
        /\ DivisionInv(x, y, p.quotient, p.remainder, n)
    BY <1>3, DivisionStarts
  <2>3. p \in P
    <3>1. p = [quotient |-> p.quotient, remainder |-> p.remainder]
      OBVIOUS
    <3> HIDE DEF p
    <3>2. p \in [quotient : Seq(Blocks), remainder : Seq(Blocks)]
      BY <2>2, <3>1
    <3> QED
      BY <2>2, <3>2
  <2>4. ASSUME NEW s \in P, NEW b \in Nat, b < n
        PROVE  /\ TrySubtract(x, y, s, b) \in P
               /\ DivisionInv(x, y, s.quotient, s.remainder, b + 1) =>
                    DivisionInv(x, y, TrySubtract(x, y, s, b).quotient,
                                TrySubtract(x, y, s, b).remainder, b)
    <3> DEFINE q == s.quotient
               z == s.remainder
               s0 == [quotient |-> q, remainder |-> z]
               t == TrySubtract(x, y, s0, b)
    <3>1. q \in Seq(Blocks) /\ Len(q) = l /\ z \in Seq(Blocks) /\ Len(z) = Len(x) + 1
      OBVIOUS
    <3>2. s = s0
      OBVIOUS
    <3> HIDE DEF q, z
    <3>3. /\ t = [quotient |-> t.quotient, remainder |-> t.remainder]
          /\ t.quotient \in Seq(Blocks) /\ Len(t.quotient) = Len(q)
          /\ t.remainder \in Seq(Blocks) /\ Len(t.remainder) = Len(z)
      <4>1. Len(q) = Len(x) - Len(y) + 1 /\ b < (Len(x) - Len(y) + 1) * N
        BY <2>4, <3>1
      <4>2. IsLike(t, q, z)
        BY <1>3, <3>1, <4>1, DivisionTurnType
      <4> HIDE DEF t
      <4> QED
        BY <4>2 DEF IsLike
    <3>4. DivisionInv(x, y, q, z, b + 1) => DivisionInv(x, y, t.quotient, t.remainder, b)
      BY <1>3, <2>4, <3>1, DivisionTurnValue
    <3> HIDE DEF t, s0
    <3>5. t \in P
      <4>1. t \in [quotient : Seq(Blocks), remainder : Seq(Blocks)]
        BY <3>3
      <4> QED
        BY <3>1, <3>3, <4>1
    <3>6. TrySubtract(x, y, s, b) = t
      BY <3>2 DEF t
    <3> HIDE DEF P
    <3> QED
      BY <3>4, <3>5, <3>6 DEF q, z
  <2> HIDE DEF p
  <2>5. PICK f : /\ f[0] = p
                 /\ \A k \in 1 .. n : f[k] = TrySubtract(x, y, f[k - 1], n - k)
                 /\ d = [quotient  |-> zapLeadingZero(f[n].quotient),
                         remainder |-> zapLeadingZeros(f[n].remainder)]
    <3>1. ASSUME NEW s \in P, NEW b \in 0 .. n - 1 PROVE TrySubtract(x, y, s, b) \in P
      <4>1. b \in Nat /\ b < n
        <5> HIDE DEF n
        <5> QED
          BY <2>1
      <4> QED
        BY <2>4, <4>1
    <3> HIDE DEF P
    <3> QED
      BY <1>3, <2>3, <3>1, DivisionFolds DEF p
  <2> HIDE DEF P, n, d
  <2> DEFINE R(k) == f[k] \in P /\ DivisionInv(x, y, f[k].quotient, f[k].remainder, n - k)
             T == {k \in Nat : k <= n => R(k)}
  <2>6. R(0)
    BY <2>1, <2>2, <2>3, <2>5
  <2>7. ASSUME NEW k \in Nat, k < n, R(k) PROVE R(k + 1)
    <3> DEFINE b == n - (k + 1)
    <3>1. k + 1 \in 1 .. n /\ (k + 1) - 1 = k /\ b \in Nat /\ b < n /\ b + 1 = n - k
      BY <2>1, <2>7
    <3>2. f[k + 1] = TrySubtract(x, y, f[k], b)
      BY <2>5, <3>1
    <3> HIDE DEF b
    <3>3. f[k] \in P /\ DivisionInv(x, y, f[k].quotient, f[k].remainder, b + 1)
      BY <2>7, <3>1
    <3>4. f[k + 1] \in P /\ DivisionInv(x, y, f[k + 1].quotient, f[k + 1].remainder, b)
      BY <2>4, <3>1, <3>2, <3>3
    <3> QED
      BY <3>4 DEF b
  <2> HIDE DEF R
  <2>8. 0 \in T
    BY <2>6
  <2>9. ASSUME NEW k \in T PROVE k + 1 \in T
    <3> SUFFICES ASSUME k + 1 <= n PROVE R(k + 1)
      OBVIOUS
    <3>1. k \in Nat /\ k < n /\ R(k)
      BY <2>1
    <3> QED
      BY <2>7, <3>1
  <2>10. R(n)
    <3> HIDE DEF T
    <3>1. T \in SUBSET Nat
      BY DEF T
    <3>2. T = Nat
      BY <2>8, <2>9, <3>1, Induct
    <3>3. n \in T /\ n <= n
      BY <2>1, <3>2
    <3> QED
      BY <3>3 DEF T
  <2> DEFINE q == f[n].quotient
             z == f[n].remainder
             Q == Value(q)
             Z == Value(z)
  <2>11. /\ q \in Seq(Blocks) /\ Len(q) = l /\ z \in Seq(Blocks)
         /\ Z + Q * v = X /\ Z < Unit(0) * v
    <3>1. n - n = 0
      BY <2>1
    <3>2. f[n] \in P /\ DivisionInv(x, y, q, z, 0)
      BY <2>10, <3>1 DEF R
    <3>3. q \in Seq(Blocks) /\ Len(q) = l /\ z \in Seq(Blocks)
      BY <3>2 DEF P
    <3> QED
      BY <3>2, <3>3 DEF DivisionInv
  <2>12. Unit(0) = 1
    <3>1. 0 * N = 0 /\ 0 \in Nat
      BY <1>1
    <3> QED
      BY <3>1, BlockUnits, Weights
  <2>13. Q \in Nat /\ Z \in Nat /\ Z < v
    BY <1>1, <2>11, <2>12, ValueIsFrom
  <2>14. x # <<>> /\ q # <<>> /\ l >= 1
    <3>1. Len(y) >= 1
      BY <1>1
    <3>2. Len(x) >= 1 /\ l >= 1
      BY <1>1, <1>3, <3>1
    <3> QED
      BY <2>11, <3>2
  <2>15. d.quotient = zapLeadingZero(q) /\ d.remainder = zapLeadingZeros(z)
    BY <2>5
  <2> HIDE DEF q, z
  <2>16. /\ d.quotient \in Seq(Blocks) /\ Value(d.quotient) = Q
         /\ d.remainder \in Seq(Blocks) /\ Value(d.remainder) = Z /\ Canonical(d.remainder)
    BY <2>11, <2>14, <2>15, ZapOneFacts, ZapFacts
  <2>17. Canonical(d.quotient)
    <3>1. Len(q) = Len(x) - Len(y) + 1 /\ Z + Value(q) * Value(y) = Value(x) /\ Z < Value(y)
      BY <2>11, <2>13
    <3> HIDE DEF Z
    <3> QED
      BY <1>3, <2>11, <2>13, <2>14, <2>15, <3>1, QuotientIsLong
  <2>18. X = Q * v + Z
    <3> DEFINE m == Q * v
    <3>1. m \in Nat /\ Z + m = X
      BY <1>1, <2>11, <2>13, Products
    <3> HIDE DEF m, Z, X
    <3> QED
      BY <2>13, <3>1 DEF m
  <2> QED
    BY <2>13, <2>16, <2>17, <2>18 DEF d
<1>4. Len(x) < Len(y) \/ Len(y) <= Len(x)
  BY <1>1
<1> QED
  BY <1>2, <1>3, <1>4

\* A block of a number that is at least W(n-2) is zero at the top at most once.
LEMMA ZapOneLong ==
  ASSUME NEW z \in Seq(Blocks), z # <<>>,
         Len(z) > 1 => Weight(Len(z) - 2) <= Value(z)
  PROVE  LET r == zapLeadingZero(z)
         IN r \in Seq(Blocks) /\ Canonical(r) /\ Value(r) = Value(z)
<1> DEFINE l == Len(z)
           r == zapLeadingZero(z)
<1>1. l \in Nat /\ l >= 1
  OBVIOUS
<1>2. Last(z) = Block(z, l)
  BY LastBlock
<1>3. r \in Seq(Blocks) /\ Value(r) = Value(z)
  BY ZapOneFacts
<1>4. CASE Last(z) # 0 \/ l = 1
  BY <1>3, <1>4, ZapOneFacts
<1>5. CASE Last(z) = 0 /\ l > 1
  <2>1. Block(z, l - 1) # 0
    <3> SUFFICES ASSUME Block(z, l - 1) = 0 PROVE FALSE
      OBVIOUS
    <3> DEFINE i == l - 2
    <3>1. i \in Nat /\ i \in 0 .. Len(z) /\ \A k \in i + 1 .. Len(z) : k = l - 1 \/ k = l
      BY <1>1, <1>5
    <3>2. \A k \in i + 1 .. Len(z) : Block(z, k) = 0
      BY <1>2, <1>5, <3>1
    <3> HIDE DEF i
    <3>3. Value(z) < Weight(i)
      BY <3>1, <3>2, ZerosAbove
    <3>4. Weight(i) <= Value(z)
      BY <1>5 DEF i
    <3> QED
      BY <3>1, <3>3, <3>4, Weights, ValueIsFrom
  <2> QED
    BY <1>3, <1>5, <2>1, ZapOneFacts
<1>6. l > 1 \/ l = 1
  <2> HIDE DEF l
  <2> QED
    BY <1>1
<1> QED
  BY <1>3, <1>4, <1>5, <1>6

\* A left shift of a number other than zero multiplies it.
THEOREM LeftShiftIsRight ==
  ASSUME NEW x \in Seq(Blocks), Canonical(x), x # <<>>, NEW b \in Nat
  PROVE  /\ LeftShift(x, b) \in Seq(Blocks)
         /\ Canonical(LeftShift(x, b))
         /\ Value(LeftShift(x, b)) = Unit(b) * Value(x)
<1> DEFINE i == b \div N
           s == b % N
           z == Zeros(i) \o Shifted(x, s)
           w == Weight(i)
           p == 2 ^ s
           v == Value(x)
<1>1. i \in Nat /\ s \in 0 .. N - 1
  BY BitPlaces
<1>2. Len(x) \in Nat /\ Len(x) >= 1
  OBVIOUS
<1> HIDE DEF i, s
<1>3. Zeros(i) \in Seq(Blocks) /\ Len(Zeros(i)) = i /\ Value(Zeros(i)) = 0
  BY <1>1, ZeroBlocks
<1>4. /\ Shifted(x, s) \in Seq(Blocks) /\ Len(Shifted(x, s)) = Len(x) + 1
      /\ Value(Shifted(x, s)) = p * v
  BY <1>1, ShiftRight
<1>5. v \in Nat /\ w \in Nat \ {0} /\ p \in Nat \ {0}
  BY <1>1, ValueIsFrom, Weights, OneBit, 0 \in Nat
<1>6. z \in Seq(Blocks) /\ Len(z) = i + (Len(x) + 1) /\ Value(z) = 0 + w * (p * v)
  BY <1>3, <1>4, ConcatValue
<1>7. w * (p * v) = (w * p) * v /\ w * (p * v) \in Nat
  <2>1. p * v \in Nat
    BY <1>5, Products
  <2> QED
    BY <1>5, <2>1, Products
<1>8. Value(z) = w * (p * v)
  BY <1>6, <1>7
<1> HIDE DEF z, w, p, v
<1>9. z # <<>>
  BY <1>1, <1>2, <1>6
<1>10. Weight(Len(z) - 2) <= Value(z)
  <2> DEFINE j == Len(x) - 1
             u == Weight(j)
             m == p * v
             a == w * u
             c == w * m
  <2>1. j \in Nat /\ u <= v
    BY CanonicalIsLong DEF v
  <2>2. Len(z) - 2 = i + j
    BY <1>1, <1>2, <1>6
  <2> HIDE DEF j
  <2>3. Weight(i + j) = a /\ u \in Nat
    BY <1>1, <2>1, Weights, WeightOfSum DEF w
  <2>4. v <= m /\ m \in Nat
    <3>1. v * 1 <= v * p /\ v * p = p * v /\ v * 1 = v /\ p * v \in Nat
      BY <1>5, Products
    <3> QED
      BY <3>1
  <2> HIDE DEF u, m
  <2>5. u <= m
    BY <1>5, <2>1, <2>3, <2>4
  <2>6. a <= c
    BY <1>5, <2>3, <2>4, <2>5, Products
  <2> QED
    BY <1>8, <2>2, <2>3, <2>6 DEF m
<1>11. /\ zapLeadingZero(z) \in Seq(Blocks) /\ Canonical(zapLeadingZero(z))
       /\ Value(zapLeadingZero(z)) = Value(z)
  BY <1>6, <1>9, <1>10, ZapOneLong
<1>12. LeftShift(x, b) = zapLeadingZero(z)
  BY DEF LeftShift, z, i, s
<1>13. Unit(b) * Value(x) = (w * p) * v
  BY DEF Unit, w, p, v, i, s
<1> QED
  BY <1>7, <1>8, <1>11, <1>12, <1>13

\* How far a right shift goes to the left within blocks.
LEMMA DroppedFacts ==
  ASSUME NEW b \in Nat
  PROVE  LET dropped == (b + N - 1) \div N
             left    == N * dropped - b
         IN /\ dropped \in Nat /\ left \in 0 .. N - 1
            /\ Weight(dropped) = 2 ^ left * Unit(b)
            /\ dropped = 0 \/ (dropped - 1 \in Nat /\ Weight(dropped - 1) <= Unit(b))
<1> DEFINE i == b \div N
           s == b % N
           dropped == (b + N - 1) \div N
           left == N * dropped - b
           w == Weight(i)
<1>1. N \in Nat \ {0}
  BY BlockAssumption
<1>2. i \in Nat /\ s \in 0 .. N - 1 /\ b = N * i + s
  BY BitPlaces
<1> HIDE DEF i, s
<1>3. N * i \in Nat /\ N * (i + 1) = N * i + N
  BY <1>1, <1>2, Products
<1>4. w \in Nat \ {0} /\ Weight(i + 1) = Base * w
  BY <1>2, Weights
<1>5. Unit(b) = w * 2 ^ s
  BY DEF Unit, i, s
<1>6. CASE s = 0
  <2>1. dropped = i
    <3> DEFINE c == b + N - 1
               r == N - 1
    <3>1. c \in Nat /\ r \in Nat /\ r < N /\ c = N * i + r
      BY <1>1, <1>2, <1>3, <1>6
    <3> HIDE DEF c, r
    <3>2. c \div N = i
      BY <1>1, <1>2, <3>1, QuotientIs
    <3> QED
      BY <3>2 DEF c
  <2> HIDE DEF dropped
  <2>2. left = 0
    BY <1>2, <1>3, <1>6, <2>1
  <2>3. 2 ^ 0 = 1 /\ w * 1 = w /\ 1 * w = w
    BY <1>4, PowerAssumption
  <2>4. Unit(b) = w /\ 2 ^ left * Unit(b) = w
    BY <1>5, <1>6, <2>2, <2>3
  <2>5. i = 0 \/ (i - 1 \in Nat /\ Weight(i - 1) <= w)
    <3>1. i = 0 \/ (i - 1 \in Nat /\ i - 1 <= i)
      BY <1>2
    <3> QED
      BY <1>2, <3>1, WeightGrows
  <2>6. left \in 0 .. N - 1
    BY <1>1, <2>2
  <2> HIDE DEF left
  <2> QED
    BY <1>2, <2>1, <2>4, <2>5, <2>6 DEF dropped, left
<1>7. CASE s # 0
  <2>1. dropped = i + 1
    <3> DEFINE c == b + N - 1
               r == s - 1
               j == i + 1
               m == N * j
    <3>1. r \in Nat /\ r < N /\ j \in Nat
      BY <1>1, <1>2, <1>7
    <3>2. m = N * i + N
      BY <1>3
    <3> HIDE DEF m
    <3>3. c \in Nat /\ c = m + r
      BY <1>1, <1>2, <1>3, <1>7, <3>2
    <3> HIDE DEF c, r, j
    <3>4. c \div N = j
      BY <1>1, <3>1, <3>3, QuotientIs DEF m
    <3> QED
      BY <3>4 DEF c, j
  <2> HIDE DEF dropped
  <2>2. left = N - s
    <3> DEFINE m == N * (i + 1)
               n == N * i
    <3>1. m = n + N /\ n \in Nat /\ b = n + s
      BY <1>2, <1>3
    <3>2. left = m - b
      BY <2>1
    <3> HIDE DEF m, n, left
    <3> QED
      BY <1>1, <1>2, <3>1, <3>2
  <2>3. s \in 0 .. N /\ left \in 0 .. N - 1
    BY <1>1, <1>2, <1>7, <2>2
  <2> DEFINE p == 2 ^ s
             q == 2 ^ (N - s)
  <2>4. p \in Nat \ {0} /\ q \in Nat \ {0} /\ p * q = Base
    BY <2>3, Powers
  <2> HIDE DEF p, q
  <2>5. q * (w * p) = Base * w
    <3>1. q * (w * p) = q * (p * w) /\ q * (p * w) = (q * p) * w /\ q * p = p * q
      BY <1>4, <2>4, Products
    <3> QED
      BY <2>4, <3>1
  <2>6. w <= w * p
    <3>1. w * 1 <= w * p /\ w * 1 = w
      BY <1>4, <2>4, Products
    <3> QED
      BY <3>1
  <2>7. Weight(dropped) = 2 ^ left * Unit(b)
    BY <1>4, <1>5, <2>1, <2>2, <2>5 DEF p, q
  <2>8. dropped \in Nat /\ dropped - 1 = i
    BY <1>2, <2>1
  <2>9. dropped - 1 \in Nat /\ Weight(dropped - 1) <= Unit(b)
    BY <1>2, <1>5, <2>6, <2>8 DEF p
  <2> HIDE DEF left
  <2> QED
    BY <2>3, <2>7, <2>8, <2>9 DEF dropped, left
<1> QED
  BY <1>6, <1>7

\* A right shift divides the number, and rounds down.
THEOREM RightShiftIsRight ==
  ASSUME NEW x \in Seq(Blocks), Canonical(x), NEW b \in Nat
  PROVE  /\ RightShift(x, b) \in Seq(Blocks)
         /\ Canonical(RightShift(x, b))
         /\ Value(RightShift(x, b)) = Value(x) \div Unit(b)
<1> DEFINE dropped == (b + N - 1) \div N
           left == N * dropped - b
           n == Len(x) + 1
           sh == Shifted(x, left)
           z == [i \in 1 .. Len(x) + 1 - dropped |->
                   getShiftedBlock(x, dropped + i - 1, left)]
           u == Unit(b)
           v == Value(x)
           w == Weight(dropped)
           p == 2 ^ left
<1>1. /\ dropped \in Nat /\ left \in 0 .. N - 1 /\ w = p * u
      /\ dropped = 0 \/ (dropped - 1 \in Nat /\ Weight(dropped - 1) <= u)
  BY DroppedFacts
<1>2. u \in Nat \ {0} /\ v \in Nat /\ Len(x) \in Nat /\ n \in Nat
  <2>1. Len(x) \in Nat /\ n \in Nat
    OBVIOUS
  <2>2. u \in Nat \ {0}
    BY Units
  <2>3. v \in Nat
    BY ValueIsFrom
  <2> QED
    BY <2>1, <2>2, <2>3
<1>3. RightShift(x, b) = IF dropped >= Len(x) + 1 THEN <<>> ELSE zapLeadingZero(z)
  BY Zenon DEF RightShift
<1> HIDE DEF dropped, left
<1>4. /\ sh \in Seq(Blocks) /\ Len(sh) = n /\ Value(sh) = p * v
      /\ w \in Nat \ {0} /\ p \in Nat \ {0}
  BY <1>1, ShiftRight, Weights, OneBit, 0 \in Nat
<1>5. CASE dropped >= n
  <2>1. v < u
    <3> DEFINE j == dropped - 1
    <3>1. j \in Nat /\ Len(x) <= j /\ Weight(j) <= u
      BY <1>1, <1>2, <1>5
    <3> HIDE DEF j
    <3>2. v < Weight(j)
      BY <3>1, BelowWeight
    <3>3. Weight(j) \in Nat
      BY <3>1, Weights
    <3> HIDE DEF u, v
    <3> QED
      BY <1>2, <3>1, <3>2, <3>3
  <2>2. v = u * 0 + v /\ 0 \in Nat
    <3> HIDE DEF u, v
    <3> QED
      BY <1>2
  <2> HIDE DEF u, v
  <2>3. v \div u = 0
    BY <1>2, <2>1, <2>2, QuotientIs
  <2>4. RightShift(x, b) = <<>>
    BY <1>3, <1>5
  <2>5. <<>> \in Seq(Blocks) /\ Canonical(<<>>) /\ Value(<<>>) = 0
    BY ValueOfFew DEF Canonical
  <2> QED
    BY <2>3, <2>4, <2>5 DEF u, v
<1>6. CASE dropped < n
  <2> DEFINE lo == SubSeq(sh, 1, dropped)
             hi == SubSeq(sh, dropped + 1, Len(sh))
  <2>1. dropped \in 0 .. Len(sh)
    BY <1>1, <1>2, <1>4, <1>6
  <2>2. /\ lo \in Seq(Blocks) /\ Len(lo) = dropped
        /\ hi \in Seq(Blocks) /\ Len(hi) = n - dropped
        /\ p * v = Value(lo) + w * Value(hi)
    <3> HIDE DEF sh
    <3> QED
      BY <1>4, <2>1, CutValue
  <2>3. z = hi
    <3> DEFINE k == n - dropped
    <3>1. k \in Nat
      BY <1>1, <1>2, <1>6
    <3>2. \A i \in 1 .. k : hi[i] = sh[dropped + i]
      <4> HIDE DEF sh
      <4> QED
        BY <1>1, <1>2, <1>4, <1>6
    <3>3. \A i \in 1 .. k : dropped + i \in 1 .. n
      BY <1>1, <1>2, <1>6
    <3>4. \A j \in 1 .. n : sh[j] = getShiftedBlock(x, j - 1, left)
      BY DEF Shifted
    <3>5. z = [i \in 1 .. k |-> getShiftedBlock(x, dropped + i - 1, left)]
      <4>1. Len(x) + 1 - dropped = k
        BY <1>1, <1>2
      <4> QED
        BY <4>1, Zenon
    <3> HIDE DEF z, sh, n, k
    <3>6. ASSUME NEW i \in 1 .. k PROVE z[i] = hi[i]
      <4>1. z[i] = getShiftedBlock(x, dropped + i - 1, left)
        BY <3>5
      <4>2. hi[i] = getShiftedBlock(x, (dropped + i) - 1, left)
        BY <3>2, <3>3, <3>4
      <4>3. dropped + (i - 1) = (dropped + i) - 1
        BY <1>1, <3>1
      <4> QED
        BY <4>1, <4>2, <4>3, Zenon
    <3>7. z = [i \in 1 .. k |-> hi[i]]
      BY <3>5, <3>6
    <3> HIDE DEF hi
    <3>8. Len(hi) = k
      BY <2>2 DEF k
    <3>9. hi = [i \in 1 .. k |-> hi[i]]
      BY <2>2, <3>8
    <3> QED
      BY <3>7, <3>9
  <2> HIDE DEF z, sh, hi, lo
  <2> DEFINE q == Value(z)
             o == Value(lo)
  <2>4. z \in Seq(Blocks) /\ Len(z) = n - dropped /\ z # <<>>
    <3>1. z \in Seq(Blocks) /\ Len(z) = n - dropped
      BY <2>2, <2>3
    <3> QED
      BY <1>1, <1>2, <1>6, <3>1
  <2>5. q \in Nat /\ o \in Nat /\ o < w /\ p * v = o + w * q
    <3>1. Len(lo) <= dropped
      BY <1>1, <2>2
    <3> QED
      BY <1>1, <2>2, <2>3, <2>4, <3>1, ValueIsFrom, BelowWeight
  <2> HIDE DEF q, o, u, v, p, w
  <2>6. w * q = p * (u * q) /\ u * q \in Nat
    BY <1>1, <1>2, <1>4, <2>5, Products
  <2>7. u * q <= v
    <3> SUFFICES ASSUME v < u * q PROVE FALSE
      BY <1>2, <2>6
    <3> DEFINE m == u * q
    <3>1. m \in Nat /\ v < m
      BY <2>6
    <3> HIDE DEF m
    <3>2. p * v + p <= p * m /\ p * v \in Nat /\ p * m \in Nat
      BY <1>2, <1>4, <3>1, Products
    <3> DEFINE c == p * v
               d == p * m
    <3>3. c \in Nat /\ d \in Nat /\ c + p <= d /\ c = o + d
      BY <2>5, <2>6, <3>2 DEF m
    <3> HIDE DEF c, d
    <3> QED
      BY <1>4, <2>5, <3>3
  <2>8. v < u * q + u
    <3> SUFFICES ASSUME u * q + u <= v PROVE FALSE
      <4> DEFINE m == u * q
      <4>1. m \in Nat
        BY <2>6
      <4> HIDE DEF m
      <4>2. ~(m + u <= v) => v < m + u
        BY <1>2, <4>1
      <4> QED
        BY <4>2 DEF m
    <3> DEFINE m == u * q
    <3>1. m \in Nat /\ m + u \in Nat /\ m + u <= v
      BY <1>2, <2>6
    <3> HIDE DEF m
    <3>2. p * (m + u) <= p * v /\ p * (m + u) = p * m + p * u /\ p * v \in Nat /\ p * m \in Nat
      BY <1>2, <1>4, <3>1, Products
    <3> DEFINE c == p * v
               d == p * m
    <3>3. c \in Nat /\ d \in Nat /\ d + w <= c /\ c = o + d
      BY <1>1, <2>5, <2>6, <3>2 DEF m
    <3> HIDE DEF c, d
    <3> QED
      BY <1>4, <2>5, <3>3
  <2>9. v \div u = q
    <3> DEFINE m == u * q
               r == v - m
    <3>1. m \in Nat
      BY <2>6
    <3>2. m <= v /\ v < m + u
      BY <2>7, <2>8
    <3> HIDE DEF m
    <3>3. r \in Nat /\ r < u /\ v = m + r
      BY <1>2, <3>1, <3>2
    <3> HIDE DEF r
    <3> QED
      BY <1>2, <2>5, <3>3, QuotientIs DEF m
  <2>10. Len(z) > 1 => Weight(Len(z) - 2) <= Value(z)
    <3> SUFFICES ASSUME Len(z) > 1 PROVE Weight(Len(z) - 2) <= Value(z)
      OBVIOUS
    <3> DEFINE i == Len(z) - 2
               j == Len(x) - 1
               A == Weight(i)
               C == Weight(j)
    <3>1. i \in Nat /\ j \in Nat /\ dropped + i = j /\ x # <<>>
      <4>1. Len(z) \in Nat
        BY <2>4
      <4>2. i \in Nat /\ j \in Nat /\ dropped + i = j
        BY <1>1, <1>2, <2>4, <4>1
      <4>3. x # <<>>
        BY <4>2
      <4> QED
        BY <4>2, <4>3
    <3>2. C <= v
      BY <3>1, CanonicalIsLong DEF v
    <3> HIDE DEF i, j
    <3>3. C = w * A /\ A \in Nat /\ C \in Nat
      BY <1>1, <3>1, Weights, WeightOfSum DEF w
    <3> HIDE DEF A, C
    <3> SUFFICES ASSUME q < A PROVE FALSE
      BY <2>5, <3>3 DEF q, A, i
    <3>4. w * q + w <= w * A /\ w * q \in Nat
      BY <1>4, <2>5, <3>3, Products
    <3>5. v * 1 <= v * p /\ v * 1 = v /\ v * p = p * v /\ p * v \in Nat
      BY <1>2, <1>4, Products
    <3> DEFINE c == w * q
               d == p * v
    <3>6. c \in Nat /\ d \in Nat /\ c + w <= C /\ C <= v /\ v <= d /\ d = o + c
      BY <2>5, <3>2, <3>3, <3>4, <3>5
    <3> HIDE DEF c, d
    <3> QED
      BY <1>2, <1>4, <2>5, <3>3, <3>6
  <2>11. /\ zapLeadingZero(z) \in Seq(Blocks) /\ Canonical(zapLeadingZero(z))
         /\ Value(zapLeadingZero(z)) = Value(z)
    BY <2>4, <2>10, ZapOneLong
  <2>12. RightShift(x, b) = zapLeadingZero(z)
    <3>1. ~(dropped >= n)
      BY <1>1, <1>2, <1>6
    <3> QED
      BY <1>3, <3>1 DEF z
  <2> QED
    BY <2>9, <2>11, <2>12 DEF q, u, v
<1>7. dropped >= n \/ dropped < n
  BY <1>1, <1>2
<1> QED
  BY <1>5, <1>6, <1>7
=============================================================================
