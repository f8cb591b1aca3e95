-------------------------- MODULE BigUnsignedProofs --------------------------
(***************************************************************************)
(* Proofs about BigUnsigned, for blocks of any width and numbers of any    *)
(* length: addition, subtraction, comparison, increment and decrement      *)
(* compute what they should on the numbers that the blocks stand for, and  *)
(* keep numbers canonical.                                                 *)
(*                                                                         *)
(* Carries and values are functions defined by recursion over blocks, so   *)
(* induction is stated here for sets of naturals (Induct), and it is shown *)
(* that such functions exist (Recursion).                                  *)
(***************************************************************************)
EXTENDS BigUnsigned, FiniteSetTheorems, SequenceTheorems, TLAPS

-----------------------------------------------------------------------------
(* Induction                                                                 *)

LEMMA Least ==
  ASSUME NEW T \in SUBSET Nat, T # {}
  PROVE \E n \in T : \A m \in T : n <= m
<1> DEFINE I == {1 .. n : n \in T}
           R == StrictSubsetOrdering(Nat)
<1>1. I \subseteq FiniteSubsetsOf(Nat)
  <2>1. \A n \in Nat : IsFiniteSet(1 .. n)
    BY FS_Interval
  <2>2. \A n \in Nat : 1 .. n \subseteq Nat
    OBVIOUS
  <2> QED
    BY <2>1, <2>2 DEF FiniteSubsetsOf
<1>2. PICK J \in I : \A K \in I : <<K, J>> \notin R
  <2>1. I # {}
    OBVIOUS
  <2>2. IsWellFoundedOn(R, FiniteSubsetsOf(Nat))
    BY FS_StrictSubsetOrderingWellFounded
  <2> HIDE DEF I, R
  <2> QED
    BY <1>1, <2>1, <2>2, WFMin
<1>3. PICK n \in T : J = 1 .. n
  OBVIOUS
<1>4. ASSUME NEW m \in T PROVE n <= m
  <2> SUFFICES ASSUME m < n PROVE FALSE
    OBVIOUS
  <2>1. 1 .. m \subseteq 1 .. n /\ n \in 1 .. n /\ n \notin 1 .. m
    OBVIOUS
  <2>2. 1 .. m \in SUBSET Nat /\ 1 .. n \in SUBSET Nat
    OBVIOUS
  <2>3. <<1 .. m, 1 .. n>> \in R
    BY <2>1, <2>2 DEF StrictSubsetOrdering
  <2> QED
    BY <1>2, <1>3, <2>3
<1> QED
  BY <1>3, <1>4

LEMMA Induct ==
  ASSUME NEW S \in SUBSET Nat, 0 \in S, \A n \in S : n + 1 \in S
  PROVE  S = Nat
<1> SUFFICES ASSUME Nat \ S # {} PROVE FALSE
  OBVIOUS
<1>1. PICK n \in Nat \ S : \A m \in Nat \ S : n <= m
  BY Least
<1>2. n # 0
  BY <1>1
<1>3. n - 1 \in S
  BY <1>1, <1>2
<1> QED
  BY <1>1, <1>3

\* From n down to 0.
LEMMA InductDown ==
  ASSUME NEW n \in Nat, NEW S \in SUBSET (0 .. n), n \in S,
         \A k \in 0 .. n - 1 : k + 1 \in S => k \in S
  PROVE  \A k \in 0 .. n : k \in S
<1> DEFINE T == {j \in Nat : j <= n => n - j \in S}
<1>1. 0 \in T
  OBVIOUS
<1>2. ASSUME NEW j \in T PROVE j + 1 \in T
  <2> SUFFICES ASSUME j + 1 <= n PROVE n - (j + 1) \in S
    OBVIOUS
  <2>1. n - j \in S /\ n - (j + 1) \in 0 .. n - 1 /\ (n - (j + 1)) + 1 = n - j
    OBVIOUS
  <2> QED
    BY <2>1
<1>3. T = Nat
  <2> HIDE DEF T
  <2>1. T \in SUBSET Nat
    BY DEF T
  <2> QED
    BY <1>1, <1>2, <2>1, Induct
<1>4. ASSUME NEW k \in 0 .. n PROVE k \in S
  <2>1. n - k \in Nat /\ n - k <= n /\ n - (n - k) = k
    OBVIOUS
  <2>2. n - k \in T
    <3> HIDE DEF T
    <3> QED
      BY <1>3, <2>1
  <2>3. n - (n - k) \in S
    BY <2>1, <2>2
  <2> QED
    BY <2>1, <2>3
<1> QED
  BY <1>4

\* The largest element of a set of naturals that is bounded, by Max.
LEMMA MaxFacts ==
  ASSUME NEW n \in Nat, NEW S \in SUBSET (0 .. n), S # {}
  PROVE  Max(S) \in S /\ \A i \in S : i <= Max(S)
<1> DEFINE T == {n - i : i \in S}
<1>1. T \in SUBSET Nat /\ T # {}
  <2>1. \A i \in S : n - i \in Nat
    OBVIOUS
  <2> QED
    BY <2>1
<1>2. PICK t \in T : \A u \in T : t <= u
  <2> HIDE DEF T
  <2> QED
    BY <1>1, Least
<1>3. PICK m \in S : t = n - m
  OBVIOUS
<1>4. ASSUME NEW i \in S PROVE m >= i
  <2>1. n - i \in T
    OBVIOUS
  <2>2. n - m <= n - i
    BY <1>2, <1>3, <2>1
  <2>3. m \in Int /\ i \in Int
    OBVIOUS
  <2> HIDE DEF T
  <2> QED
    BY <2>2, <2>3
<1>5. \E m1 \in S : \A i \in S : m1 >= i
  BY <1>4
<1> QED
  BY <1>5 DEF Max

\* There is a function that starts at zero and that each step computes from
\* the value before.
LEMMA Recursion ==
  ASSUME NEW n \in Nat, NEW F \in [1 .. n -> [Nat -> Nat]]
  PROVE  \E c \in [0 .. n -> Nat] : c[0] = 0 /\ \A k \in 1 .. n : c[k] = F[k][c[k - 1]]
<1> DEFINE Q(m) == \E c \in [0 .. m -> Nat] :
                      c[0] = 0 /\ \A k \in 1 .. m : c[k] = F[k][c[k - 1]]
           S == {m \in 0 .. n : Q(m)}
           T == {m \in Nat : m <= n => m \in S}
<1>1. Q(0)
  <2> DEFINE d == [k \in 0 .. 0 |-> 0]
  <2>1. d \in [0 .. 0 -> Nat] /\ d[0] = 0
    OBVIOUS
  <2>2. \A k \in 1 .. 0 : d[k] = F[k][d[k - 1]]
    OBVIOUS
  <2> HIDE DEF d
  <2> QED
    BY <2>1, <2>2
<1>2. ASSUME NEW m \in 0 .. n - 1, Q(m) PROVE Q(m + 1)
  <2>1. PICK c \in [0 .. m -> Nat] :
          c[0] = 0 /\ \A k \in 1 .. m : c[k] = F[k][c[k - 1]]
    BY <1>2
  <2> DEFINE d == [k \in 0 .. m + 1 |-> IF k = m + 1 THEN F[m + 1][c[m]] ELSE c[k]]
  <2>2. F[m + 1][c[m]] \in Nat
    <3>1. m + 1 \in 1 .. n /\ c[m] \in Nat
      OBVIOUS
    <3> QED
      BY <3>1
  <2>3. d \in [0 .. m + 1 -> Nat]
    <3>1. \A k \in 0 .. m + 1 : k # m + 1 => c[k] \in Nat
      OBVIOUS
    <3> QED
      BY <2>2, <3>1
  <2>4. d[0] = 0
    BY <2>1
  <2>5. ASSUME NEW k \in 1 .. m + 1 PROVE d[k] = F[k][d[k - 1]]
    <3>1. CASE k = m + 1
      <4>1. d[m + 1] = F[m + 1][c[m]] /\ d[m] = c[m] /\ k - 1 = m
        BY <3>1
      <4> HIDE DEF d
      <4> QED
        BY <3>1, <4>1
    <3>2. CASE k \in 1 .. m
      <4>1. k \in 0 .. m + 1 /\ k - 1 \in 0 .. m + 1 /\ k # m + 1 /\ k - 1 # m + 1
        BY <3>2
      <4>2. d[k] = c[k] /\ d[k - 1] = c[k - 1]
        BY <4>1
      <4> HIDE DEF d
      <4> QED
        BY <2>1, <3>2, <4>2
    <3>3. k = m + 1 \/ k \in 1 .. m
      OBVIOUS
    <3> QED
      BY <3>1, <3>2, <3>3
  <2> HIDE DEF d
  <2> QED
    BY <2>3, <2>4, <2>5
<1> HIDE DEF Q
<1>3. 0 \in T
  BY <1>1
<1>4. ASSUME NEW m \in T PROVE m + 1 \in T
  <2> SUFFICES ASSUME m + 1 <= n PROVE Q(m + 1)
    OBVIOUS
  <2>1. m \in 0 .. n - 1 /\ Q(m)
    OBVIOUS
  <2> QED
    BY <1>2, <2>1
<1>5. T = Nat
  <2> HIDE DEF T
  <2>1. T \in SUBSET Nat
    BY DEF T
  <2> QED
    BY <1>3, <1>4, <2>1, Induct
<1>6. n \in S
  BY <1>5
<1>7. Q(n)
  BY <1>6
<1> QED
  BY <1>7 DEF Q

-----------------------------------------------------------------------------
(* Values                                                                    *)

LEMMA BaseType == Base \in Nat /\ Base > 1
  BY BlockAssumption DEF Base

\* The numbers that the digits after the k-th stand for, in a radix.
Tails(x, r) ==
  LET v[k \in 0 .. Len(x)] == IF k = Len(x) THEN 0 ELSE x[k + 1] + r * v[k + 1]
  IN v

\* Such numbers exist.
LEMMA TailsExist ==
  ASSUME NEW x \in Seq(Nat), NEW r \in Nat
  PROVE  \E v : v = [k \in 0 .. Len(x) |->
                       IF k = Len(x) THEN 0 ELSE x[k + 1] + r * v[k + 1]]
<1> DEFINE n == Len(x)
           F == [k \in 1 .. n |-> [t \in Nat |-> x[(n - k) + 1] + r * t]]
<1>1. n \in Nat
  OBVIOUS
<1>2. F \in [1 .. n -> [Nat -> Nat]]
  <2>1. \A a \in Nat, b \in Nat, c \in Nat : a + b * c \in Nat
    OBVIOUS
  <2>2. \A k \in 1 .. n : x[(n - k) + 1] \in Nat
    <3>1. \A k \in 1 .. n : (n - k) + 1 \in 1 .. n
      OBVIOUS
    <3> QED
      BY <3>1
  <2>3. \A k \in 1 .. n, t \in Nat : x[(n - k) + 1] + r * t \in Nat
    <3> HIDE DEF n
    <3> QED
      BY <2>1, <2>2
  <2> QED
    BY <2>3
<1>3. PICK c \in [0 .. n -> Nat] : c[0] = 0 /\ \A k \in 1 .. n : c[k] = F[k][c[k - 1]]
  <2> HIDE DEF n, F
  <2> QED
    BY <1>1, <1>2, Recursion
<1> DEFINE v == [k \in 0 .. n |-> c[n - k]]
<1>4. ASSUME NEW k \in 0 .. n
      PROVE  v[k] = IF k = n THEN 0 ELSE x[k + 1] + r * v[k + 1]
  <2>1. CASE k = n
    <3>1. n - n = 0 /\ n \in 0 .. n
      BY <1>1
    <3>2. v[n] = c[0]
      <4> HIDE DEF n
      <4> QED
        BY <3>1
    <3> QED
      BY <1>3, <2>1, <3>2
  <2>2. CASE k # n
    <3>1. n - k \in 1 .. n /\ (n - k) - 1 = n - (k + 1) /\ k + 1 \in 0 .. n
      BY <2>2
    <3>2. c[n - k] = F[n - k][c[n - (k + 1)]]
      BY <1>3, <3>1
    <3>3. (n - (n - k)) + 1 = k + 1 /\ n - (k + 1) \in 0 .. n
      BY <1>1, <2>2
    <3>4. c[n - (k + 1)] \in Nat
      BY <3>3
    <3>5. F[n - k][c[n - (k + 1)]] = x[k + 1] + r * c[n - (k + 1)]
      <4> HIDE DEF n
      <4> QED
        BY <3>1, <3>3, <3>4
    <3>6. v[k] = c[n - k] /\ v[k + 1] = c[n - (k + 1)]
      <4> HIDE DEF n
      <4> QED
        BY <3>1
    <3> HIDE DEF v, F
    <3> QED
      BY <2>2, <3>2, <3>5, <3>6
  <2> QED
    BY <2>1, <2>2
<1>5. v = [k \in 0 .. n |-> IF k = n THEN 0 ELSE x[k + 1] + r * v[k + 1]]
  <2>1. v = [k \in 0 .. n |-> v[k]]
    OBVIOUS
  <2> HIDE DEF v
  <2> QED
    BY <1>4, <2>1
<1> QED
  BY <1>5

\* They are naturals, and follow from those of the digits that come after.
LEMMA TailsFacts ==
  ASSUME NEW x \in Seq(Nat), NEW r \in Nat
  PROVE  /\ Tails(x, r) \in [0 .. Len(x) -> Nat]
         /\ Tails(x, r)[Len(x)] = 0
         /\ \A k \in 0 .. Len(x) - 1 : Tails(x, r)[k] = x[k + 1] + r * Tails(x, r)[k + 1]
<1>1. PICK g : g = [k \in 0 .. Len(x) |->
                      IF k = Len(x) THEN 0 ELSE x[k + 1] + r * g[k + 1]]
  BY TailsExist
<1>2. Tails(x, r) = [k \in 0 .. Len(x) |->
                     IF k = Len(x) THEN 0 ELSE x[k + 1] + r * Tails(x, r)[k + 1]]
  BY <1>1 DEF Tails
<1> DEFINE v == Tails(x, r)
           n == Len(x)
<1>3. n \in Nat /\ \A k \in 0 .. n - 1 : x[k + 1] \in Nat
  OBVIOUS
<1>4. /\ DOMAIN v = 0 .. n
      /\ \A k \in 0 .. n : v[k] = IF k = n THEN 0 ELSE x[k + 1] + r * v[k + 1]
  BY <1>2
<1> DEFINE S == {k \in 0 .. n : v[k] \in Nat}
<1>5. n \in S
  BY <1>3, <1>4
<1>6. ASSUME NEW k \in 0 .. n - 1, k + 1 \in S PROVE k \in S
  <2>1. v[k] = x[k + 1] + r * v[k + 1] /\ v[k + 1] \in Nat /\ k \in 0 .. n
    BY <1>3, <1>4, <1>6
  <2>2. \A a \in Nat, b \in Nat, c \in Nat : a + b * c \in Nat
    OBVIOUS
  <2>3. x[k + 1] \in Nat
    BY <1>3
  <2> HIDE DEF v, n
  <2>4. v[k] \in Nat
    BY <2>1, <2>2, <2>3
  <2> QED
    BY <2>1, <2>4
<1>7. \A k \in 0 .. n : k \in S
  <2> HIDE DEF S, n
  <2>1. S \in SUBSET (0 .. n)
    BY DEF S
  <2> QED
    BY <1>3, <1>5, <1>6, <2>1, InductDown
<1>8. v \in [0 .. n -> Nat]
  <2>1. v = [k \in 0 .. n |-> v[k]]
    BY <1>2
  <2> QED
    BY <1>7, <2>1
<1> QED
  BY <1>3, <1>4, <1>8
\* Those of blocks.
LEMMA ValuesFacts ==
  ASSUME NEW x \in Seq(Nat)
  PROVE  /\ Values(x) \in [0 .. Len(x) -> Nat]
         /\ Values(x)[Len(x)] = 0
         /\ \A k \in 0 .. Len(x) - 1 : Values(x)[k] = x[k + 1] + Base * Values(x)[k + 1]
<1>1. Values(x) = Tails(x, Base)
  BY DEF Values, Tails
<1>2. Base \in Nat
  BY BaseType
<1> QED
  BY <1>1, <1>2, TailsFacts, Zenon

\* The number that the blocks of x after the k-th stand for.
From(x, k) == IF k <= Len(x) THEN Values(x)[k] ELSE 0

LEMMA BlocksType ==
  ASSUME NEW x \in Seq(Blocks)
  PROVE  /\ x \in Seq(Nat)
         /\ Len(x) \in Nat
         /\ \A k \in Nat : Block(x, k) \in Blocks /\ (k > Len(x) => Block(x, k) = 0)
         /\ \A k \in 1 .. Len(x) : Block(x, k) = x[k]
<1>1. Blocks \subseteq Nat /\ 0 \in Blocks
  BY BaseType DEF Blocks
<1>2. x \in Seq(Nat)
  BY <1>1, SeqMonotonic
<1>3. Len(x) \in Nat /\ DOMAIN x = 1 .. Len(x) /\ \A k \in 1 .. Len(x) : x[k] \in Blocks
  OBVIOUS
<1> QED
  BY <1>1, <1>2, <1>3 DEF Block

LEMMA FromFacts ==
  ASSUME NEW x \in Seq(Blocks), NEW k \in Nat
  PROVE  /\ From(x, k) \in Nat
         /\ k >= Len(x) => From(x, k) = 0
         /\ From(x, k) = Block(x, k + 1) + Base * From(x, k + 1)
<1> DEFINE n == Len(x)
<1>1. n \in Nat /\ x \in Seq(Nat)
  BY BlocksType
<1>2. /\ \A j \in 0 .. n : Values(x)[j] \in Nat
      /\ Values(x)[n] = 0
      /\ \A j \in 0 .. n - 1 : Values(x)[j] = x[j + 1] + Base * Values(x)[j + 1]
  BY <1>1, ValuesFacts
<1>3. From(x, k) \in Nat
  BY <1>1, <1>2 DEF From
<1>4. k >= n => From(x, k) = 0
  BY <1>1, <1>2 DEF From
<1>5. From(x, k) = Block(x, k + 1) + Base * From(x, k + 1)
  <2>1. CASE k \in 0 .. n - 1
    <3>1. k + 1 \in 1 .. n /\ k <= n /\ k + 1 <= n
      BY <1>1, <2>1
    <3>2. Block(x, k + 1) = x[k + 1]
      BY <3>1, BlocksType
    <3>3. From(x, k) = Values(x)[k] /\ From(x, k + 1) = Values(x)[k + 1]
      BY <3>1 DEF From
    <3> QED
      BY <1>2, <2>1, <3>2, <3>3
  <2>2. CASE k >= n
    <3>1. k + 1 \in Nat /\ k + 1 > n
      BY <1>1, <2>2
    <3>2. Block(x, k + 1) = 0
      BY <3>1, BlocksType
    <3>3. From(x, k + 1) = 0
      BY <1>1, <3>1 DEF From
    <3> QED
      BY <1>4, <2>2, <3>2, <3>3, BaseType
  <2> QED
    BY <1>1, <2>1, <2>2
<1> QED
  BY <1>3, <1>4, <1>5

LEMMA ValueIsFrom ==
  ASSUME NEW x \in Seq(Blocks)
  PROVE  Value(x) = From(x, 0) /\ Value(x) \in Nat
<1>1. Len(x) \in Nat
  OBVIOUS
<1>2. Value(x) = From(x, 0)
  BY <1>1 DEF Value, From
<1> QED
  BY <1>2, FromFacts

LEMMA TurnSums ==
  \A b \in Nat, r \in Nat, x \in Nat, y \in Nat, r0 \in Nat, x0 \in Nat, y0 \in Nat,
     in \in Nat, out \in Nat :
    r = x + y + out /\ r0 + b * out = x0 + y0 + in
      => r0 + b * r = (x0 + b * x) + (y0 + b * y) + in
<1> SUFFICES ASSUME NEW b \in Nat, NEW r \in Nat, NEW x \in Nat, NEW y \in Nat,
                    NEW r0 \in Nat, NEW x0 \in Nat, NEW y0 \in Nat,
                    NEW in \in Nat, NEW out \in Nat,
                    r = x + y + out, r0 + b * out = x0 + y0 + in
             PROVE  r0 + b * r = (x0 + b * x) + (y0 + b * y) + in
  OBVIOUS
<1>1. b * (x + y + out) = b * x + b * y + b * out
  OBVIOUS
<1>2. b * r = b * x + b * y + b * out
  BY <1>1
<1> QED
  BY <1>2

\* If two blocks and what is carried in make a block and what is carried out,
\* the numbers from there on add up likewise.
LEMMA SummationStep ==
  ASSUME NEW x \in Seq(Blocks), NEW y \in Seq(Blocks), NEW r \in Seq(Blocks),
         NEW k \in Nat, NEW in \in Nat, NEW out \in Nat,
         From(r, k + 1) = From(x, k + 1) + From(y, k + 1) + out,
         Block(r, k + 1) + Base * out = Block(x, k + 1) + Block(y, k + 1) + in
  PROVE  From(r, k) = From(x, k) + From(y, k) + in
<1>1. /\ From(r, k) = Block(r, k + 1) + Base * From(r, k + 1)
      /\ From(x, k) = Block(x, k + 1) + Base * From(x, k + 1)
      /\ From(y, k) = Block(y, k + 1) + Base * From(y, k + 1)
  BY FromFacts
<1>2. /\ From(r, k + 1) \in Nat /\ From(x, k + 1) \in Nat /\ From(y, k + 1) \in Nat
      /\ Block(r, k + 1) \in Nat /\ Block(x, k + 1) \in Nat /\ Block(y, k + 1) \in Nat
  BY k + 1 \in Nat, FromFacts, BlocksType DEF Blocks
<1>3. Block(r, k + 1) + Base * From(r, k + 1)
        = (Block(x, k + 1) + Base * From(x, k + 1))
          + (Block(y, k + 1) + Base * From(y, k + 1)) + in
  <2> DEFINE r1 == From(r, k + 1)
             x1 == From(x, k + 1)
             y1 == From(y, k + 1)
             r0 == Block(r, k + 1)
             x0 == Block(x, k + 1)
             y0 == Block(y, k + 1)
  <2>1. /\ r1 \in Nat /\ x1 \in Nat /\ y1 \in Nat
        /\ r0 \in Nat /\ x0 \in Nat /\ y0 \in Nat
        /\ r1 = x1 + y1 + out /\ r0 + Base * out = x0 + y0 + in
    BY <1>2
  <2> HIDE DEF r1, x1, y1, r0, x0, y0
  <2>2. r0 + Base * r1 = (x0 + Base * x1) + (y0 + Base * y1) + in
    BY <2>1, BaseType, TurnSums
  <2> QED
    BY <2>2 DEF r1, x1, y1, r0, x0, y0
<1> QED
  BY <1>1, <1>3

\* The same in every place.
LEMMA Summation ==
  ASSUME NEW x \in Seq(Blocks), NEW y \in Seq(Blocks), NEW r \in Seq(Blocks),
         NEW n \in Nat, NEW c \in [0 .. n -> Nat],
         From(r, n) = From(x, n) + From(y, n) + c[n],
         \A k \in 0 .. n - 1 :
           Block(r, k + 1) + Base * c[k + 1] = Block(x, k + 1) + Block(y, k + 1) + c[k]
  PROVE  Value(r) = Value(x) + Value(y) + c[0]
<1> DEFINE S == {k \in 0 .. n : From(r, k) = From(x, k) + From(y, k) + c[k]}
<1>1. n \in S
  OBVIOUS
<1>2. ASSUME NEW k \in 0 .. n - 1, k + 1 \in S PROVE k \in S
  <2>1. k \in Nat /\ k \in 0 .. n /\ c[k] \in Nat /\ c[k + 1] \in Nat
    OBVIOUS
  <2>2. From(r, k + 1) = From(x, k + 1) + From(y, k + 1) + c[k + 1]
    BY <1>2
  <2>3. From(r, k) = From(x, k) + From(y, k) + c[k]
    BY <2>1, <2>2, SummationStep
  <2> QED
    BY <2>1, <2>3
<1>3. \A k \in 0 .. n : k \in S
  <2> HIDE DEF S
  <2>1. S \in SUBSET (0 .. n)
    BY DEF S
  <2> QED
    BY <1>1, <1>2, <2>1, InductDown
<1>4. From(r, 0) = From(x, 0) + From(y, 0) + c[0]
  BY <1>3
<1> QED
  BY <1>4, ValueIsFrom

LEMMA LessBlock ==
  \A b \in Nat, x \in Nat, y \in Nat, x0 \in Nat, y0 \in Nat :
    x0 < b /\ x < y => x0 + b * x < y0 + b * y
<1> SUFFICES ASSUME NEW b \in Nat, NEW x \in Nat, NEW y \in Nat,
                    NEW x0 \in Nat, NEW y0 \in Nat, x0 < b, x < y
             PROVE  x0 + b * x < y0 + b * y
  OBVIOUS
<1>1. \A p \in Nat, q \in Nat : p <= q => b * p <= b * q
  BY Z3
<1>2. b * (x + 1) <= b * y
  BY <1>1
<1>3. b * (x + 1) = b * x + b
  OBVIOUS
<1> QED
  BY <1>2, <1>3

\* A number that is less from some place on is less.
LEMMA LessBelow ==
  ASSUME NEW x \in Seq(Blocks), NEW y \in Seq(Blocks), NEW n \in Nat,
         From(x, n) < From(y, n)
  PROVE  Value(x) < Value(y)
<1> DEFINE S == {k \in 0 .. n : From(x, k) < From(y, k)}
<1>1. n \in S
  OBVIOUS
<1>2. ASSUME NEW k \in 0 .. n - 1, k + 1 \in S PROVE k \in S
  <2>1. k \in Nat /\ k + 1 \in Nat /\ k \in 0 .. n
    OBVIOUS
  <2>2. From(x, k + 1) < From(y, k + 1)
    BY <1>2
  <2>3. /\ From(x, k) = Block(x, k + 1) + Base * From(x, k + 1)
        /\ From(y, k) = Block(y, k + 1) + Base * From(y, k + 1)
    BY <2>1, FromFacts
  <2>4. From(x, k + 1) \in Nat /\ From(y, k + 1) \in Nat
    BY <2>1, FromFacts
  <2>5. Block(x, k + 1) \in 0 .. Base - 1 /\ Block(y, k + 1) \in 0 .. Base - 1
    BY <2>1, BlocksType DEF Blocks
  <2> DEFINE x1 == From(x, k + 1)
             y1 == From(y, k + 1)
             x0 == Block(x, k + 1)
             y0 == Block(y, k + 1)
  <2>6. /\ x1 \in Nat /\ y1 \in Nat /\ x1 < y1
        /\ x0 \in 0 .. Base - 1 /\ y0 \in 0 .. Base - 1
    BY <2>2, <2>4, <2>5
  <2>7. From(x, k) = x0 + Base * x1 /\ From(y, k) = y0 + Base * y1
    BY <2>3
  <2> HIDE DEF x1, y1, x0, y0
  <2>8. x0 + Base * x1 < y0 + Base * y1
    BY <2>6, BaseType, LessBlock
  <2>9. From(x, k) < From(y, k)
    BY <2>7, <2>8
  <2> QED
    BY <2>1, <2>9
<1>3. \A k \in 0 .. n : k \in S
  <2> HIDE DEF S
  <2>1. S \in SUBSET (0 .. n)
    BY DEF S
  <2> QED
    BY <1>1, <1>2, <2>1, InductDown
<1>4. From(x, 0) < From(y, 0)
  BY <1>3
<1> QED
  BY <1>4, ValueIsFrom

\* Leading zeros do not count.
LEMMA SameBlocks ==
  ASSUME NEW x \in Seq(Blocks), NEW y \in Seq(Blocks), NEW m \in Nat,
         \A k \in Nat : k > m => Block(x, k) = Block(y, k)
  PROVE  From(x, m) = From(y, m)
<1> PICK n \in Nat : n >= Len(x) /\ n >= Len(y) /\ n >= m
  <2>1. Len(x) \in Nat /\ Len(y) \in Nat
    OBVIOUS
  <2> QED
    BY <2>1, Len(x) + Len(y) + m \in Nat
<1> DEFINE S == {k \in 0 .. n : k >= m => From(x, k) = From(y, k)}
<1>1. n \in S
  BY FromFacts
<1>2. ASSUME NEW k \in 0 .. n - 1, k + 1 \in S PROVE k \in S
  <2> SUFFICES ASSUME k >= m PROVE From(x, k) = From(y, k)
    OBVIOUS
  <2>1. k \in Nat /\ k + 1 \in Nat /\ k + 1 >= m /\ k + 1 > m
    OBVIOUS
  <2>2. From(x, k + 1) = From(y, k + 1)
    BY <1>2, <2>1
  <2>3. Block(x, k + 1) = Block(y, k + 1)
    BY <2>1
  <2>4. /\ From(x, k) = Block(x, k + 1) + Base * From(x, k + 1)
        /\ From(y, k) = Block(y, k + 1) + Base * From(y, k + 1)
    BY <2>1, FromFacts
  <2> QED
    BY <2>2, <2>3, <2>4
<1>3. \A k \in 0 .. n : k \in S
  <2> HIDE DEF S
  <2>1. S \in SUBSET (0 .. n)
    BY DEF S
  <2> QED
    BY <1>1, <1>2, <2>1, InductDown
<1> QED
  BY <1>3

\* A canonical number with more blocks is greater.
LEMMA LongerIsGreater ==
  ASSUME NEW x \in Seq(Blocks), NEW y \in Seq(Blocks), Canonical(y), Len(x) < Len(y)
  PROVE  Value(x) < Value(y)
<1> DEFINE n == Len(y) - 1
<1>1. n \in Nat /\ n >= Len(x) /\ n + 1 = Len(y) /\ y # <<>>
  OBVIOUS
<1>2. From(x, n) = 0 /\ From(y, n + 1) = 0
  <2>1. n + 1 \in Nat
    BY <1>1
  <2> HIDE DEF n
  <2> QED
    BY <1>1, <2>1, FromFacts
<1>3. Block(y, n + 1) \in Nat /\ Block(y, n + 1) # 0
  <2>1. Block(y, n + 1) = y[n + 1] /\ Block(y, n + 1) \in Blocks
    BY <1>1, BlocksType
  <2>2. Last(y) = y[n + 1]
    BY <1>1 DEF Last
  <2> QED
    BY <1>1, <2>1, <2>2 DEF Canonical, Blocks
<1>4. From(y, n) = Block(y, n + 1) + Base * From(y, n + 1)
  BY <1>1, FromFacts
<1>5. From(x, n) < From(y, n)
  BY <1>2, <1>3, <1>4, BaseType
<1> QED
  BY <1>1, <1>5, LessBelow
-----------------------------------------------------------------------------
(* Turns of the loops                                                        *)

\* What wraps, of a sum or a difference of two blocks.
LEMMA WrapFacts ==
  ASSUME NEW t \in Int
  PROVE  /\ t \in 0 .. Base - 1 => Wrapped(t) = t
         /\ t \in Base .. 2 * Base - 1 => Wrapped(t) = t - Base
         /\ t \in -Base .. -1 => Wrapped(t) = t + Base
  BY BaseType, Z3 DEF Wrapped

LEMMA AddBlockRight ==
  ASSUME NEW x \in Blocks, NEW y \in Blocks, NEW c \in {0, 1}
  PROVE  /\ AddBlock(x, y, c).blk \in Blocks
         /\ AddBlock(x, y, c).blk + Base * AddBlock(x, y, c).out = x + y + c
<1>1. x + y \in 0 .. 2 * Base - 2
  BY BaseType DEF Blocks
<1>2. \/ x + y < Base /\ Wrapped(x + y) = x + y
      \/ x + y >= Base /\ Wrapped(x + y) = x + y - Base
  BY <1>1, BaseType, WrapFacts DEF Blocks
<1> QED
  BY <1>1, <1>2, BaseType, WrapFacts DEF Blocks, AddBlock

LEMMA SubtractBlockRight ==
  ASSUME NEW x \in Blocks, NEW y \in Blocks, NEW c \in {0, 1}
  PROVE  /\ SubtractBlock(x, y, c).blk \in Blocks
         /\ x + Base * SubtractBlock(x, y, c).out = SubtractBlock(x, y, c).blk + y + c
<1>1. x - y \in -Base .. Base - 1
  BY BaseType DEF Blocks
<1>2. \/ x >= y /\ Wrapped(x - y) = x - y
      \/ x < y /\ Wrapped(x - y) = x - y + Base
  BY <1>1, BaseType, WrapFacts DEF Blocks
<1> QED
  BY <1>1, <1>2, BaseType, WrapFacts DEF Blocks, SubtractBlock

\* The loops of add(): block by block, the sum and the carry are right.
LEMMA AddChain ==
  ASSUME NEW x \in Seq(Blocks), NEW y \in Seq(Blocks)
  PROVE  LET r == Chain(AddBlock, x, y)
         IN /\ r.blk \in Seq(Blocks)
            /\ Len(r.blk) = Len(x)
            /\ \E c \in [0 .. Len(x) -> {0, 1}] :
                 /\ c[0] = 0
                 /\ r.out = c[Len(x)]
                 /\ \A k \in 0 .. Len(x) - 1 :
                      Block(r.blk, k + 1) + Base * c[k + 1]
                        = Block(x, k + 1) + Block(y, k + 1) + c[k]
<1> DEFINE n == Len(x)
           Out(k, t) == AddBlock(x[k], Block(y, k), t).out
           Blk(k, t) == AddBlock(x[k], Block(y, k), t).blk
           F == [k \in 1 .. n |-> [t \in Nat |-> Out(k, t)]]
           c == CHOOSE g : g = [k \in 0 .. n |-> IF k = 0 THEN 0 ELSE Out(k, g[k - 1])]
           blk == [k \in 1 .. n |-> Blk(k, c[k - 1])]
<1>1. Chain(AddBlock, x, y) = [blk |-> blk, out |-> c[n]]
  BY DEF Chain
<1>2. \A k, t : Out(k, t) \in {0, 1}
  BY DEF AddBlock
<1>3. n \in Nat
  OBVIOUS
<1> HIDE DEF Out
<1>4. \E g : g = [k \in 0 .. n |-> IF k = 0 THEN 0 ELSE Out(k, g[k - 1])]
  <2>1. F \in [1 .. n -> [Nat -> Nat]]
    BY <1>2
  <2>2. PICK g \in [0 .. n -> Nat] : g[0] = 0 /\ \A k \in 1 .. n : g[k] = F[k][g[k - 1]]
    <3> HIDE DEF n, F
    <3> QED
      BY <1>3, <2>1, Recursion
  <2>3. ASSUME NEW k \in 0 .. n PROVE g[k] = IF k = 0 THEN 0 ELSE Out(k, g[k - 1])
    <3>1. CASE k = 0
      BY <2>2, <3>1
    <3>2. CASE k # 0
      <4>1. k \in 1 .. n /\ k - 1 \in 0 .. n
        BY <1>3, <3>2
      <4>2. g[k - 1] \in Nat
        BY <4>1
      <4> QED
        BY <2>2, <3>2, <4>1, <4>2
    <3> QED
      BY <3>1, <3>2
  <2>4. g = [k \in 0 .. n |-> g[k]]
    OBVIOUS
  <2> QED
    BY <2>3, <2>4
<1>5. c = [k \in 0 .. n |-> IF k = 0 THEN 0 ELSE Out(k, c[k - 1])]
  BY <1>4
<1> HIDE DEF c
<1>6. c \in [0 .. n -> {0, 1}] /\ c[0] = 0
  BY <1>2, <1>3, <1>5
<1>7. ASSUME NEW k \in 0 .. n - 1
      PROVE  /\ Blk(k + 1, c[k]) \in Blocks
             /\ Blk(k + 1, c[k]) + Base * c[k + 1] = Block(x, k + 1) + Block(y, k + 1) + c[k]
  <2>1. /\ k + 1 \in 1 .. n /\ k + 1 \in Nat /\ k \in 0 .. n /\ k + 1 \in 0 .. n
        /\ (k + 1) - 1 = k
    BY <1>3
  <2>2. c[k + 1] = Out(k + 1, c[k])
    <3>1. k + 1 # 0
      BY <2>1
    <3> QED
      BY <1>5, <2>1, <3>1
  <2>3. Block(x, k + 1) = x[k + 1] /\ x[k + 1] \in Blocks /\ Block(y, k + 1) \in Blocks
    BY <2>1, BlocksType
  <2>4. c[k] \in {0, 1}
    BY <1>6, <2>1
  <2> QED
    BY <2>2, <2>3, <2>4, AddBlockRight DEF Out
<1>8. blk \in Seq(Blocks) /\ Len(blk) = n
  <2>1. ASSUME NEW k \in 1 .. n PROVE Blk(k, c[k - 1]) \in Blocks
    <3>1. k - 1 \in 0 .. n - 1 /\ (k - 1) + 1 = k
      BY <1>3
    <3> HIDE DEF Blk
    <3> QED
      BY <1>7, <3>1
  <2> HIDE DEF Blk
  <2>2. blk \in [1 .. n -> Blocks]
    BY <2>1
  <2>3. blk \in Seq(Blocks)
    BY <1>3, <2>2, SeqDef
  <2> HIDE DEF blk
  <2> QED
    BY <1>3, <2>2, <2>3
<1>9. ASSUME NEW k \in 0 .. n - 1 PROVE Block(blk, k + 1) = Blk(k + 1, c[k])
  <2>1. k + 1 \in 1 .. n /\ (k + 1) - 1 = k
    BY <1>3
  <2>2. Block(blk, k + 1) = blk[k + 1]
    <3> HIDE DEF blk
    <3> QED
      BY <1>8, <2>1, BlocksType
  <2> HIDE DEF Blk
  <2> QED
    BY <2>1, <2>2
<1> HIDE DEF blk, Blk
<1>10. \A k \in 0 .. n - 1 :
         Block(blk, k + 1) + Base * c[k + 1] = Block(x, k + 1) + Block(y, k + 1) + c[k]
  BY <1>7, <1>9
<1> QED
  BY <1>1, <1>6, <1>8, <1>10

\* The loops of subtract(): block by block, the difference and the borrow are
\* right.
LEMMA SubtractChain ==
  ASSUME NEW x \in Seq(Blocks), NEW y \in Seq(Blocks)
  PROVE  LET r == Chain(SubtractBlock, x, y)
         IN /\ r.blk \in Seq(Blocks)
            /\ Len(r.blk) = Len(x)
            /\ \E c \in [0 .. Len(x) -> {0, 1}] :
                 /\ c[0] = 0
                 /\ r.out = c[Len(x)]
                 /\ \A k \in 0 .. Len(x) - 1 :
                      Block(r.blk, k + 1) + Block(y, k + 1) + c[k]
                        = Block(x, k + 1) + Base * c[k + 1]
<1> DEFINE n == Len(x)
           Out(k, t) == SubtractBlock(x[k], Block(y, k), t).out
           Blk(k, t) == SubtractBlock(x[k], Block(y, k), t).blk
           F == [k \in 1 .. n |-> [t \in Nat |-> Out(k, t)]]
           c == CHOOSE g : g = [k \in 0 .. n |-> IF k = 0 THEN 0 ELSE Out(k, g[k - 1])]
           blk == [k \in 1 .. n |-> Blk(k, c[k - 1])]
<1>1. Chain(SubtractBlock, x, y) = [blk |-> blk, out |-> c[n]]
  BY DEF Chain
<1>2. \A k, t : Out(k, t) \in {0, 1}
  BY DEF SubtractBlock
<1>3. n \in Nat
  OBVIOUS
<1> HIDE DEF Out
<1>4. \E g : g = [k \in 0 .. n |-> IF k = 0 THEN 0 ELSE Out(k, g[k - 1])]
  <2>1. F \in [1 .. n -> [Nat -> Nat]]
    BY <1>2
  <2>2. PICK g \in [0 .. n -> Nat] : g[0] = 0 /\ \A k \in 1 .. n : g[k] = F[k][g[k - 1]]
    <3> HIDE DEF n, F
    <3> QED
      BY <1>3, <2>1, Recursion
  <2>3. ASSUME NEW k \in 0 .. n PROVE g[k] = IF k = 0 THEN 0 ELSE Out(k, g[k - 1])
    <3>1. CASE k = 0
      BY <2>2, <3>1
    <3>2. CASE k # 0
      <4>1. k \in 1 .. n /\ k - 1 \in 0 .. n
        BY <1>3, <3>2
      <4>2. g[k - 1] \in Nat
        BY <4>1
      <4> QED
        BY <2>2, <3>2, <4>1, <4>2
    <3> QED
      BY <3>1, <3>2
  <2>4. g = [k \in 0 .. n |-> g[k]]
    OBVIOUS
  <2> QED
    BY <2>3, <2>4
<1>5. c = [k \in 0 .. n |-> IF k = 0 THEN 0 ELSE Out(k, c[k - 1])]
  BY <1>4
<1> HIDE DEF c
<1>6. c \in [0 .. n -> {0, 1}] /\ c[0] = 0
  BY <1>2, <1>3, <1>5
<1>7. ASSUME NEW k \in 0 .. n - 1
      PROVE  /\ Blk(k + 1, c[k]) \in Blocks
             /\ Blk(k + 1, c[k]) + Block(y, k + 1) + c[k] = Block(x, k + 1) + Base * c[k + 1]
  <2>1. /\ k + 1 \in 1 .. n /\ k + 1 \in Nat /\ k \in 0 .. n /\ k + 1 \in 0 .. n
        /\ (k + 1) - 1 = k
    BY <1>3
  <2>2. c[k + 1] = Out(k + 1, c[k])
    <3>1. k + 1 # 0
      BY <2>1
    <3> QED
      BY <1>5, <2>1, <3>1
  <2>3. Block(x, k + 1) = x[k + 1] /\ x[k + 1] \in Blocks /\ Block(y, k + 1) \in Blocks
    BY <2>1, BlocksType
  <2>4. c[k] \in {0, 1}
    BY <1>6, <2>1
  <2> QED
    BY <2>2, <2>3, <2>4, SubtractBlockRight DEF Out
<1>8. blk \in Seq(Blocks) /\ Len(blk) = n
  <2>1. ASSUME NEW k \in 1 .. n PROVE Blk(k, c[k - 1]) \in Blocks
    <3>1. k - 1 \in 0 .. n - 1 /\ (k - 1) + 1 = k
      BY <1>3
    <3> HIDE DEF Blk
    <3> QED
      BY <1>7, <3>1
  <2> HIDE DEF Blk
  <2>2. blk \in [1 .. n -> Blocks]
    BY <2>1
  <2>3. blk \in Seq(Blocks)
    BY <1>3, <2>2, SeqDef
  <2> HIDE DEF blk
  <2> QED
    BY <1>3, <2>2, <2>3
<1>9. ASSUME NEW k \in 0 .. n - 1 PROVE Block(blk, k + 1) = Blk(k + 1, c[k])
  <2>1. k + 1 \in 1 .. n /\ (k + 1) - 1 = k
    BY <1>3
  <2>2. Block(blk, k + 1) = blk[k + 1]
    <3> HIDE DEF blk
    <3> QED
      BY <1>8, <2>1, BlocksType
  <2> HIDE DEF Blk
  <2> QED
    BY <2>1, <2>2
<1> HIDE DEF blk, Blk
<1>10. \A k \in 0 .. n - 1 :
         Block(blk, k + 1) + Block(y, k + 1) + c[k] = Block(x, k + 1) + Base * c[k + 1]
  BY <1>7, <1>9
<1> QED
  BY <1>1, <1>6, <1>8, <1>10
-----------------------------------------------------------------------------
(* Addition                                                                  *)

LEMMA LastBlock ==
  ASSUME NEW x \in Seq(Blocks), x # <<>>
  PROVE  /\ Len(x) >= 1
         /\ Last(x) = Block(x, Len(x))
<1>1. Len(x) \in Nat /\ Len(x) >= 1
  OBVIOUS
<1> QED
  BY <1>1, BlocksType DEF Last

LEMMA ValueOfFew == Value(<<>>) = 0 /\ <<1>> \in Seq(Blocks) /\ Value(<<1>>) = 1
<1>1. <<>> \in Seq(Blocks) /\ <<1>> \in Seq(Blocks)
  BY BaseType DEF Blocks
<1>2. Value(<<>>) = 0
  <2> DEFINE x == <<>>
  <2>1. x \in Seq(Blocks) /\ Len(x) = 0 /\ 0 \in Nat /\ 0 >= 0
    BY <1>1
  <2>2. From(x, 0) = 0
    <3> HIDE DEF x
    <3> QED
      BY <2>1, FromFacts
  <2> QED
    BY <1>1, <2>2, ValueIsFrom
<1>3. Value(<<1>>) = 1
  <2>1. Len(<<1>>) = 1 /\ 0 + 1 = 1 /\ Block(<<1>>, 1) = 1
    BY DEF Block
  <2> DEFINE x == <<1>>
  <2>2. From(x, 1) = 0
    <3>1. x \in Seq(Blocks) /\ Len(x) = 1 /\ 1 \in Nat /\ 1 >= 1
      BY <1>1, <2>1
    <3> HIDE DEF x
    <3> QED
      BY <3>1, FromFacts
  <2>3. From(<<1>>, 0) = Block(<<1>>, 0 + 1) + Base * From(<<1>>, 0 + 1)
    BY <1>1, FromFacts
  <2>4. From(<<1>>, 0) = 1
    BY <2>1, <2>2, <2>3, BaseType
  <2> QED
    BY <1>1, <2>4, ValueIsFrom
<1> QED
  BY <1>1, <1>2, <1>3

\* The loops of add() and what follows them, the longer operand first.
LEMMA Carried ==
  ASSUME NEW x \in Seq(Blocks), NEW y \in Seq(Blocks), Len(y) <= Len(x)
  PROVE  LET sum == Chain(AddBlock, x, y)
             r   == IF sum.out = 1 THEN Append(sum.blk, 1) ELSE sum.blk
         IN /\ r \in Seq(Blocks)
            /\ Value(r) = Value(x) + Value(y)
            /\ x # <<>> /\ Canonical(x) => Canonical(r)
            /\ x = <<>> => sum.blk = <<>>
<1> DEFINE sum == Chain(AddBlock, x, y)
           s == sum.blk
           r == IF sum.out = 1 THEN Append(s, 1) ELSE s
           n == Len(x)
<1>1. n \in Nat /\ s \in Seq(Blocks) /\ Len(s) = n
  BY AddChain
<1>2. PICK c \in [0 .. n -> {0, 1}] :
        /\ c[0] = 0 /\ sum.out = c[n]
        /\ \A k \in 0 .. n - 1 :
             Block(s, k + 1) + Base * c[k + 1] = Block(x, k + 1) + Block(y, k + 1) + c[k]
  BY AddChain
<1>3. c[n] \in {0, 1} /\ c \in [0 .. n -> Nat]
  BY <1>1
<1> HIDE DEF sum
<1>4. 1 \in Blocks
  BY BaseType DEF Blocks
<1>5. /\ r \in Seq(Blocks)
      /\ \A k \in 1 .. n : Block(r, k) = Block(s, k)
      /\ c[n] = 0 => r = s
      /\ c[n] = 1 => Len(r) = n + 1 /\ Block(r, n + 1) = 1 /\ Last(r) = 1
  <2>1. CASE c[n] = 0
    BY <1>1, <1>2, <2>1
  <2>2. CASE c[n] = 1
    <3>1. r = Append(s, 1)
      BY <1>2, <2>2
    <3>2. /\ r \in Seq(Blocks) /\ Len(r) = n + 1 /\ r[n + 1] = 1
          /\ \A k \in 1 .. n : r[k] = s[k]
      <4> HIDE DEF s, n, r
      <4> QED
        BY <1>1, <1>4, <3>1
    <3> HIDE DEF s, n, r
    <3>3. ASSUME NEW k \in 1 .. n PROVE Block(r, k) = r[k] /\ Block(s, k) = s[k]
      <4>1. k \in 1 .. Len(s) /\ k \in 1 .. Len(r)
        BY <1>1, <3>2
      <4> QED
        BY <1>1, <3>2, <4>1, BlocksType
    <3>4. Block(r, n + 1) = r[n + 1] /\ Last(r) = r[n + 1]
      BY <1>1, <3>2, BlocksType DEF Last
    <3> QED
      BY <2>2, <3>2, <3>3, <3>4
  <2> QED
    BY <1>3, <2>1, <2>2
<1> HIDE DEF s, r
<1>6. From(r, n) = c[n]
  <2>1. CASE c[n] = 0
    BY <1>1, <1>5, <2>1, FromFacts
  <2>2. CASE c[n] = 1
    <3>1. n + 1 \in Nat
      BY <1>1
    <3>3. From(r, n) = Block(r, n + 1) + Base * From(r, n + 1)
      <4> HIDE DEF n
      <4> QED
        BY <1>1, <1>5, FromFacts
    <3>2. From(r, n + 1) = 0
      BY <1>5, <2>2, <3>1, FromFacts
    <3> QED
      BY <1>5, <2>2, <3>2, <3>3, BaseType
  <2> QED
    BY <1>3, <2>1, <2>2
<1>7. From(x, n) = 0 /\ From(y, n) = 0
  BY <1>1, FromFacts
<1>8. \A k \in 0 .. n - 1 :
        Block(r, k + 1) + Base * c[k + 1] = Block(x, k + 1) + Block(y, k + 1) + c[k]
  <2>1. \A k \in 0 .. n - 1 : k + 1 \in 1 .. n
    BY <1>1
  <2>2. \A k \in 0 .. n - 1 : Block(r, k + 1) = Block(s, k + 1)
    BY <1>5, <2>1
  <2> QED
    BY <1>2, <2>2
<1>9. Value(r) = Value(x) + Value(y)
  <2>1. From(r, n) = From(x, n) + From(y, n) + c[n]
    BY <1>3, <1>6, <1>7
  <2>2. Value(r) = Value(x) + Value(y) + c[0]
    <3>1. r \in Seq(Blocks) /\ n \in Nat /\ c \in [0 .. n -> Nat]
      BY <1>1, <1>3, <1>5
    <3> HIDE DEF n
    <3> QED
      BY <1>8, <2>1, <3>1, Summation, ZenonT(30)
  <2> QED
    BY <1>2, <2>2, ValueIsFrom
<1>10. ASSUME x # <<>>, Canonical(x) PROVE Canonical(r)
  <2>1. CASE c[n] = 1
    BY <1>5, <2>1 DEF Canonical
  <2>2. CASE c[n] = 0
    <3>1. n >= 1 /\ Block(x, n) # 0 /\ n - 1 \in 0 .. n - 1 /\ (n - 1) + 1 = n
      BY <1>1, <1>10, LastBlock DEF Canonical
    <3>2. Block(s, n) + Base * c[n] = Block(x, n) + Block(y, n) + c[n - 1]
      BY <1>2, <3>1
    <3>3. /\ Block(s, n) \in Nat /\ Block(x, n) \in Nat /\ Block(y, n) \in Nat
          /\ c[n - 1] \in Nat
      <4>1. n - 1 \in 0 .. n
        BY <3>1
      <4>2. c[n - 1] \in Nat
        BY <1>3, <4>1
      <4>3. \A b \in Blocks : b \in Nat
        BY BaseType DEF Blocks
      <4> HIDE DEF n
      <4> QED
        BY <1>1, <4>2, <4>3, BlocksType
    <3>4. Block(s, n) # 0
      <4> DEFINE b == Block(s, n)
                 p == Block(x, n)
                 q == Block(y, n)
                 t == c[n - 1]
      <4>1. b + Base * 0 = p + q + t
        BY <2>2, <3>2
      <4>2. b \in Nat /\ p \in Nat /\ q \in Nat /\ t \in Nat /\ p # 0
        BY <3>1, <3>3
      <4> HIDE DEF b, p, q, t
      <4>3. b # 0
        BY <4>1, <4>2, BaseType
      <4> QED
        BY <4>3 DEF b
    <3>5. s # <<>> => Last(s) = Block(s, n)
      BY <1>1, LastBlock
    <3> QED
      BY <1>5, <2>2, <3>4, <3>5 DEF Canonical
  <2> QED
    BY <1>3, <2>1, <2>2
<1>11. x = <<>> => s = <<>>
  BY <1>1
<1> QED
  BY <1>5, <1>9, <1>10, <1>11 DEF r, s, sum

\* add() computes the sum of numbers of any length, by blocks of any width, and
\* the sum of canonical numbers is canonical: no carry is lost on the way.
THEOREM AdditionIsRight ==
  ASSUME NEW x \in Seq(Blocks), NEW y \in Seq(Blocks), Canonical(x), Canonical(y)
  PROVE  /\ add(x, y) \in Seq(Blocks)
         /\ Canonical(add(x, y))
         /\ Value(add(x, y)) = Value(x) + Value(y)
<1>1. CASE x = <<>> \/ y = <<>>
  <2>1. Value(x) \in Nat /\ Value(y) \in Nat
    BY ValueIsFrom
  <2> QED
    BY <1>1, <2>1, ValueOfFew DEF add
<1>2. CASE x # <<>> /\ y # <<>> /\ Len(x) >= Len(y)
  BY <1>2, Carried DEF add
<1>3. CASE x # <<>> /\ y # <<>> /\ ~(Len(x) >= Len(y))
  <2>1. Len(x) <= Len(y) /\ Value(x) \in Nat /\ Value(y) \in Nat
    BY <1>3, ValueIsFrom
  <2>2. LET sum == Chain(AddBlock, y, x)
        IN add(x, y) = IF sum.out = 1 THEN Append(sum.blk, 1) ELSE sum.blk
    BY <1>3 DEF add
  <2>3. /\ add(x, y) \in Seq(Blocks)
        /\ Canonical(add(x, y))
        /\ Value(add(x, y)) = Value(y) + Value(x)
    BY <1>3, <2>1, <2>2, Carried
  <2> QED
    BY <2>1, <2>3
<1> QED
  BY <1>1, <1>2, <1>3

\* operator ++ adds one, also where the carry makes a new block.
THEOREM IncrementIsRight ==
  ASSUME NEW x \in Seq(Blocks), Canonical(x)
  PROVE  /\ increment(x) \in Seq(Blocks)
         /\ Canonical(increment(x))
         /\ Value(increment(x)) = Value(x) + 1
<1>1. CASE x = <<>>
  <2>1. Chain(AddBlock, x, <<1>>).blk = <<>>
    <3>1. Len(Chain(AddBlock, x, <<1>>).blk) = 0
      <4>1. Len(Chain(AddBlock, x, <<1>>).blk) = Len(x)
        BY ValueOfFew, AddChain
      <4> QED
        BY <1>1, <4>1
    <3>2. Chain(AddBlock, x, <<1>>).blk \in Seq(Blocks)
      BY ValueOfFew, AddChain
    <3> QED
      BY <3>1, <3>2
  <2>2. increment(x) = <<1>>
    <3>1. increment(x) = Append(Chain(AddBlock, x, <<1>>).blk, 1)
      BY <1>1 DEF increment
    <3>2. Append(<<>>, 1) = <<1>>
      OBVIOUS
    <3> QED
      BY <2>1, <3>1, <3>2
  <2>3. Canonical(<<1>>)
    BY DEF Canonical, Last
  <2>4. Value(x) + 1 = Value(<<1>>)
    BY <1>1, ValueOfFew
  <2> QED
    BY <2>2, <2>3, <2>4, ValueOfFew
<1>2. CASE x # <<>>
  <2>1. Len(<<1>>) <= Len(x)
    BY <1>2
  <2> QED
    BY <1>2, <2>1, ValueOfFew, Carried DEF increment
<1> QED
  BY <1>1, <1>2
-----------------------------------------------------------------------------
(* Comparison                                                                *)

\* compareTo() orders canonical numbers as the numbers that they stand for, so
\* that a number has one canonical form.
THEOREM ComparisonIsRight ==
  ASSUME NEW x \in Seq(Blocks), NEW y \in Seq(Blocks), Canonical(x), Canonical(y)
  PROVE  compareTo(x, y) = Order(Value(x), Value(y))
<1> DEFINE D == {i \in DOMAIN x : x[i] # y[i]}
           n == Len(x)
<1>1. n \in Nat /\ Len(y) \in Nat /\ DOMAIN x = 1 .. n /\ DOMAIN y = 1 .. Len(y)
  OBVIOUS
<1>2. Value(x) \in Nat /\ Value(y) \in Nat
  BY ValueIsFrom
<1>3. CASE n # Len(y)
  <2>1. compareTo(x, y) = Order(n, Len(y))
    BY <1>3 DEF compareTo
  <2>2. CASE n < Len(y)
    <3>1. Value(x) < Value(y)
      BY <2>2, LongerIsGreater
    <3> QED
      BY <1>1, <1>2, <2>1, <2>2, <3>1 DEF Order
  <2>3. CASE Len(y) < n
    <3>1. Value(y) < Value(x)
      BY <2>3, LongerIsGreater
    <3> QED
      BY <1>1, <1>2, <2>1, <2>3, <3>1 DEF Order
  <2>4. n < Len(y) \/ Len(y) < n
    <3>1. \A a \in Nat, b \in Nat : a # b => a < b \/ b < a
      OBVIOUS
    <3> HIDE DEF n
    <3> QED
      BY <1>1, <1>3, <3>1
  <2> QED
    BY <2>2, <2>3, <2>4
<1>4. CASE n = Len(y) /\ D = {}
  <2>1. x = y
    <3>1. \A i \in 1 .. n : x[i] = y[i]
      BY <1>1, <1>4
    <3> QED
      BY <1>1, <1>4, <3>1, SeqEqual
  <2> QED
    BY <1>2, <1>4, <2>1 DEF compareTo, Order
<1>5. CASE n = Len(y) /\ D # {}
  <2> DEFINE m == Max(D)
  <2>1. m \in D /\ \A i \in D : i <= m
    <3>1. D \in SUBSET (0 .. n)
      BY <1>1
    <3> HIDE DEF D, n
    <3> QED
      BY <1>1, <1>5, <3>1, MaxFacts
  <2>2. compareTo(x, y) = Order(x[m], y[m])
    BY <1>5 DEF compareTo
  <2> HIDE DEF m
  <2>3. m \in 1 .. n /\ x[m] # y[m] /\ \A i \in 1 .. n : i > m => x[i] = y[i]
    BY <1>1, <2>1
  <2>4. \A k \in Nat : k > m => Block(x, k) = Block(y, k)
    BY <1>1, <1>5, <2>3 DEF Block
  <2>5. m \in Nat /\ m - 1 \in Nat /\ (m - 1) + 1 = m
    BY <1>1, <2>3
  <2>6. From(x, m) = From(y, m) /\ From(x, m) \in Nat
    BY <2>4, <2>5, SameBlocks, FromFacts
  <2>7. /\ From(x, m - 1) = Block(x, m) + Base * From(x, m)
        /\ From(y, m - 1) = Block(y, m) + Base * From(y, m)
    <3>1. \A k \in Nat : /\ From(x, k) = Block(x, k + 1) + Base * From(x, k + 1)
                         /\ From(y, k) = Block(y, k + 1) + Base * From(y, k + 1)
      BY FromFacts
    <3> QED
      BY <2>5, <3>1
  <2>8. Block(x, m) = x[m] /\ Block(y, m) = y[m] /\ x[m] \in Nat /\ y[m] \in Nat
    <3>1. Block(x, m) = x[m] /\ Block(y, m) = y[m]
      BY <1>1, <1>5, <2>3 DEF Block
    <3>2. x \in Seq(Nat) /\ y \in Seq(Nat)
      BY BlocksType
    <3> QED
      BY <1>5, <2>3, <3>1, <3>2
  <2>9. Base * From(x, m) \in Nat
    BY <2>6, BaseType
  <2>10. CASE x[m] < y[m]
    <3>1. From(x, m - 1) < From(y, m - 1)
      BY <2>6, <2>7, <2>8, <2>9, <2>10
    <3>2. Value(x) < Value(y)
      BY <2>5, <3>1, LessBelow
    <3> QED
      BY <1>2, <2>2, <2>8, <2>10, <3>2 DEF Order
  <2>11. CASE y[m] < x[m]
    <3>1. From(y, m - 1) < From(x, m - 1)
      BY <2>6, <2>7, <2>8, <2>9, <2>11
    <3>2. Value(y) < Value(x)
      BY <2>5, <3>1, LessBelow
    <3> QED
      BY <1>2, <2>2, <2>8, <2>11, <3>2 DEF Order
  <2> QED
    BY <2>3, <2>8, <2>10, <2>11
<1> QED
  BY <1>3, <1>4, <1>5

-----------------------------------------------------------------------------
(* Subtraction                                                               *)

\* zapLeadingZeros() drops the zeros that lead, and keeps each other digit.
LEMMA ZapDigits ==
  ASSUME NEW S, NEW x \in Seq(S)
  PROVE  LET z == zapLeadingZeros(x)
         IN z \in Seq(S) /\ Canonical(z) /\ \A k \in Nat : Block(z, k) = Block(x, k)
<1> DEFINE n == Len(x)
           D == {0} \cup {i \in DOMAIN x : x[i] # 0}
           m == Max(D)
           z == SubSeq(x, 1, m)
<1>1. n \in Nat /\ DOMAIN x = 1 .. n /\ \A i \in 1 .. n : x[i] \in S
  OBVIOUS
<1>2. m \in D /\ \A i \in D : i <= m
  <2>1. D \in SUBSET (0 .. n) /\ D # {}
    BY <1>1
  <2> HIDE DEF D, n
  <2> QED
    BY <1>1, <2>1, MaxFacts
<1> HIDE DEF m
<1>3. /\ m \in 0 .. n
      /\ m # 0 => x[m] # 0
      /\ \A i \in 1 .. n : i > m => x[i] = 0
  BY <1>1, <1>2
<1>4. z \in Seq(S) /\ Len(z) = m /\ \A i \in 1 .. m : z[i] = x[i]
  <2>1. m \in Int /\ \A i \in 1 .. m : x[i] \in S
    BY <1>1, <1>3
  <2>2. /\ z \in Seq(S)
        /\ Len(z) = IF 1 <= m THEN m - 1 + 1 ELSE 0
        /\ \A i \in 1 .. m - 1 + 1 : z[i] = x[1 + i - 1]
    BY <2>1, SubSeqProperties
  <2>3. \A i \in 1 .. m : i \in 1 .. m - 1 + 1 /\ 1 + i - 1 = i
    BY <1>1, <1>3
  <2> HIDE DEF z
  <2> QED
    BY <1>1, <1>3, <2>2, <2>3
<1> HIDE DEF z
<1>5. Canonical(z)
  <2>1. CASE m = 0
    BY <1>4, <2>1 DEF Canonical
  <2>2. CASE m # 0
    <3>1. m \in 1 .. m /\ Last(z) = z[m]
      BY <1>1, <1>3, <1>4, <2>2 DEF Last
    <3> QED
      BY <1>3, <1>4, <2>2, <3>1 DEF Canonical
  <2> QED
    BY <2>1, <2>2
<1>6. ASSUME NEW k \in Nat PROVE Block(z, k) = Block(x, k)
  <2>1. DOMAIN z = 1 .. m
    BY <1>4
  <2>2. CASE k \in 1 .. m
    BY <1>1, <1>3, <1>4, <2>1, <2>2 DEF Block
  <2>3. CASE k \notin 1 .. m
    BY <1>1, <1>3, <2>1, <2>3 DEF Block
  <2> QED
    BY <2>2, <2>3
<1>7. zapLeadingZeros(x) = z
  BY DEF zapLeadingZeros, z, m
<1> QED
  BY <1>4, <1>5, <1>6, <1>7

\* Without them a number has the same value.
LEMMA ZapFacts ==
  ASSUME NEW x \in Seq(Blocks)
  PROVE  LET z == zapLeadingZeros(x)
         IN z \in Seq(Blocks) /\ Canonical(z) /\ Value(z) = Value(x)
<1> DEFINE z == zapLeadingZeros(x)
<1> HIDE DEF z
<1>1. z \in Seq(Blocks) /\ Canonical(z) /\ \A k \in Nat : Block(z, k) = Block(x, k)
  BY ZapDigits DEF z
<1>2. From(z, 0) = From(x, 0)
  BY <1>1, 0 \in Nat, SameBlocks
<1>3. Value(z) = Value(x)
  BY <1>1, <1>2, ValueIsFrom
<1> QED
  BY <1>1, <1>3 DEF z

LEMMA LessStep ==
  \A b \in Nat, x \in Nat, y \in Nat, d \in Nat, x0 \in Nat, y0 \in Nat,
     in \in Nat, out \in Nat :
    d < b /\ x < y + out /\ d + y0 + in = x0 + b * out => x0 + b * x < (y0 + b * y) + in
<1> SUFFICES ASSUME NEW b \in Nat, NEW x \in Nat, NEW y \in Nat, NEW d \in Nat,
                    NEW x0 \in Nat, NEW y0 \in Nat, NEW in \in Nat, NEW out \in Nat,
                    d < b, x < y + out, d + y0 + in = x0 + b * out
             PROVE  x0 + b * x < (y0 + b * y) + in
  OBVIOUS
<1>1. \A p \in Nat, q \in Nat : p <= q => b * p <= b * q
  BY Z3
<1>2. b * (x + 1) <= b * (y + out)
  BY <1>1
<1>3. b * (x + 1) = b * x + b /\ b * (y + out) = b * y + b * out
  OBVIOUS
<1> QED
  BY <1>2, <1>3

\* The loops of subtract(): a borrow is left over exactly if the difference is
\* negative, and the blocks are the difference otherwise.
LEMMA Borrowed ==
  ASSUME NEW x \in Seq(Blocks), NEW y \in Seq(Blocks), Len(y) <= Len(x)
  PROVE  LET d == Chain(SubtractBlock, x, y)
         IN /\ d.out = 1 => Value(x) < Value(y)
            /\ d.out # 1 => Value(x) = Value(d.blk) + Value(y)
<1> DEFINE d == Chain(SubtractBlock, x, y)
           s == d.blk
           n == Len(x)
<1>1. n \in Nat /\ s \in Seq(Blocks) /\ Len(s) = n
  BY SubtractChain
<1>2. PICK c \in [0 .. n -> {0, 1}] :
        /\ c[0] = 0 /\ d.out = c[n]
        /\ \A k \in 0 .. n - 1 :
             Block(s, k + 1) + Block(y, k + 1) + c[k] = Block(x, k + 1) + Base * c[k + 1]
  BY SubtractChain
<1>3. c[n] \in {0, 1} /\ c \in [0 .. n -> Nat]
  BY <1>1
<1> HIDE DEF d
<1>4. From(x, n) = 0 /\ From(y, n) = 0 /\ From(s, n) = 0
  <2>1. n >= Len(x) /\ n >= Len(y) /\ n >= Len(s)
    BY <1>1
  <2> HIDE DEF n, s
  <2> QED
    BY <1>1, <2>1, FromFacts
<1> HIDE DEF s
<1>5. ASSUME c[n] = 0 PROVE Value(x) = Value(s) + Value(y)
  <2>1. From(x, n) = From(s, n) + From(y, n) + c[n]
    BY <1>4, <1>5
  <2>2. \A k \in 0 .. n - 1 :
          Block(x, k + 1) + Base * c[k + 1] = Block(s, k + 1) + Block(y, k + 1) + c[k]
    BY <1>2
  <2>3. Value(x) = Value(s) + Value(y) + c[0]
    <3>1. n \in Nat /\ s \in Seq(Blocks) /\ c \in [0 .. n -> Nat]
      BY <1>1, <1>3
    <3> HIDE DEF n
    <3> QED
      BY <2>1, <2>2, <3>1, Summation, ZenonT(30)
  <2>4. Value(s) \in Nat /\ Value(y) \in Nat
    BY <1>1, ValueIsFrom
  <2> QED
    BY <1>2, <2>3, <2>4
<1>6. ASSUME c[n] = 1 PROVE Value(x) < Value(y)
  <2> DEFINE S == {k \in 0 .. n : From(x, k) < From(y, k) + c[k]}
  <2>1. n \in S
    BY <1>1, <1>4, <1>6
  <2>2. ASSUME NEW k \in 0 .. n - 1, k + 1 \in S PROVE k \in S
    <3> DEFINE x1 == From(x, k + 1)
               y1 == From(y, k + 1)
               x0 == Block(x, k + 1)
               y0 == Block(y, k + 1)
               d0 == Block(s, k + 1)
               in == c[k]
               out == c[k + 1]
    <3>1. k \in Nat /\ k + 1 \in Nat /\ k \in 0 .. n /\ k + 1 \in 0 .. n
      BY <1>1
    <3>2. /\ x1 \in Nat /\ y1 \in Nat /\ x0 \in Nat /\ y0 \in Nat
          /\ d0 \in Nat /\ d0 < Base /\ in \in Nat /\ out \in Nat
      <4>1. x0 \in Blocks /\ y0 \in Blocks /\ d0 \in Blocks
        BY <1>1, <3>1, BlocksType
      <4>2. in \in Nat /\ out \in Nat
        BY <1>3, <3>1
      <4>3. x1 \in Nat /\ y1 \in Nat
        BY <3>1, FromFacts
      <4> HIDE DEF x1, y1, x0, y0, d0, in, out
      <4> QED
        BY <4>1, <4>2, <4>3, BaseType DEF Blocks
    <3>3. x1 < y1 + out
      BY <2>2
    <3>4. d0 + y0 + in = x0 + Base * out
      BY <1>2
    <3>5. From(x, k) = x0 + Base * x1 /\ From(y, k) = y0 + Base * y1
      BY <3>1, FromFacts
    <3> HIDE DEF x1, y1, x0, y0, d0, out
    <3>6. x0 + Base * x1 < (y0 + Base * y1) + in
      <4> HIDE DEF in
      <4> QED
        BY <3>2, <3>3, <3>4, BaseType, LessStep
    <3> QED
      BY <3>1, <3>5, <3>6
  <2>3. \A k \in 0 .. n : k \in S
    <3>1. S \in SUBSET (0 .. n)
      OBVIOUS
    <3> HIDE DEF S, n
    <3> QED
      BY <1>1, <2>1, <2>2, <3>1, InductDown
  <2>4. From(x, 0) < From(y, 0) + c[0] /\ From(y, 0) \in Nat
    BY <1>1, <2>3, FromFacts
  <2> QED
    BY <1>2, <2>4, ValueIsFrom
<1> QED
  BY <1>2, <1>3, <1>5, <1>6 DEF s, d

\* subtract() refuses exactly the differences that are negative, and computes
\* the others, in canonical form, for numbers of any length.
THEOREM SubtractionIsRight ==
  ASSUME NEW x \in Seq(Blocks), NEW y \in Seq(Blocks), Canonical(x), Canonical(y)
  PROVE  /\ Negative(x, y) <=> Value(x) < Value(y)
         /\ ~Negative(x, y) =>
              /\ subtract(x, y) \in Seq(Blocks)
              /\ Canonical(subtract(x, y))
              /\ Value(subtract(x, y)) = Value(x) - Value(y)
<1> DEFINE d == Chain(SubtractBlock, x, y)
<1>1. Value(x) \in Nat /\ Value(y) \in Nat /\ Len(x) \in Nat /\ Len(y) \in Nat
  BY ValueIsFrom
<1>2. CASE Len(x) < Len(y)
  BY <1>2, LongerIsGreater DEF Negative
<1>3. CASE Len(y) <= Len(x)
  <2>1. Negative(x, y) <=> d.out = 1
    BY <1>1, <1>3 DEF Negative
  <2>2. d.blk \in Seq(Blocks)
    BY SubtractChain
  <2>3. /\ d.out = 1 => Value(x) < Value(y)
        /\ d.out # 1 => Value(x) = Value(d.blk) + Value(y)
    BY <1>3, Borrowed
  <2> HIDE DEF d
  <2>4. Value(d.blk) \in Nat
    BY <2>2, ValueIsFrom
  <2>5. Negative(x, y) <=> Value(x) < Value(y)
    BY <1>1, <2>1, <2>3, <2>4
  <2>6. ASSUME ~Negative(x, y), y = <<>>
        PROVE  /\ subtract(x, y) \in Seq(Blocks)
               /\ Canonical(subtract(x, y))
               /\ Value(subtract(x, y)) = Value(x) - Value(y)
    BY <1>1, <2>6, ValueOfFew DEF subtract
  <2>7. ASSUME ~Negative(x, y), y # <<>>
        PROVE  /\ subtract(x, y) \in Seq(Blocks)
               /\ Canonical(subtract(x, y))
               /\ Value(subtract(x, y)) = Value(x) - Value(y)
    <3>1. subtract(x, y) = zapLeadingZeros(d.blk)
      BY <2>7 DEF subtract, d
    <3>2. Value(d.blk) = Value(x) - Value(y)
      BY <1>1, <2>1, <2>3, <2>4, <2>7
    <3> QED
      BY <2>2, <3>1, <3>2, ZapFacts
  <2> QED
    BY <2>5, <2>6, <2>7
<1> QED
  BY <1>1, <1>2, <1>3
\* zapLeadingZero() takes one zero block, and keeps the value.
LEMMA ZapOneFacts ==
  ASSUME NEW x \in Seq(Blocks), x # <<>>
  PROVE  LET z == zapLeadingZero(x)
         IN /\ z \in Seq(Blocks) /\ Value(z) = Value(x)
            /\ Last(x) # 0 => Canonical(z)
            /\ Len(x) > 1 /\ Block(x, Len(x) - 1) # 0 => Canonical(z)
            /\ Len(x) = 1 => Canonical(z)
<1> DEFINE n == Len(x)
           z == SubSeq(x, 1, n - 1)
<1>1. n \in Nat /\ n >= 1 /\ \A i \in 1 .. n : x[i] \in Blocks
  OBVIOUS
<1>2. CASE Last(x) # 0
  BY <1>2 DEF zapLeadingZero, Canonical
<1>3. CASE Last(x) = 0
  <2>1. zapLeadingZero(x) = z
    BY <1>3 DEF zapLeadingZero, Front
  <2>2. z \in Seq(Blocks) /\ Len(z) = n - 1 /\ \A i \in 1 .. n - 1 : z[i] = x[i]
    <3>1. n - 1 \in Int /\ \A i \in 1 .. n - 1 : x[i] \in Blocks
      BY <1>1
    <3>2. /\ z \in Seq(Blocks)
          /\ Len(z) = IF 1 <= n - 1 THEN n - 1 - 1 + 1 ELSE 0
          /\ \A i \in 1 .. n - 1 - 1 + 1 : z[i] = x[1 + i - 1]
      BY <3>1, SubSeqProperties
    <3>3. \A i \in 1 .. n - 1 : i \in 1 .. n - 1 - 1 + 1 /\ 1 + i - 1 = i
      BY <1>1
    <3> HIDE DEF z, n
    <3> QED
      BY <1>1, <3>2, <3>3
  <2> HIDE DEF z
  <2>3. x[n] = 0
    BY <1>3 DEF Last
  <2>4. ASSUME NEW k \in Nat PROVE Block(x, k) = Block(z, k)
    <3>1. DOMAIN z = 1 .. n - 1 /\ DOMAIN x = 1 .. n
      BY <2>2
    <3>2. CASE k \in 1 .. n - 1
      BY <1>1, <2>2, <3>1, <3>2 DEF Block
    <3>3. CASE k \notin 1 .. n - 1
      BY <1>1, <2>3, <3>1, <3>3 DEF Block
    <3> QED
      BY <3>2, <3>3
  <2>5. From(x, 0) = From(z, 0)
    BY <2>2, <2>4, 0 \in Nat, SameBlocks
  <2>6. Value(z) = Value(x)
    BY <2>2, <2>5, ValueIsFrom
  <2>7. ASSUME n > 1, Block(x, n - 1) # 0 PROVE Canonical(z)
    <3>1. n - 1 \in 1 .. n - 1 /\ n - 1 \in 1 .. n
      BY <1>1, <2>7
    <3>2. Block(x, n - 1) = x[n - 1]
      BY <3>1, BlocksType
    <3>3. Last(z) = z[n - 1]
      BY <2>2 DEF Last
    <3>4. z[n - 1] = x[n - 1]
      BY <2>2, <3>1
    <3> QED
      BY <2>7, <3>2, <3>3, <3>4 DEF Canonical
  <2>8. ASSUME n = 1 PROVE Canonical(z)
    BY <2>2, <2>8 DEF Canonical
  <2> QED
    BY <1>3, <2>1, <2>2, <2>6, <2>7, <2>8
<1> QED
  BY <1>2, <1>3

\* operator -- takes one off any number but zero; the borrow ends in the last
\* block at the latest, and only that block can become zero.
THEOREM DecrementIsRight ==
  ASSUME NEW x \in Seq(Blocks), Canonical(x), x # <<>>
  PROVE  /\ decrement(x) \in Seq(Blocks)
         /\ Canonical(decrement(x))
         /\ Value(decrement(x)) = Value(x) - 1
<1> DEFINE y == <<1>>
           d == Chain(SubtractBlock, x, y)
           s == d.blk
           n == Len(x)
<1>1. n \in Nat /\ n >= 1 /\ y \in Seq(Blocks) /\ Len(y) = 1 /\ Value(y) = 1
  BY ValueOfFew
<1>2. /\ Block(y, 1) = 1
      /\ \A k \in Nat : k > 1 => Block(y, k) = 0
  <2>1. Block(y, 1) = 1
    BY DEF Block
  <2> HIDE DEF y
  <2> QED
    BY <1>1, <2>1, BlocksType
<1> HIDE DEF y
<1>3. s \in Seq(Blocks) /\ Len(s) = n
  BY <1>1, SubtractChain
<1>4. PICK c \in [0 .. n -> {0, 1}] :
        /\ c[0] = 0 /\ d.out = c[n]
        /\ \A k \in 0 .. n - 1 :
             Block(s, k + 1) + Block(y, k + 1) + c[k] = Block(x, k + 1) + Base * c[k + 1]
  BY <1>1, SubtractChain
<1>5. /\ d.out = 1 => Value(x) < Value(y)
      /\ d.out # 1 => Value(x) = Value(s) + Value(y)
  BY <1>1, Borrowed
<1>6. decrement(x) = zapLeadingZero(s)
  BY DEF decrement, y, d, s
<1> HIDE DEF d
<1>7. 0 < Value(x) /\ Value(x) \in Nat /\ Value(s) \in Nat
  <2>1. <<>> \in Seq(Blocks) /\ Len(<<>>) < Len(x)
    BY <1>1
  <2>2. Value(<<>>) < Value(x)
    BY <2>1, LongerIsGreater, Zenon
  <2> HIDE DEF s
  <2> QED
    BY <1>3, <2>2, ValueOfFew, ValueIsFrom
<1>8. c[n] = 0 /\ Value(s) = Value(x) - 1
  <2>1. c[n] \in {0, 1}
    BY <1>1
  <2> QED
    BY <1>1, <1>4, <1>5, <1>7, <2>1
<1> HIDE DEF s
<1>9. s # <<>>
  BY <1>1, <1>3
<1>10. ASSUME n > 1, Last(s) = 0 PROVE Block(s, n - 1) # 0
  <2>1. /\ n - 1 \in 0 .. n - 1 /\ n - 2 \in 0 .. n - 1
        /\ (n - 1) + 1 = n /\ (n - 2) + 1 = n - 1
        /\ n \in Nat /\ n - 1 \in Nat /\ n - 1 \in 0 .. n /\ n - 2 \in 0 .. n
    BY <1>1, <1>10
  <2>2. Block(s, n) + Block(y, n) + c[n - 1] = Block(x, n) + Base * c[n]
    BY <1>4, <2>1
  <2>3. Block(s, n - 1) + Block(y, n - 1) + c[n - 2] = Block(x, n - 1) + Base * c[n - 1]
    BY <1>4, <2>1
  <2>4. Block(s, n) = 0 /\ Block(y, n) = 0
    <3>1. Block(s, n) = 0
      BY <1>3, <1>9, <1>10, LastBlock
    <3> QED
      BY <1>2, <1>10, <2>1, <3>1
  <2>5. Block(x, n) # 0 /\ Block(x, n) \in Nat /\ Block(x, n - 1) \in Nat
    <3>1. Block(x, n) # 0
      BY LastBlock DEF Canonical
    <3>2. \A k \in Nat : Block(x, k) \in Nat
      <4>1. \A b \in Blocks : b \in Nat
        BY BaseType DEF Blocks
      <4> QED
        BY <4>1, BlocksType
    <3> QED
      BY <2>1, <3>1, <3>2
  <2>6. c[n - 1] \in {0, 1} /\ c[n - 2] \in {0, 1}
    BY <2>1
  <2>7. c[n - 1] = 1
    <3>1. 0 + 0 + c[n - 1] = Block(x, n) + Base * 0
      BY <1>8, <2>2, <2>4
    <3>2. c[n - 1] # 0
      <4> DEFINE p == Block(x, n)
      <4>1. 0 + 0 + c[n - 1] = p + Base * 0 /\ p # 0 /\ p \in Nat
        BY <2>5, <3>1
      <4> HIDE DEF p
      <4> QED
        BY <4>1, BaseType
    <3> QED
      BY <2>6, <3>2
  <2>8. Block(y, n - 1) + c[n - 2] \in {0, 1}
    <3> DEFINE i == n - 1
               j == n - 2
               q == Block(y, i)
               t == c[j]
    <3>1. (i = 1 \/ i > 1) /\ (i = 1 => j = 0)
      <4> HIDE DEF n
      <4> QED
        BY <1>1, <1>10
    <3>3. i \in Nat /\ t \in {0, 1}
      BY <2>1, <2>6
    <3> HIDE DEF i, j
    <3>4. CASE i = 1
      <4>1. q = 1
        BY <1>2, <3>4, Zenon
      <4>2. t = 0
        BY <1>4, <3>1, <3>4, Zenon
      <4>3. 1 + 0 \in {0, 1}
        OBVIOUS
      <4>4. q + t \in {0, 1}
        BY <4>1, <4>2, <4>3, Zenon
      <4> QED
        BY <4>4 DEF i, j
    <3>5. CASE i > 1
      <4>1. q = 0
        BY <1>2, <3>3, <3>5, Zenon
      <4>2. \A u \in {0, 1} : 0 + u \in {0, 1}
        OBVIOUS
      <4>3. q + t \in {0, 1}
        BY <3>3, <4>1, <4>2, Zenon
      <4> QED
        BY <4>3 DEF i, j
    <3> QED
      BY <3>1, <3>4, <3>5, Zenon
  <2>9. SUFFICES ASSUME Block(s, n - 1) = 0 PROVE FALSE
    OBVIOUS
  <2> DEFINE p == Block(x, n - 1)
             q == Block(y, n - 1)
             t == c[n - 2]
  <2>10. 0 + q + t = p + Base * 1
    BY <2>3, <2>7, <2>9
  <2>11. p \in Nat /\ q + t \in {0, 1} /\ t \in Nat /\ q \in Nat
    <3>1. q \in Nat
      <4>1. q \in Blocks
        BY <1>1, <2>1, BlocksType
      <4> HIDE DEF q
      <4> QED
        BY <4>1, BaseType DEF Blocks
    <3> QED
      BY <2>5, <2>6, <2>8, <3>1
  <2> HIDE DEF p, q, t
  <2> QED
    BY <2>10, <2>11, BaseType
<1>11. /\ zapLeadingZero(s) \in Seq(Blocks) /\ Value(zapLeadingZero(s)) = Value(s)
       /\ Last(s) # 0 => Canonical(zapLeadingZero(s))
       /\ n > 1 /\ Block(s, n - 1) # 0 => Canonical(zapLeadingZero(s))
       /\ n = 1 => Canonical(zapLeadingZero(s))
  BY <1>3, <1>9, ZapOneFacts
<1>12. n = 1 \/ n > 1
  BY <1>1
<1> QED
  BY <1>6, <1>8, <1>10, <1>11, <1>12
=============================================================================
