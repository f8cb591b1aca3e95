----------------------------- MODULE BigUnsigned -----------------------------
(***************************************************************************)
(* BigUnsigned (src/calculator/big_int/BigUnsigned.cc, BigUnsigned.hh and   *)
(* NumberlikeArray.hh): natural numbers as arrays of blocks of N bits, the  *)
(* least significant block first.                                           *)
(*                                                                         *)
(* A number is the sequence of its blocks, so that its length is len; block *)
(* blk[i] of the code is x[i + 1].  Capacity is left out: every operation   *)
(* writes the blocks it allocates before it reads them.  A put-here         *)
(* operation on an alias computes into a temporary (DTRT_ALIASED), hence    *)
(* operations are functions of their operands.  Shift counts and lengths    *)
(* are far from the limits of int and Index.                                *)
(***************************************************************************)
EXTENDS Integers, SequencesExt

CONSTANT N   \* bits of a block

Base == 2 ^ N

ASSUME BlockAssumption == N \in Nat \ {0} /\ 2 ^ N \in Nat \ {0, 1}

\* What is used of powers of two.
ASSUME PowerAssumption ==
  2 ^ 0 = 1 /\ \A s \in 0 .. N - 1 : 2 ^ s \in Nat \ {0} /\ 2 ^ (s + 1) = 2 * 2 ^ s

Blocks == 0 .. Base - 1

\* Arithmetic on one block is modulo its width.
Wrapped(t) == t % Base

\* The bit of value 2^i.
BitOf(n, i) == (n \div 2 ^ i) % 2

Order(m, n) == IF m < n THEN -1 ELSE IF m > n THEN 1 ELSE 0

\* Canonical: the most significant block is not zero, and zero has none.
Canonical(x) == x = <<>> \/ Last(x) # 0

\* The number that blocks stand for: v[k] is that of the blocks after the k-th.
Values(x) ==
  LET v[k \in 0 .. Len(x)] == IF k = Len(x) THEN 0 ELSE x[k + 1] + Base * v[k + 1]
  IN v

Value(x) == Values(x)[0]

Zeros(n) == [i \in 1 .. n |-> 0]

\* getBlock(), and a block of an operand that may be shorter.
Block(x, i) == IF i \in DOMAIN x THEN x[i] ELSE 0

zapLeadingZeros(x) == SubSeq(x, 1, Max({0} \cup {i \in DOMAIN x : x[i] # 0}))

\* "Zap possible leading zero": one block at most.
zapLeadingZero(x) == IF Last(x) = 0 THEN Front(x) ELSE x

-----------------------------------------------------------------------------
(* Comparison and access to bits and blocks                                  *)

compareTo(x, y) ==
  LET differing == {i \in DOMAIN x : x[i] # y[i]}
  IN IF Len(x) # Len(y) THEN Order(Len(x), Len(y))
     ELSE IF differing = {} THEN 0
     ELSE Order(x[Max(differing)], y[Max(differing)])

\* operator== of the arrays, which also stops at the first difference.
Equal(x, y) == Len(x) = Len(y) /\ \A i \in DOMAIN x : x[i] = y[i]

\* Blocks and bits are counted from 0.
setBlock(x, i, block) ==
  IF block # 0 THEN [x \o Zeros(Max({0, i + 1 - Len(x)})) EXCEPT ![i + 1] = block]
  ELSE IF i < Len(x) THEN zapLeadingZeros([x EXCEPT ![i + 1] = 0]) ELSE x

getBit(x, b) == BitOf(Block(x, b \div N + 1), b % N)

setBit(x, b, bit) ==
  setBlock(x, b \div N, Block(x, b \div N + 1) + (bit - getBit(x, b)) * 2 ^ (b % N))

bitLength(x) ==
  IF x = <<>> THEN 0
  ELSE Min({l \in 0 .. N : Last(x) < 2 ^ l}) + (Len(x) - 1) * N

-----------------------------------------------------------------------------
(* Addition and subtraction                                                  *)

\* Mutant: a carry that comes from the carry is lost.
AddBlock_OneCarry(x, y, carryIn) ==
  LET temp == Wrapped(x + y)
  IN [blk |-> Wrapped(temp + carryIn), out |-> IF temp < x THEN 1 ELSE 0]

\* One turn of the loop of add(): a carry is seen by the sum having wrapped.
AddBlock(x, y, carryIn) ==
  LET temp == Wrapped(x + y)
      sum  == Wrapped(temp + carryIn)
  IN [blk |-> sum, out |-> IF temp < x \/ (carryIn = 1 /\ sum = 0) THEN 1 ELSE 0]

\* One turn of the loop of subtract().
SubtractBlock(x, y, borrowIn) ==
  LET temp == Wrapped(x - y)
  IN [blk |-> Wrapped(temp - borrowIn),
      out |-> IF temp > x \/ (borrowIn = 1 /\ temp = 0) THEN 1 ELSE 0]

\* The loops of an operation, from the least significant block of x to its
\* last: c[k] is the carry or borrow out of block k.  Where y has no block,
\* the turn is that of the loop that lets a carry run on, or copies.
Chain(Turn(_, _, _), x, y) ==
  LET c[k \in 0 .. Len(x)] ==
        IF k = 0 THEN 0 ELSE Turn(x[k], Block(y, k), c[k - 1]).out
  IN [blk |-> [k \in 1 .. Len(x) |-> Turn(x[k], Block(y, k), c[k - 1]).blk],
      out |-> c[Len(x)]]

\* Adds the shorter operand to the longer.
add(x, y) ==
  LET longer  == IF Len(x) >= Len(y) THEN x ELSE y
      shorter == IF Len(x) >= Len(y) THEN y ELSE x
      sum     == Chain(AddBlock, longer, shorter)
  IN IF x = <<>> THEN y ELSE IF y = <<>> THEN x
     ELSE IF sum.out = 1 THEN Append(sum.blk, 1) ELSE sum.blk

\* Where subtract() throws: y is longer, or a borrow is left over.
Negative(x, y) == Len(x) < Len(y) \/ Chain(SubtractBlock, x, y).out = 1

subtract(x, y) == IF y = <<>> THEN x ELSE zapLeadingZeros(Chain(SubtractBlock, x, y).blk)

\* operator ++ and operator --, the latter not for zero.
increment(x) ==
  LET sum == Chain(AddBlock, x, <<1>>)
  IN IF x = <<>> \/ sum.out = 1 THEN Append(sum.blk, 1) ELSE sum.blk

decrement(x) == zapLeadingZero(Chain(SubtractBlock, x, <<1>>).blk)

-----------------------------------------------------------------------------
(* Multiplication and division, bit by bit                                   *)

\* Block j, counted from 0 and up to Len(x), of x shifted left by y < N bits.
getShiftedBlock(x, j, y) ==
  (IF j = 0 \/ y = 0 THEN 0 ELSE x[j] \div 2 ^ (N - y)) +
  (IF j = Len(x) THEN 0 ELSE Wrapped(x[j + 1] * 2 ^ y))

Shifted(x, y) == [j \in 1 .. Len(x) + 1 |-> getShiftedBlock(x, j - 1, y)]

\* For each bit of x that is set, y is added, shifted by blocks and bits.
multiply(x, y) ==
  LET AddShifted(product, b) ==
        IF getBit(x, b) = 0 THEN product
        ELSE LET i == b \div N
             IN SubSeq(product, 1, i) \o
                Chain(AddBlock, SubSeq(product, i + 1, Len(product)), Shifted(y, b % N)).blk
  IN IF x = <<>> \/ y = <<>> THEN <<>>
     ELSE zapLeadingZero(FoldLeft(AddShifted, Zeros(Len(x) + Len(y)),
                                  [k \in 1 .. Len(x) * N |-> k - 1]))

\* From the highest shift down, y is subtracted where that leaves no borrow.
\* The dividend has one zero block more, which only a shifted y reaches.
divideWithRemainder(x, y) ==
  LET shifts == (Len(x) - Len(y) + 1) * N
      TrySubtract(s, b) ==
        LET i   == b \div N
            top == Max({i + Len(y) + 1, Len(x)})
            d   == Chain(SubtractBlock, SubSeq(s.remainder, i + 1, top), Shifted(y, b % N))
        IN IF d.out = 1 THEN s
           ELSE [quotient  |-> setBit(s.quotient, b, 1),
                 remainder |-> SubSeq(s.remainder, 1, i) \o d.blk \o
                               SubSeq(s.remainder, top + 1, Len(x) + 1)]
      last == FoldLeft(TrySubtract,
                       [quotient |-> Zeros(Len(x) - Len(y) + 1), remainder |-> Append(x, 0)],
                       [k \in 1 .. shifts |-> shifts - k])
  IN IF y = <<>> \/ Len(x) < Len(y) THEN [quotient |-> <<>>, remainder |-> x]
     ELSE [quotient  |-> zapLeadingZero(last.quotient),
           remainder |-> zapLeadingZeros(last.remainder)]

-----------------------------------------------------------------------------
(* Bitwise operations and shifts                                             *)

\* Operations on two bits, by how many of them are set.
And == [set \in 0 .. 2 |-> IF set = 2 THEN 1 ELSE 0]
Or  == [set \in 0 .. 2 |-> IF set = 0 THEN 0 ELSE 1]
Xor == [set \in 0 .. 2 |-> IF set = 1 THEN 1 ELSE 0]

\* One block of a bitwise operation that is op on bits.
Bitwise(op, m, n) ==
  MapThenSumSet(LAMBDA i : op[BitOf(m, i) + BitOf(n, i)] * 2 ^ i, 0 .. N - 1)

Blockwise(op, x, y, length) ==
  [i \in 1 .. length |-> Bitwise(op, Block(x, i), Block(y, i))]

bitAnd(x, y) == zapLeadingZeros(Blockwise(And, x, y, Min({Len(x), Len(y)})))

bitOr(x, y) == Blockwise(Or, x, y, Max({Len(x), Len(y)}))

bitXor(x, y) == zapLeadingZeros(Blockwise(Xor, x, y, Max({Len(x), Len(y)})))

LeftShift(x, b) == zapLeadingZero(Zeros(b \div N) \o Shifted(x, b % N))

\* As a left shift within each block, after dropping blocks on the right.
RightShift(x, b) ==
  LET dropped == (b + N - 1) \div N
      left    == N * dropped - b
  IN IF dropped >= Len(x) + 1 THEN <<>>
     ELSE zapLeadingZero([i \in 1 .. Len(x) + 1 - dropped |->
                            getShiftedBlock(x, dropped + i - 1, left)])

\* A negative shift is one in the opposite direction.
bitShiftLeft(x, b) == IF b < 0 THEN RightShift(x, -b) ELSE LeftShift(x, b)

bitShiftRight(x, b) == IF b < 0 THEN LeftShift(x, -b) ELSE RightShift(x, b)
=============================================================================
