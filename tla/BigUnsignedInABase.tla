-------------------------- MODULE BigUnsignedInABase --------------------------
(***************************************************************************)
(* BigUnsignedInABase and BigIntegerUtils (src/calculator/big_int): digits  *)
(* of a number in a base, and its text.  A text is a sign and the sequence  *)
(* of its digits as they are read; a symbol that is no digit is a number    *)
(* that is not below the base.  Bases fit in a block.                       *)
(***************************************************************************)
EXTENDS BigUnsigned

\* Mutant: the bits of the base itself.
BitsPerDigit_Base(base) == Min({l \in 0 .. N : 2 ^ l > base})

\* The least number of bits that a digit stands for: those of the base less one.
BitsPerDigit(base) == Max({l \in 0 .. N : 2 ^ l <= base})

\* Digits that the constructor makes room for.
Room(x, base) == (Len(x) * N + BitsPerDigit(base) - 1) \div BitsPerDigit(base)

\* One turn of the constructor's loop: the last digit is split off.
SplitDigit(s, base) ==
  LET d == divideWithRemainder(s.rest, <<base>>)
  IN IF s.rest = <<>> THEN s
     ELSE [rest |-> d.quotient, digits |-> Append(s.digits, Value(d.remainder))]

\* Least significant digit first; rest is what did not fit into the room.
Digits(x, base) ==
  FoldLeft(LAMBDA s, i : SplitDigit(s, base), [rest |-> x, digits |-> <<>>],
           [i \in 1 .. Room(x, base) |-> i])

\* operator BigUnsigned(): the digits from the most significant one.
FromDigits(digits, base) ==
  FoldRight(LAMBDA digit, x : add(multiply(x, <<base>>), IF digit = 0 THEN <<>> ELSE <<digit>>),
            digits, <<>>)

\* bigIntegerToString(): zero is written as one digit.
TextOf(sign, x, base) ==
  [sign   |-> IF sign = -1 THEN "-" ELSE "",
   digits |-> IF x = <<>> THEN <<0>> ELSE Reverse(Digits(x, base).digits)]

\* Where the constructor from a string throws.
BadDigits(digits, base) == \E i \in DOMAIN digits : digits[i] >= base

\* stringToBigUnsigned(), for digits as they are read.
MagnitudeOf(digits, base) == FromDigits(zapLeadingZeros(Reverse(digits)), base)
=============================================================================
