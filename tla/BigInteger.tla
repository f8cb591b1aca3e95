----------------------------- MODULE BigInteger -----------------------------
(***************************************************************************)
(* BigInteger (src/calculator/big_int/BigInteger.cc and BigInteger.hh): a   *)
(* sign and a magnitude, and the calls of a program with a few such objects.*)
(*                                                                         *)
(* A call is one action.  An object may be both operand and result: such a  *)
(* call computes into a temporary, which is why the results are functions   *)
(* of the operands' old values; only dividing into two objects and moving   *)
(* tell one object from another.  A magnitude is computed with as           *)
(* BigInteger.hh says, through getMagnitude() and the constructor that      *)
(* takes a BigUnsigned.                                                     *)
(***************************************************************************)
EXTENDS BigUnsignedInABase

CONSTANTS
  Objects,    \* the objects of the program
  MaxBlocks,  \* bound: blocks of the operands
  Counts,     \* shift counts
  Places,     \* bits and blocks that are set
  Arrays,     \* arrays of blocks, leading zeros included
  PieceBits,  \* bits of a piece of data, of which a block holds several
  Pieces,     \* arrays of such pieces
  Texts,      \* the symbols of texts that are parsed, after the sign
  Radix,      \* the radix of the texts, 10 in the code
  Misuses     \* calls that may be made although they break a number:
              \* "shift_zero", "self_move"

ASSUME IntegerAssumption ==
  /\ MaxBlocks \in Nat /\ Counts \subseteq Int /\ Places \subseteq Nat
  /\ Arrays \subseteq Seq(Blocks)
  /\ PieceBits \in 1 .. N /\ N % PieceBits = 0
  /\ Pieces \subseteq Seq(0 .. 2 ^ PieceBits - 1)
  /\ Texts \subseteq Seq(Nat) /\ Radix \in 2 .. Base - 1

\* What is used of the powers of two beyond those of a block.
ASSUME LengthAssumption ==
  \A l \in 0 .. N * (MaxBlocks + 1) - 1 : 2 ^ (l + 1) = 2 * 2 ^ l

VARIABLES
  reg,   \* what each object holds
  call   \* the call that is made, or how the last one ended

vars == <<reg, call>>

SignValues == {-1, 0, 1}

Zero == [sign |-> 0, mag |-> <<>>]

\* The constructors, and the corrections that force the sign of zero.
Integer(mag, sign) == [sign |-> IF mag = <<>> THEN 0 ELSE sign, mag |-> mag]

SignOf(n) == Order(n, 0)

Negated(x) == [x EXCEPT !.sign = -@]

-----------------------------------------------------------------------------
(* Results of the operations                                                 *)

\* add(), and subtract(), which replaces y.sign by its opposite.
Sum(x, y) ==
  IF x.sign = 0 THEN y
  ELSE IF y.sign = 0 THEN x
  ELSE IF x.sign = y.sign THEN [x EXCEPT !.mag = add(@, y.mag)]
  ELSE CASE compareTo(x.mag, y.mag) = 0  -> Zero
         [] compareTo(x.mag, y.mag) = 1  -> [x EXCEPT !.mag = subtract(@, y.mag)]
         [] compareTo(x.mag, y.mag) = -1 -> [y EXCEPT !.mag = subtract(@, x.mag)]

Product(x, y) ==
  IF 0 \in {x.sign, y.sign} THEN Zero
  ELSE [sign |-> IF x.sign = y.sign THEN 1 ELSE -1, mag |-> multiply(x.mag, y.mag)]

\* divideWithRemainder(): where the signs differ, the quotient is rounded down
\* by decreasing the dividend and correcting the quotient and the remainder.
Divided(x, y) ==
  LET differ == x.sign # y.sign
      d == divideWithRemainder(IF differ THEN decrement(x.mag) ELSE x.mag, y.mag)
  IN IF 0 \in {x.sign, y.sign} THEN [quotient |-> Zero, remainder |-> x]
     ELSE IF differ
     THEN [quotient  |-> Integer(increment(d.quotient), -1),
           remainder |-> Integer(decrement(subtract(y.mag, d.remainder)), y.sign)]
     ELSE [quotient  |-> Integer(d.quotient, 1),
           remainder |-> Integer(d.remainder, y.sign)]

\* Mutant: the sign of a number that becomes zero is kept.
Stepped_KeepsSign(x, s) ==
  IF x.sign = -s THEN [x EXCEPT !.mag = decrement(@)]
  ELSE [sign |-> s, mag |-> increment(x.mag)]

\* operator ++ where s is 1, and operator -- where it is -1.
Stepped(x, s) ==
  IF x.sign = -s THEN Integer(decrement(x.mag), x.sign)
  ELSE [sign |-> s, mag |-> increment(x.mag)]

\* The operators with two operands, for a divisor that is not zero.
Combination(by, x, y) ==
  CASE by = "+" -> Sum(x, y)
    [] by = "-" -> Sum(x, Negated(y))
    [] by = "*" -> Product(x, y)
    [] by = "/" -> Divided(x, y).quotient
    [] by = "%" -> Divided(x, y).remainder

\* Those of BigUnsigned.
MagnitudeCombination(by, x, y) ==
  CASE by = "+" -> add(x, y)
    [] by = "-" -> subtract(x, y)
    [] by = "*" -> multiply(x, y)
    [] by = "/" -> divideWithRemainder(x, y).quotient
    [] by = "%" -> divideWithRemainder(x, y).remainder
    [] by = "&" -> bitAnd(x, y)
    [] by = "|" -> bitOr(x, y)
    [] by = "^" -> bitXor(x, y)

\* magOf(): the magnitude of a signed primitive of w bits, the least included.
magOf(n, w) == (IF n < 0 THEN (-n) % 2 ^ w ELSE n) % Base

\* dataToBigInteger(): as many pieces in each block as fit.
Packed(pieces) ==
  LET perBlock == N \div PieceBits
  IN [k \in 1 .. (Len(pieces) + perBlock - 1) \div perBlock |->
        MapThenSumSet(LAMBDA i : Block(pieces, (k - 1) * perBlock + i + 1) * 2 ^ (PieceBits * i),
                      0 .. perBlock - 1)]

-----------------------------------------------------------------------------
(* Calls                                                                     *)

Returned == [op |-> "returned"]
Thrown   == [op |-> "thrown"]
Idle     == call \in {Returned, Thrown}

Calls ==
  LET OfTwo(op, by) == [op : {op}, z : Objects, a : Objects, b : Objects, by : by]
      OfOne(op)     == [op : {op}, z : Objects, a : Objects]
      Setting(n, radix) ==
        [op : {"set"}, z : Objects, a : Objects, i : Places, n : n, radix : {radix}]
      Reading(op, digits, radix, sign) ==
        [op : {op}, z : Objects, digits : digits, radix : {radix}, sign : sign]
  IN OfTwo("combine", {"+", "-", "*", "/", "%"})
       \cup OfTwo("magnitude", {"+", "-", "*", "/", "%", "&", "|", "^"})
       \cup OfTwo("subtract", {"-"})
       \cup OfTwo("divide", {"/"})
       \cup OfOne("negate") \cup OfOne("copy") \cup OfOne("increase")
       \cup OfOne("decrease") \cup OfOne("move")
       \cup [op : {"step"}, z : Objects, n : {-1, 1}]
       \cup [op : {"shift"}, z : Objects, a : Objects, n : Counts, left : BOOLEAN]
       \cup Setting({0, 1}, 2) \cup Setting(Blocks, Base)
       \cup {c \in [op : {"primitive"}, z : Objects, n : -Base .. Base - 1, width : 1 .. N] :
               c.n \in -(2 ^ (c.width - 1)) .. 2 ^ c.width - 1}
       \cup Reading("data", Arrays, Base, SignValues)
       \cup Reading("data", Pieces, 2 ^ PieceBits, SignValues)
       \cup Reading("text", Texts, Radix, {-1, 1})

\* The program calls.  Bound: a number too long is only copied.
Request ==
  /\ Idle
  /\ call' \in Calls
  /\ call'.op # "copy" => \A z \in Objects : Len(reg[z].mag) <= MaxBlocks
  /\ call'.op = "shift" /\ reg[call'.a].mag = <<>> => "shift_zero" \in Misuses
  /\ call'.op = "move" /\ call'.z = call'.a => "self_move" \in Misuses
  /\ UNCHANGED reg

Returns(x) == call' = Returned /\ reg' = [reg EXCEPT ![call.z] = x]
Throws     == call' = Thrown /\ UNCHANGED reg

\* +, -, *, / and %, which compound assignments and put-here operations share.
Combine ==
  /\ call.op = "combine"
  /\ IF call.by \in {"/", "%"} /\ reg[call.b].sign = 0 THEN Throws
     ELSE Returns(Combination(call.by, reg[call.a], reg[call.b]))

\* a.divideWithRemainder(b, z), where b may be a or z.
DivideInto ==
  /\ call.op = "divide"
  /\ LET d == Divided(reg[call.a], reg[call.b])
     IN IF call.z = call.a THEN Throws
        ELSE /\ call' = Returned
             /\ reg' = [reg EXCEPT ![call.z] = d.quotient, ![call.a] = d.remainder]

\* negate(), unary minus and flipSign().
Negate == call.op = "negate" /\ Returns(Negated(reg[call.a]))

Step == call.op = "step" /\ Returns(Stepped(reg[call.z], call.n))

Copy == call.op = "copy" /\ Returns(reg[call.a])

\* Moving an array to itself leaves it alone; the sign of the source is cleared.
Move ==
  /\ call.op = "move"
  /\ call' = Returned
  /\ reg' = [reg EXCEPT ![call.z] = reg[call.a],
                        ![call.a] = [sign |-> 0, mag |-> IF call.z = call.a THEN @.mag ELSE <<>>]]

\* The operators of BigUnsigned: the result is made in an object of its own.
CombineMagnitudes ==
  /\ call.op = "magnitude"
  /\ LET x == reg[call.a].mag
         y == reg[call.b].mag
     IN IF \/ call.by \in {"/", "%"} /\ y = <<>>
           \/ call.by = "-" /\ Negative(x, y)
        THEN Throws
        ELSE Returns(Integer(MagnitudeCombination(call.by, x, y), 1))

\* Mutant: the blocks of a difference that wrapped are left.
SubtractHere_NotCleared ==
  /\ call.op = "subtract"
  /\ LET x == reg[call.a].mag
         y == reg[call.b].mag
         wrapped == (Value(x) - Value(y)) % Base ^ Len(x)
         blocks  == [i \in 1 .. Len(x) |-> (wrapped \div Base ^ (i - 1)) % Base]
         left == call.z \notin {call.a, call.b} /\ Len(x) >= Len(y)
     IN IF ~Negative(x, y) THEN Returns(Integer(subtract(x, y), 1))
        ELSE /\ call' = Thrown
             /\ reg' = [reg EXCEPT ![call.z] = IF left THEN [sign |-> 1, mag |-> blocks] ELSE @]

\* z.subtract(a, b) of BigUnsigned: the difference is made in z, unless z is an
\* operand.  A borrow that is left clears z; a shorter minuend is seen before.
SubtractHere ==
  /\ call.op = "subtract"
  /\ LET x == reg[call.a].mag
         y == reg[call.b].mag
         cleared == call.z \notin {call.a, call.b} /\ Len(x) >= Len(y)
     IN IF ~Negative(x, y) THEN Returns(Integer(subtract(x, y), 1))
        ELSE /\ call' = Thrown
             /\ reg' = [reg EXCEPT ![call.z] = IF cleared THEN Zero ELSE @]

IncreaseMagnitude ==
  call.op = "increase" /\ Returns(Integer(increment(reg[call.a].mag), 1))

DecreaseMagnitude ==
  /\ call.op = "decrease"
  /\ IF reg[call.a].mag = <<>> THEN Throws ELSE Returns(Integer(decrement(reg[call.a].mag), 1))

ShiftMagnitude ==
  /\ call.op = "shift"
  /\ LET x == reg[call.a].mag
     IN Returns(Integer(IF call.left THEN bitShiftLeft(x, call.n)
                        ELSE bitShiftRight(x, call.n), 1))

\* setBit() or setBlock().
SetInMagnitude ==
  /\ call.op = "set"
  /\ LET x == reg[call.a].mag
     IN Returns(Integer(IF call.radix = 2 THEN setBit(x, call.i, call.n)
                        ELSE setBlock(x, call.i, call.n), 1))

\* From a signed primitive or an unsigned one, as the number fits.
FromPrimitive ==
  /\ call.op = "primitive"
  /\ Returns(IF call.n < 2 ^ (call.width - 1)
             THEN [sign |-> SignOf(call.n), mag |-> zapLeadingZeros(<<magOf(call.n, call.width)>>)]
             ELSE Integer(<<call.n>>, 1))

\* From an array of blocks, or from one of smaller pieces.
FromData ==
  /\ call.op = "data"
  /\ LET mag == zapLeadingZeros(IF call.radix = Base THEN call.digits ELSE Packed(call.digits))
     IN IF call.sign = 0 /\ mag # <<>> THEN Throws ELSE Returns(Integer(mag, call.sign))

\* stringToBigInteger() and operator >>.
Parse ==
  /\ call.op = "text"
  /\ IF BadDigits(call.digits, Radix) THEN Throws
     ELSE Returns(Integer(MagnitudeOf(call.digits, Radix), call.sign))

Init == reg = [z \in Objects |-> Zero] /\ call = Returned

Next ==
  \/ Request
  \/ Combine \/ DivideInto \/ Negate \/ Step \/ Copy \/ Move
  \/ CombineMagnitudes \/ SubtractHere \/ IncreaseMagnitude \/ DecreaseMagnitude
  \/ ShiftMagnitude \/ SetInMagnitude
  \/ FromPrimitive \/ FromData \/ Parse

Spec == Init /\ [][Next]_vars

-----------------------------------------------------------------------------
(* Comparison and conversion, which change nothing                           *)

\* Mutant: negative numbers are compared as positive ones.
compareIntegers_Magnitudes(x, y) ==
  IF x.sign # y.sign THEN Order(x.sign, y.sign) ELSE compareTo(x.mag, y.mag)

compareIntegers(x, y) ==
  IF x.sign # y.sign THEN Order(x.sign, y.sign) ELSE x.sign * compareTo(x.mag, y.mag)

EqualIntegers(x, y) == x.sign = y.sign /\ Equal(x.mag, y.mag)

\* The low w bits as a number in two's complement.
Signed(n, w) == ((n + 2 ^ (w - 1)) % 2 ^ w) - 2 ^ (w - 1)

\* What a conversion to a primitive of w bits returns: nothing if it throws.
toUnsigned(x, w) ==
  {n \in {Block(x.mag, 1) % 2 ^ w} : x.sign # -1 /\ Len(x.mag) <= 1 /\ n = Block(x.mag, 1)}

\* Mutant: the magnitude is compared without a cast to the unsigned type.
toSigned_Extends(x, w) ==
  LET b == Block(x.mag, 1)
  IN IF x.sign = 0 THEN {0}
     ELSE IF Len(x.mag) # 1 THEN {}
     ELSE IF x.sign = 1 THEN {n \in {Signed(b, w)} : n >= 0 /\ n = b}
     ELSE {n \in {Signed(-Signed(b, w), w)} : n < 0 /\ Signed(-n, w) % Base = b}

toSigned(x, w) ==
  LET b == Block(x.mag, 1)
  IN IF x.sign = 0 THEN {0}
     ELSE IF Len(x.mag) # 1 THEN {}
     ELSE IF x.sign = 1 THEN {n \in {Signed(b, w)} : n >= 0 /\ n % Base = b}
     ELSE {n \in {Signed(-Signed(b, w), w)} : n < 0 /\ (-n) % 2 ^ w = b}

-----------------------------------------------------------------------------
(* Properties                                                                *)

Held(x) == x.sign * Value(x.mag)

\* Every number has one representation, in blocks of their width: no leading
\* zero block, and the sign is zero just where the magnitude is.  Comparison,
\* isZero() and the length that printing relies on assume it.
Normal ==
  \A z \in Objects :
    /\ reg[z].sign \in SignValues /\ reg[z].mag \in Seq(Blocks)
    /\ Canonical(reg[z].mag) /\ (reg[z].sign = 0 <=> reg[z].mag = <<>>)

\* Zero is the only number without blocks, and has none (BigUnsigned.hh:102).
ZeroIsEmpty == \A z \in Objects : Value(reg[z].mag) = 0 <=> reg[z].mag = <<>>

\* Where a difference is to be put, and is negative, there is zero after the
\* exception: a predictable state (BigUnsigned.cc:221).
FailureLeavesZero ==
  [][call.op = "subtract" /\ call.z \notin {call.a, call.b} /\ call' = Thrown
     => reg'[call.z] = Zero]_vars

\* Comparison agrees with the order of integers, == with equality, and the
\* length in bits with the magnitude.
ComparesRight ==
  Idle => \A a, b \in Objects :
    /\ compareIntegers(reg[a], reg[b]) = Order(Held(reg[a]), Held(reg[b]))
    /\ EqualIntegers(reg[a], reg[b]) <=> Held(reg[a]) = Held(reg[b])
    /\ \A l \in 0 .. N * (MaxBlocks + 1) :
         bitLength(reg[a].mag) <= l <=> Value(reg[a].mag) < 2 ^ l

\* In every base the text fits into the room that was made for its digits (the
\* comment at BigUnsignedInABase.cc:54) and reads back as the same number.
PrintsRight ==
  Idle => \A z \in Objects, base \in 2 .. Base - 1 :
    LET text == TextOf(reg[z].sign, reg[z].mag, base)
    IN /\ Digits(reg[z].mag, base).rest = <<>>
       /\ ~BadDigits(text.digits, base)
       /\ Integer(MagnitudeOf(text.digits, base), IF text.sign = "-" THEN -1 ELSE 1) = reg[z]

\* A conversion to a primitive returns the number where the type holds it, the
\* least of a signed type included, and throws elsewhere.
ConvertsRight ==
  Idle => \A z \in Objects, w \in 1 .. N :
    LET n == Held(reg[z])
    IN /\ toUnsigned(reg[z], w) = {n} \cap 0 .. 2 ^ w - 1
       /\ toSigned(reg[z], w) = {n} \cap -(2 ^ (w - 1)) .. 2 ^ (w - 1) - 1
=============================================================================
