-------------------------- MODULE IntegerRegisters --------------------------
(***************************************************************************)
(* What BigInteger promises: objects that hold integers, and calls that     *)
(* compute with them without a limit and round quotients down.  Nothing is  *)
(* known here of signs, blocks, carries or digits.                          *)
(*                                                                         *)
(* A call is a record of its operation, the object z it assigns, its        *)
(* operands a and b, and so on; between calls, call is how the last ended.  *)
(***************************************************************************)
EXTENDS Integers, SequencesExt

VARIABLES val, call

Magnitude(m) == IF m < 0 THEN -m ELSE m

FloorQuotient(m, n) == IF n > 0 THEN m \div n ELSE (-m) \div (-n)
FloorRemainder(m, n) == m - n * FloorQuotient(m, n)

\* The number of some digits, the least significant first.
NumberOf(digits, radix) ==
  LET v[k \in 0 .. Len(digits)] ==
        IF k = Len(digits) THEN 0 ELSE digits[k + 1] + radix * v[k + 1]
  IN v[0]

Power(m, n) == LET p[k \in 0 .. n] == IF k = 0 THEN 1 ELSE m * p[k - 1] IN p[n]

Shift(m, n) == IF n >= 0 THEN m * Power(2, n) ELSE m \div Power(2, -n)

\* The digit i of m in a radix, and m with n instead of it.
Digit(m, i, radix) == (m \div Power(radix, i)) % radix

WithDigit(m, i, n, radix) == m + (n - Digit(m, i, radix)) * Power(radix, i)

\* Two numbers bit by bit: a bit is set where so many of theirs are.
Bitwise(set, m, n) ==
  LET length == CHOOSE l \in 0 .. m + n : m < Power(2, l) /\ n < Power(2, l)
  IN NumberOf([i \in 1 .. length |->
                 IF Digit(m, i - 1, 2) + Digit(n, i - 1, 2) \in set THEN 1 ELSE 0], 2)

Combination(op, m, n) ==
  CASE op = "+" -> m + n
    [] op = "-" -> m - n
    [] op = "*" -> m * n
    [] op = "/" -> FloorQuotient(m, n)
    [] op = "%" -> FloorRemainder(m, n)
    [] op = "&" -> Bitwise({2}, m, n)
    [] op = "|" -> Bitwise({1, 2}, m, n)
    [] op = "^" -> Bitwise({1}, m, n)

Refused ==
  CASE call.op = "combine"   -> call.by \in {"/", "%"} /\ val[call.b] = 0
    [] call.op = "magnitude" ->
         \/ call.by \in {"/", "%"} /\ val[call.b] = 0
         \/ call.by = "-" /\ Magnitude(val[call.a]) < Magnitude(val[call.b])
    [] call.op = "subtract"  -> Magnitude(val[call.a]) < Magnitude(val[call.b])
    [] call.op = "decrease"  -> val[call.a] = 0
    [] call.op = "divide"    -> call.z = call.a
    [] call.op = "data"      -> call.sign = 0 /\ NumberOf(call.digits, call.radix) # 0
    [] call.op = "text"      -> \E i \in DOMAIN call.digits : call.digits[i] >= call.radix
    [] OTHER                 -> FALSE

\* What the call assigns to its object z.
Result ==
  CASE call.op = "combine"   -> Combination(call.by, val[call.a], val[call.b])
    [] call.op = "magnitude" -> Combination(call.by, Magnitude(val[call.a]), Magnitude(val[call.b]))
    [] call.op = "subtract"  -> Magnitude(val[call.a]) - Magnitude(val[call.b])
    [] call.op = "divide"    -> FloorQuotient(val[call.a], val[call.b])
    [] call.op = "negate"    -> -val[call.a]
    [] call.op = "step"      -> val[call.z] + call.n
    [] call.op \in {"copy", "move"} -> val[call.a]
    [] call.op = "increase"  -> Magnitude(val[call.a]) + 1
    [] call.op = "decrease"  -> Magnitude(val[call.a]) - 1
    [] call.op = "shift"     -> Shift(Magnitude(val[call.a]), IF call.left THEN call.n ELSE -call.n)
    [] call.op = "set"       -> WithDigit(Magnitude(val[call.a]), call.i, call.n, call.radix)
    [] call.op = "primitive" -> call.n
    [] call.op = "data"      -> call.sign * NumberOf(call.digits, call.radix)
    [] call.op = "text"      -> call.sign * NumberOf(Reverse(call.digits), call.radix)

\* Dividing also leaves the remainder in the dividend, and an object that was
\* moved from is zero.  A quotient by zero is zero, and leaves the dividend.
Assigned ==
  CASE call.op = "divide" ->
         [val EXCEPT ![call.z] = IF val[call.b] = 0 THEN 0 ELSE Result,
                     ![call.a] = IF val[call.b] = 0 THEN @ ELSE FloorRemainder(@, val[call.b])]
    [] call.op = "move" -> [val EXCEPT ![call.z] = Result, ![call.a] = 0]
    [] OTHER         -> [val EXCEPT ![call.z] = Result]

Returned == [op |-> "returned"]
Thrown   == [op |-> "thrown"]

Init == (\A z \in DOMAIN val : val[z] = 0) /\ call = Returned

Request == call \in {Returned, Thrown} /\ call' \notin {Returned, Thrown} /\ UNCHANGED val

\* A call that throws changes nothing, but a difference may leave zero where it
\* was to be put, if that is no operand.
Spoiled ==
  /\ call.op = "subtract" /\ call.z \notin {call.a, call.b}
  /\ val' = [val EXCEPT ![call.z] = 0]

Serve ==
  /\ call \notin {Returned, Thrown}
  /\ IF Refused THEN call' = Thrown /\ (UNCHANGED val \/ Spoiled)
     ELSE call' = Returned /\ val' = Assigned

Next == Request \/ Serve

Spec == Init /\ [][Next]_<<val, call>>
=============================================================================
