------------------------------ MODULE ExprParser ------------------------------
(***************************************************************************)
(* The expression parser of calc::async_calculator                          *)
(* (src/calculator/calculator.h and calculator.cpp): a shunting-yard that   *)
(* evaluates as it reads, with the stack m_operator_stack, whose markers    *)
(* also hold the brackets, and the stack m_numbers.                         *)
(*                                                                         *)
(* Text is a sequence of tokens: a run of digits (blanks in it are dropped) *)
(* is its number, '\n' and '\r' are "end"; numbers are unbounded, as in the *)
(* BigInteger the server calculates with.  Reading a token is one action,   *)
(* one turn of the loop in calc_subexpression() another.  Where the text    *)
(* comes from, and what else may end a calculation, is AsyncCalculator.     *)
(***************************************************************************)
EXTENDS Integers, SequencesExt

CONSTANTS
  Numbers,    \* numbers that may stand in the text
  Signs,      \* operators that may stand in the text
  MaxTokens   \* bound: tokens read

Binary == {"+", "-", "*", "/"}

ASSUME ParserAssumption ==
  /\ Numbers \subseteq Nat
  /\ Signs \subseteq Binary
  /\ MaxTokens \in Nat

Kinds  == {"number", "(", ")", "end", "bad"} \cup Binary
Tokens == [kind : Kinds, value : Numbers \cup {0}]

VARIABLES
  operators,  \* m_operator_stack, its top last
  numbers,    \* m_numbers, its top last
  phase,      \* where in parse_subexpression()
  token,      \* the operator or bracket that waits for calc_subexpression()
  answer,     \* the result, once phase is "value"
  text        \* history: the tokens read

vars == <<operators, numbers, phase, token, answer, text>>

\* subexpr_start and subexpr_first_num, and the operators.
Markers == {"start", "first_num"}

TypeOK ==
  /\ operators \in Seq(Markers \cup Binary)
  /\ numbers \in Seq(Int)
  /\ phase \in {"read", "minus", "unwind", "finish", "value", "invalid"}
  /\ token \in Binary \cup {")", "end"}
  /\ answer \in Int
  /\ text \in Seq(Tokens)

\* calculate() pushes the marker of the outermost expression.
Init ==
  /\ operators = <<"start">> /\ numbers = <<>>
  /\ phase = "read" /\ token = "end" /\ answer = 0
  /\ text = <<>>

\* get_precedence(); ")" and "end" are operator_type::end.
Precedence(oper) ==
  CASE oper \in Markers -> -1
    [] oper \in {")", "end"} -> 0
    [] oper \in {"+", "-"} -> 1
    [] OTHER -> 2

\* BigInteger rounds a quotient down.
Quotient(a, b) == IF b > 0 THEN a \div b ELSE (-a) \div (-b)

\* calc_math(), but for the division by zero.
Calculated(a, oper, b) ==
  CASE oper = "+" -> a + b
    [] oper = "-" -> a - b
    [] oper = "*" -> a * b
    [] OTHER -> Quotient(a, b)

\* maybe_swap_top_subexpr_start(), for a stack that is not empty.
Swapped(stack) ==
  IF Last(stack) = "start" THEN Append(Front(stack), "first_num") ELSE stack

-----------------------------------------------------------------------------
(* parse_subexpression(): one token                                          *)

Invalid == phase' = "invalid" /\ UNCHANGED <<operators, numbers, token, answer>>

\* A run of digits ends where the next token begins: two never touch.
Reads(kind, n) ==
  /\ phase \in {"read", "minus"}
  /\ Len(text) < MaxTokens
  /\ kind = "number" /\ text # <<>> => Last(text).kind # "number"
  /\ text' = Append(text, [kind |-> kind, value |-> n])

ReadOpening ==
  /\ phase = "read" /\ Reads("(", 0)
  /\ operators' = Append(operators, "start")
  /\ UNCHANGED <<numbers, phase, token, answer>>

ReadClosing ==
  /\ phase = "read"
  /\ \E t \in {")", "end"} : Reads(t, 0) /\ token' = t
  /\ phase' = "unwind"
  /\ UNCHANGED <<operators, numbers, answer>>

\* parse_number(), from the first digit or from a '-' before it.
ReadNumber ==
  \E n \in Numbers :
    /\ Reads("number", n)
    /\ numbers' = Append(numbers, IF phase = "minus" THEN -n ELSE n)
    /\ operators' = Swapped(operators)
    /\ phase' = "read"
    /\ UNCHANGED <<token, answer>>

ReadMinus ==
  /\ phase = "read" /\ Last(operators) = "start"
  /\ "-" \in Signs /\ Reads("-", 0)
  /\ phase' = "minus"
  /\ UNCHANGED <<operators, numbers, token, answer>>

ReadSign ==
  /\ phase = "read"
  /\ \E t \in Signs :
       /\ Reads(t, 0)
       /\ \/ Last(operators) = "start" /\ t # "-" /\ Invalid
          \/ /\ Last(operators) = "first_num"
             /\ operators' = Append(operators, t)
             /\ UNCHANGED <<numbers, phase, token, answer>>
          \/ /\ Last(operators) \notin Markers
             /\ phase' = "unwind" /\ token' = t
             /\ UNCHANGED <<operators, numbers, answer>>

\* get_entry_type() throws; parse_number() has no digit after its '-'.
ReadError ==
  /\ \E t \in {"(", ")", "end", "bad"} \cup Signs :
       Reads(t, 0) /\ (t = "bad" \/ phase = "minus")
  /\ Invalid

-----------------------------------------------------------------------------
(* calc_subexpression(): one turn of its loop, then what comes after it      *)

\* Mutant: an operator yields only to a stronger one.
Unwinds_Strict == operators # <<>> /\ Precedence(token) < Precedence(Last(operators))

Unwinds == operators # <<>> /\ Precedence(token) <= Precedence(Last(operators))

\* Mutant: the number on top of the stack is the left operand.
Apply_Swapped ==
  LET n == Len(numbers) IN
  IF n < 2 \/ (Last(operators) = "/" /\ numbers[n - 1] = 0) THEN Invalid
  ELSE /\ numbers' = Append(SubSeq(numbers, 1, n - 2),
                            Calculated(numbers[n], Last(operators), numbers[n - 1]))
       /\ operators' = Swapped(Front(operators))
       /\ UNCHANGED <<phase, token, answer>>

\* The operator on top is applied to the two numbers on top.
Apply ==
  LET n == Len(numbers) IN
  IF n < 2 \/ (Last(operators) = "/" /\ numbers[n] = 0) \/ Len(operators) = 1 THEN Invalid
  ELSE /\ numbers' = Append(SubSeq(numbers, 1, n - 2),
                            Calculated(numbers[n - 1], Last(operators), numbers[n]))
       /\ operators' = Swapped(Front(operators))
       /\ UNCHANGED <<phase, token, answer>>

Unwind == phase = "unwind" /\ Unwinds /\ Apply /\ UNCHANGED text

PushSign ==
  /\ phase = "unwind" /\ ~Unwinds /\ token \in Binary
  /\ operators' = Append(operators, token)
  /\ phase' = "read"
  /\ UNCHANGED <<numbers, token, answer, text>>

\* Mutant: the outermost marker is popped like any other.
Close_PopsLast ==
  /\ phase = "unwind" /\ ~Unwinds /\ token = ")"
  /\ IF Last(operators) # "first_num" THEN Invalid
     ELSE /\ operators' = Front(operators)
          /\ phase' = "read"
          /\ UNCHANGED <<numbers, token, answer>>
  /\ UNCHANGED text

\* Mutant: a bracket right above the outermost marker cannot be closed.
Close_OffByOne ==
  /\ phase = "unwind" /\ ~Unwinds /\ token = ")"
  /\ IF Last(operators) # "first_num" \/ Len(operators) <= 2 THEN Invalid
     ELSE /\ operators' = Swapped(Front(operators))
          /\ phase' = "read"
          /\ UNCHANGED <<numbers, token, answer>>
  /\ UNCHANGED text

\* A closing bracket ends a subexpression that is not empty, and not the
\* outermost one.
Close ==
  /\ phase = "unwind" /\ ~Unwinds /\ token = ")"
  /\ IF Last(operators) # "first_num" \/ Len(operators) = 1 THEN Invalid
     ELSE /\ operators' = Swapped(Front(operators))
          /\ phase' = "read"
          /\ UNCHANGED <<numbers, token, answer>>
  /\ UNCHANGED text

End ==
  /\ phase = "unwind" /\ ~Unwinds /\ token = "end"
  /\ IF Last(operators) # "first_num" THEN Invalid
     ELSE /\ operators' = Front(operators)
          /\ phase' = "finish"
          /\ UNCHANGED <<numbers, token, answer>>
  /\ UNCHANGED text

\* Mutant: brackets may be left open.
Finish_Open ==
  /\ phase = "finish"
  /\ IF Len(numbers) # 1 THEN Invalid
     ELSE /\ answer' = Last(numbers) /\ numbers' = Front(numbers)
          /\ phase' = "value"
          /\ UNCHANGED <<operators, token>>
  /\ UNCHANGED text

\* The check at the end of calculate().
Finish ==
  /\ phase = "finish"
  /\ IF operators # <<>> \/ Len(numbers) # 1 THEN Invalid
     ELSE /\ answer' = Last(numbers) /\ numbers' = Front(numbers)
          /\ phase' = "value"
          /\ UNCHANGED <<operators, token>>
  /\ UNCHANGED text

Read == ReadOpening \/ ReadClosing \/ ReadNumber \/ ReadMinus \/ ReadSign \/ ReadError

Next == Read \/ Unwind \/ PushSign \/ Close \/ End \/ Finish

Spec == Init /\ [][Next]_vars

-----------------------------------------------------------------------------
(* Properties                                                                *)

Count(kinds) == Cardinality({i \in 1 .. Len(text) : text[i].kind \in kinds})

\* A '-' that belongs to a number: it starts the text or follows a bracket.
Negates(i) == text[i].kind = "-" /\ (i = 1 \/ text[i - 1].kind = "(")
Negations == Cardinality({i \in 1 .. Len(text) : Negates(i)})

\* A value is only given for a text whose brackets match and that has one
\* number more than it has operators: no operand is lost or used twice, though
\* calc_subexpression() counts the numbers of the whole expression.
ValueIsBalanced ==
  phase = "value" =>
    /\ Count({"("}) = Count({")"})
    /\ Count({"number"}) = Count(Binary) - Negations + 1

\* No top() and no pop() of the operator stack meets an empty stack: the
\* outermost marker stays at the bottom until the end of the text
\* (parse_subexpression(), maybe_swap_top_subexpr_start() and its assertion).
MarkerAtBottom ==
  phase \in {"read", "minus", "unwind"} => operators # <<>> /\ operators[1] \in Markers

\* Between two brackets, precedence never falls towards the top of the stack:
\* one pass of calc_subexpression() evaluates in the right order.
StackOrdered ==
  \A i \in 2 .. Len(operators) :
    operators[i] \in Binary /\ operators[i - 1] \in Binary =>
      Precedence(operators[i - 1]) < Precedence(operators[i])

-----------------------------------------------------------------------------
(* Why a value is balanced: an invariant of the unfinished parse.            *)

Open == Cardinality({i \in 1 .. Len(operators) : operators[i] \in Markers})

\* Is the token that waits for calc_subexpression() one of these?
Waits(tokens) == IF phase = "unwind" /\ token \in tokens THEN 1 ELSE 0

\* Every open bracket has its marker, and the whole expression one more; every
\* operator that is not on the stack has made one number of two.
Accounted ==
  phase \in {"read", "minus", "unwind", "finish"} =>
    /\ Count({"("}) + 1 + Waits({")"}) = Count({")"}) + Open + (IF phase = "finish" THEN 1 ELSE 0)
    /\ Count({"number"}) + Len(operators) + Waits(Binary) + Negations =
         Len(numbers) + Count(Binary) + Open

\* An expression begins, for the stack, where it begins in the text.
BeginningSeen ==
  /\ phase = "read" => (Last(operators) = "start" <=> text = <<>> \/ Last(text).kind = "(")
  /\ phase = "unwind" => text # <<>> /\ Last(text).kind = token

BalanceInv == Accounted /\ BeginningSeen /\ ValueIsBalanced
=============================================================================
