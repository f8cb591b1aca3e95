------------------------------ MODULE Generator ------------------------------
(***************************************************************************)
(* The generator program (src/generator/main.cpp and generator.cpp): it     *)
(* writes a random expression of about a given size into a file, or repeats *)
(* the expression of one file in another.                                   *)
(*                                                                         *)
(* A file is a sequence of tokens as ExprParser reads them, '\n' being      *)
(* "end".  The size of a text is in characters: a number has Width[n], all  *)
(* else one.  Random choices are choices.  Writing does not fail once a     *)
(* file is open, as the code never asks.                                    *)
(***************************************************************************)
EXTENDS Integers, SequencesExt

CONSTANTS
  Names,      \* names of files
  Openable,   \* those that can be opened
  Initially,  \* what the files may hold at first
  Arguments,  \* what the program may be called with
  Randoms,    \* numbers that rand_int_as_str() may yield
  Width,      \* digits of a number
  MaxWidth,   \* the most of them
  Modulus     \* uint64_t arithmetic is modulo this

MathSigns == {"+", "-", "*", "/"}
Absent == -1
None   == "none"

Symbol(kind) == [kind |-> kind, value |-> 0]
Number(n)    == [kind |-> "number", value |-> n]

FileTokens == {Symbol(kind) : kind \in {"(", ")", "end"} \cup MathSigns} \cup
          {Number(n) : n \in Randoms \cup {1}}

ArgumentSet ==
  [help : BOOLEAN, mode : {"generate", "repeat", "unknown", None},
   dest : Names \cup {None}, size : Nat \cup {Absent}, from : Names \cup {None}]

ASSUME GeneratorAssumption ==
  /\ Openable \subseteq Names /\ None \notin Names
  /\ Initially \subseteq [Names -> Seq(FileTokens)]
  /\ Arguments \subseteq ArgumentSet
  /\ Randoms \subseteq Nat \ {0} /\ MaxWidth \in Nat \ {0}
  /\ Width \in [Randoms \cup {1} -> 1 .. MaxWidth]
  /\ Modulus \in Nat /\ \A a \in Arguments : a.size < Modulus

VARIABLES
  files,      \* what each file holds
  args,       \* the program's arguments
  pc,         \* where the program is
  code,       \* its exit code
  size,       \* size
  brackets,   \* brackets_to_close
  hasMath,    \* has_math_within_brackets, its top last
  prev,       \* prev_action_type
  next,       \* next_action_type
  written     \* history: characters written by generate_expression()

loopVars == <<size, brackets, hasMath, prev, next, written>>
generatorVars == <<files, args, pc, code, loopVars>>

Actions == {"put_number", "open_bracket", "close_bracket", "math"}

GeneratorTypeOK ==
  /\ files \in [Names -> Seq(FileTokens)] /\ args \in Arguments
  /\ pc \in {"arguments", "generate", "loop", "repeat", "copy", "exit"} /\ code \in {0, 1}
  /\ size \in Nat /\ brackets \in Nat /\ hasMath \in Seq(BOOLEAN) /\ written \in Nat
  /\ prev \in Actions \cup {None} /\ next \in Actions

GeneratorInit ==
  /\ files \in Initially /\ args \in Arguments
  /\ pc = "arguments" /\ code = 0
  /\ size = 0 /\ brackets = 0 /\ hasMath = <<>> /\ written = 0
  /\ prev = None /\ next = "put_number"

-----------------------------------------------------------------------------
(* main()                                                                    *)

\* Every exception is caught in main().
Exits(c) == pc' = "exit" /\ code' = c /\ UNCHANGED args

Exit(c) == Exits(c) /\ UNCHANGED loopVars

Misused ==
  \/ args.mode \notin {"generate", "repeat"}
  \/ args.dest = None \/ args.size = Absent
  \/ args.mode = "repeat" /\ args.from = None

\* get_settings() and the choice of the mode.
ReadArguments ==
  /\ pc = "arguments"
  /\ \/ args.help /\ Exit(0)
     \/ ~args.help /\ Misused /\ Exit(1)
     \/ ~args.help /\ ~Misused /\ pc' = args.mode /\ UNCHANGED <<args, code, loopVars>>
  /\ UNCHANGED files

-----------------------------------------------------------------------------
(* generate_expression()                                                     *)

StartGenerating ==
  /\ pc = "generate"
  /\ IF args.size < 3 \/ args.dest \notin Openable THEN Exit(1) /\ UNCHANGED files
     ELSE /\ pc' = "loop"
          /\ files' = [files EXCEPT ![args.dest] = <<>>]
          /\ next' \in {"put_number", "open_bracket"}
          /\ UNCHANGED <<args, code, size, brackets, hasMath, prev, written>>

\* The unsigned difference wraps where it would be negative.
Room == (args.size - brackets) % Modulus

\* Mutant: one turn too many.
Continues_Long == size <= Room

Continues == size < Room

\* get_next_action_type()
NextActions(action, canClose) ==
  CASE action = "open_bracket" -> {"put_number"}
    [] action = "math"         -> {"put_number", "open_bracket"}
    [] OTHER                   -> {"math"} \cup (IF canClose THEN {"close_bracket"} ELSE {})

\* One turn of the loop: text of some characters, of which size counts some.
Turn(action) == pc = "loop" /\ Continues /\ next = action

Writes(text, characters, counted) ==
  /\ files' = [files EXCEPT ![args.dest] = @ \o text]
  /\ written' = written + characters
  /\ size' = size + counted

Advance(action) ==
  /\ prev' = action
  /\ next' \in NextActions(action, brackets' # 0 /\ Last(hasMath'))
  /\ UNCHANGED <<args, pc, code>>

PutNumber ==
  /\ Turn("put_number")
  /\ \E n \in Randoms : Writes(<<Number(n)>>, Width[n], Width[n])
  /\ UNCHANGED <<brackets, hasMath>>
  /\ Advance("put_number")

\* Mutant: an empty bracket counts as one with an operator.
OpenBracket_HasMath ==
  /\ Turn("open_bracket")
  /\ Writes(<<Symbol("(")>>, 1, 1)
  /\ brackets' = brackets + 1
  /\ hasMath' = Append(hasMath, TRUE)
  /\ Advance("open_bracket")

OpenBracket ==
  /\ Turn("open_bracket")
  /\ Writes(<<Symbol("(")>>, 1, 1)
  /\ brackets' = brackets + 1
  /\ hasMath' = Append(hasMath, FALSE)
  /\ Advance("open_bracket")

\* Mutant: the stack keeps the bracket.
CloseBracket_NoPop ==
  /\ Turn("close_bracket")
  /\ Writes(<<Symbol(")")>>, 1, 1)
  /\ brackets' = brackets - 1
  /\ UNCHANGED hasMath
  /\ Advance("close_bracket")

CloseBracket ==
  /\ Turn("close_bracket")
  /\ Writes(<<Symbol(")")>>, 1, 1)
  /\ brackets' = brackets - 1
  /\ hasMath' = Front(hasMath)
  /\ Advance("close_bracket")

\* Mutant: a division is not made one by 1.
PutMath_Divides ==
  /\ Turn("math")
  /\ hasMath' = IF hasMath = <<>> THEN hasMath ELSE Append(Front(hasMath), TRUE)
  /\ UNCHANGED brackets
  /\ \E sign \in MathSigns : Writes(<<Symbol(sign)>>, 1, 1) /\ Advance("put_number")

\* A division is by 1, which is not counted.
PutMath ==
  /\ Turn("math")
  /\ hasMath' = IF hasMath = <<>> THEN hasMath ELSE Append(Front(hasMath), TRUE)
  /\ UNCHANGED brackets
  /\ \/ \E sign \in MathSigns \ {"/"} : Writes(<<Symbol(sign)>>, 1, 1) /\ Advance("math")
     \/ Writes(<<Symbol("/"), Number(1)>>, 2, 1) /\ Advance("put_number")

Closing == [i \in 1 .. brackets |-> Symbol(")")]

\* Mutant: the line is not ended.
FinishGenerating_NoEnd ==
  /\ pc = "loop" /\ ~Continues
  /\ \E n \in Randoms :
       Writes((IF prev = "math" THEN <<Number(n)>> ELSE <<>>) \o Closing,
              (IF prev = "math" THEN Width[n] ELSE 0) + brackets, 0)
  /\ Exits(0) /\ UNCHANGED <<brackets, hasMath, prev, next>>

\* After the loop: a number that is missing, the brackets, and '\n'.
FinishGenerating ==
  /\ pc = "loop" /\ ~Continues
  /\ \E n \in Randoms :
       Writes((IF prev = "math" THEN <<Number(n)>> ELSE <<>>) \o Closing \o <<Symbol("end")>>,
              (IF prev = "math" THEN Width[n] ELSE 0) + brackets + 1, 0)
  /\ Exits(0) /\ UNCHANGED <<brackets, hasMath, prev, next>>

-----------------------------------------------------------------------------
(* repeat_expression_for_size()                                              *)

TokenWidth(t) == IF t.kind = "number" THEN Width[t.value] ELSE 1

\* How many characters a text has: each is one of its token.
Characters(text) ==
  Cardinality({c \in (DOMAIN text) \X (1 .. MaxWidth) : c[2] <= TokenWidth(text[c[1]])})

\* Mutant: the destination is opened first.
StartRepeating_DestFirst ==
  /\ pc = "repeat"
  /\ IF args.dest \in Openable
     THEN /\ files' = [files EXCEPT ![args.dest] = <<>>]
          /\ IF args.from \in Openable THEN pc' = "copy" /\ UNCHANGED <<args, code, loopVars>>
             ELSE Exit(1)
     ELSE Exit(1) /\ UNCHANGED files

\* Opening the destination empties it.
StartRepeating ==
  /\ pc = "repeat"
  /\ IF {args.from, args.dest} \subseteq Openable
     THEN /\ files' = [files EXCEPT ![args.dest] = <<>>]
          /\ pc' = "copy"
          /\ UNCHANGED <<args, code, loopVars>>
     ELSE Exit(1) /\ UNCHANGED files

WithoutEnd(text) == IF Last(text) = Symbol("end") THEN Front(text) ELSE text

\* Mutant: the copies are not joined by a sign.
Repeated_NoSign(expression, n) ==
  [k \in 1 .. n * Len(expression) |-> expression[((k - 1) % Len(expression)) + 1]]

\* n times the expression, with '-' and '+' in turn.
Repeated(expression, n) ==
  LET l == Len(expression) + 1
  IN [k \in 1 .. n * l - 1 |->
        IF k % l # 0 THEN expression[k % l]
        ELSE Symbol(IF (k \div l) % 2 = 1 THEN "-" ELSE "+")]

\* The source is read after the destination was emptied.  A size too small
\* for one copy leaves the destination empty.
CopyExpression ==
  /\ pc = "copy"
  /\ IF files[args.from] = <<>> THEN Exit(1) /\ UNCHANGED files
     ELSE LET expression == WithoutEnd(files[args.from])
              n == args.size \div (Characters(expression) + 1)
          IN /\ files' = [files EXCEPT ![args.dest] =
                            IF n = 0 THEN <<>>
                            ELSE Append(Repeated(expression, n), Symbol("end"))]
             /\ Exit(0)

GeneratorNext ==
  \/ ReadArguments
  \/ StartGenerating \/ PutNumber \/ OpenBracket \/ CloseBracket \/ PutMath \/ FinishGenerating
  \/ StartRepeating \/ CopyExpression

GeneratorSpec == GeneratorInit /\ [][GeneratorNext]_generatorVars

-----------------------------------------------------------------------------
(* Properties                                                                *)

\* approx_max_size - brackets_to_close is never negative, for it would wrap to
\* a size that the loop never reaches; as many brackets are open as there are
\* entries on the stack whose top() is read.
RoomIsReal ==
  /\ pc = "loop" => brackets <= args.size
  /\ Len(hasMath) = brackets

\* How far a file may exceed the size asked for: the 1 after each division and
\* the closing brackets are not counted, which doubles it at most, and the last
\* number may begin where one digit is left.
LengthBounded == written > 0 => written <= 2 * args.size + MaxWidth - 1

\* The bound that the test of the generator requires (tests.cpp:360), which the
\* last number may exceed.
TwiceTheSize == written > 0 => written <= 2 * args.size

HowMany(text, kind) == Cardinality({i \in DOMAIN text : text[i].kind = kind})

\* While an expression is written, the brackets left open in the file are those
\* counted, and a bracket that is closed before the end holds an operator.
BracketsTracked ==
  pc = "loop" =>
    LET text == files[args.dest]
    IN /\ HowMany(text, "(") - HowMany(text, ")") = brackets
       /\ \A i, j \in DOMAIN text :
            /\ i < j /\ text[i].kind = "(" /\ text[j].kind = ")"
            /\ \A k \in (i + 1) .. (j - 1) : text[k].kind \notin {"(", ")"}
            => \E k \in i .. j : text[k].kind \in MathSigns

\* Only the destination is written, and not even that by a call that is refused
\* for its size or because a file cannot be opened.
OthersKept ==
  [][\A name \in Names :
       files'[name] # files[name] =>
         /\ name = args.dest /\ args.dest \in Openable
         /\ args.mode = "generate" => args.size >= 3
         /\ args.mode = "repeat" => args.from \in Openable]_generatorVars
=============================================================================
