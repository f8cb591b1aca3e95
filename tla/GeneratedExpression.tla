------------------------- MODULE GeneratedExpression -------------------------
(***************************************************************************)
(* The generator and the calculator it is for: once the program has ended   *)
(* well, ExprParser reads the file it wrote, token by token.                *)
(***************************************************************************)
EXTENDS Generator, ExprParser

\* The calculator knows every operator, and the numbers that are written.
ASSUME CalculatorAssumption == Numbers = Randoms \cup {1} /\ Signs = Binary

File == files[args.dest]

\* Reading what stands in the file.
Calculate ==
  /\ pc = "exit" /\ code = 0 /\ ~args.help
  /\ Next
  /\ text' # text => Len(text') <= Len(File) /\ Last(text') = File[Len(text')]
  /\ UNCHANGED generatorVars

GeneratedInit == GeneratorInit /\ Init

GeneratedNext == (GeneratorNext /\ UNCHANGED vars) \/ Calculate

\* The program and the calculator go on as long as they can.
GeneratedSpec ==
  GeneratedInit /\ [][GeneratedNext]_<<generatorVars, vars>> /\ WF_<<generatorVars, vars>>(GeneratedNext)

-----------------------------------------------------------------------------
(* Properties                                                                *)

Empty(t, i) == t[i].kind = "(" /\ t[i + 1].kind = ")"

\* The calculator has a value for a generated expression: it is valid, as the
\* test of the generator requires (tests.cpp:314), and divides by nothing but 1
\* (generator.cpp:172).
GeneratedIsValid == args.mode = "generate" => phase # "invalid"

\* It has one unless the size was reached by an opening bracket, which is then
\* closed at once: no other choice, and no division, makes it refuse the file.
OnlyEmptyBracketsRefused ==
  args.mode = "generate" /\ phase = "invalid" =>
    \E i \in 1 .. Len(File) - 1 : Empty(File, i)

\* The program ends, and the calculator gives a verdict on whatever was
\* written: the loop reaches its size however the choices fall.
Answered ==
  <>(/\ pc = "exit"
     /\ code = 1 \/ args.help \/ File = <<>> \/ phase \in {"value", "invalid"})
=============================================================================
