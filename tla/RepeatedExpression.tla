-------------------------- MODULE RepeatedExpression --------------------------
(***************************************************************************)
(* What the calculator says of a repeated expression, by the meaning of the *)
(* expression itself.                                                       *)
(***************************************************************************)
EXTENDS GeneratedExpression, ExprReference

\* A bracket at the beginning that the last token closes.
Wrapped(t) ==
  /\ t[1].kind = "(" /\ Last(t).kind = ")"
  /\ \A k \in 2 .. Len(t) : Depth(t, k) > 0

\* An expression within brackets, repeated, is not refused: it has its own value
\* or zero, as the number of copies is odd or even (generator.h:11, README.md:12).
RepeatedIsValueOrZero ==
  LET source  == WithoutEnd(files[args.from])
      meaning == TextMeaning(Append(source, Symbol("end")))
      copies  == Len(File) \div (Len(source) + 1)
  IN /\ args.mode = "repeat" /\ phase \in {"value", "invalid"}
     /\ Wrapped(source) /\ meaning.kind = "value"
     => phase = "value" /\ answer = IF copies % 2 = 1 THEN meaning.value ELSE 0
=============================================================================
