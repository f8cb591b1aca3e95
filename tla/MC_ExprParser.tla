---------------------------- MODULE MC_ExprParser ----------------------------
(* ExprParser for all short texts over a few numbers.                         *)
EXTENDS ExprReference

MCNumbers == {0, 2, 3}
MCFewNumbers == {2}
MCFewSigns == {"+", "*"}

\* What is missing at most: an operand, brackets and the end.
MCContinuations ==
  {operand \o brackets \o <<[kind |-> "end", value |-> 0]>> :
     operand \in {<<>>, <<[kind |-> "number", value |-> 2]>>},
     brackets \in SeqOf({[kind |-> ")", value |-> 0]}, 2)} \cup {<<>>}
==============================================================================
