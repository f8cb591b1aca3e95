---------------------------- MODULE ExprReference ----------------------------
(***************************************************************************)
(* What an arithmetic expression means, by its grammar, as a reference for  *)
(* ExprParser:                                                              *)
(*   sum     = product | sum ("+" | "-") product                            *)
(*   product = operand | product ("*" | "/") operand                        *)
(*   operand = number | "(" sum ")", and a sum may begin with "-" number.   *)
(* The text is cut at its last operator of the lowest precedence outside    *)
(* brackets; no stack is involved.                                          *)
(***************************************************************************)
EXTENDS ExprParser, FiniteSets

CONSTANT Continuations   \* bound: how a text that was refused might have gone on

ASSUME ReferenceAssumption == Continuations \subseteq Seq(Tokens)

Malformed == [kind |-> "malformed", value |-> 0]
DividesByZero == [kind |-> "by_zero", value |-> 0]
ValueOf(n) == [kind |-> "value", value |-> n]

\* How many brackets are open before the k-th token of a text.
Depth(t, k) ==
  Cardinality({l \in 1 .. k - 1 : t[l].kind = "("}) -
  Cardinality({l \in 1 .. k - 1 : t[l].kind = ")"})

Combined(a, sign, b) ==
  IF "malformed" \in {a.kind, b.kind} THEN Malformed
  ELSE IF "by_zero" \in {a.kind, b.kind} \/ (sign = "/" /\ b.value = 0) THEN DividesByZero
  ELSE ValueOf(Calculated(a.value, sign, b.value))

\* The last place between i and j, i itself excepted, with one of the signs
\* outside the brackets; 0 if there is none.
LastSign(t, i, j, signs) ==
  LET places == {k \in i + 1 .. j : t[k].kind \in signs /\ Depth(t, k) = Depth(t, i)}
  IN IF places = {} THEN 0 ELSE CHOOSE k \in places : \A l \in places : l <= k

\* A '-' at the i-th place would belong to the number after it.
Leading(t, i) == i = 1 \/ t[i - 1].kind = "("

\* The meaning of the tokens from i to j, by the meanings m of what they are made of.
MeaningBy(m, t, i, j) ==
  LET sum == LastSign(t, i, j, {"+", "-"})
      cut == IF sum # 0 THEN sum ELSE LastSign(t, i, j, {"*", "/"})
  IN IF i > j THEN Malformed
     ELSE IF cut # 0 THEN Combined(m[<<i, cut - 1>>], t[cut].kind, m[<<cut + 1, j>>])
     ELSE IF i = j /\ t[i].kind = "number" THEN ValueOf(t[i].value)
     ELSE IF j = i + 1 /\ Leading(t, i) /\ t[i].kind = "-" /\ t[j].kind = "number"
          THEN ValueOf(-t[j].value)
     ELSE IF t[i].kind = "(" /\ t[j].kind = ")" THEN m[<<i + 1, j - 1>>]
     ELSE Malformed

Stretches(t) == (1 .. Len(t) + 1) \X (0 .. Len(t))

Meanings(t) == LET m[s \in Stretches(t)] == MeaningBy(m, t, s[1], s[2]) IN m

\* What the tokens before the end of a text mean.
TextMeaning(t) ==
  IF t # <<>> /\ t[Len(t)].kind = "end" THEN Meanings(t)[<<1, Len(t) - 1>>] ELSE Malformed

\* A well-formed text is answered with its value: precedence, associativity,
\* brackets and negative numbers are what the grammar says, and a division by
\* zero is not answered.
EvaluatesRight ==
  phase = "value" /\ TextMeaning(text).kind # "malformed" => TextMeaning(text) = ValueOf(answer)

\* A text is refused, at its end or before (calculator.h:229, 266), only if
\* nothing that might still follow would give it a value: where the grammar is
\* broken for good, or a division by zero is done.
RefusesHopelessOnly ==
  phase = "invalid" => \A u \in Continuations : TextMeaning(text \o u).kind # "value"

\* Every text that is answered is an expression: an operator that lacks an
\* operand is refused (calculator.h:263), wherever it stands.
MalformedRefused == phase = "value" => TextMeaning(text).kind # "malformed"
=============================================================================
