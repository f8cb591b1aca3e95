------------------------ MODULE MC_GeneratedExpression ------------------------
(* All short generated expressions, and repetitions of a few sources.         *)
EXTENDS RepeatedExpression

MCNames == {"a", "b", "locked"}
MCRandoms == {2, 30}
MCNumbers == {1, 2, 30}
MCWidth == [n \in {1, 2, 30} |-> IF n = 30 THEN 2 ELSE 1]

Text(kinds) == [i \in DOMAIN kinds |-> IF kinds[i] = "n" THEN Number(2) ELSE Symbol(kinds[i])]

MCSources ==
  {Text(k) : k \in {<<>>, <<"n">>, <<"n", "+", "n", "end">>,
                    <<"(", "n", "-", "n", "*", "n", ")", "end">>}}

MCInitially == {[name \in MCNames |-> IF name = "b" THEN source ELSE Text(<<"n", "end">>)] :
                  source \in MCSources}

Called(m, d, s, f) == [help |-> FALSE, mode |-> m, dest |-> d, size |-> s, from |-> f]

MCArguments ==
  {Called("generate", d, s, None) : d \in {"a"}, s \in {Absent, 2, 3, 4, 5, 6, 7}} \cup
  {Called("generate", d, 5, None) : d \in {"locked", None}} \cup
  {Called("repeat", d, s, f) :
     d \in {"a", "locked"}, s \in {0, 8, 12, 16, 24, 32}, f \in {"a", "b", "locked", None}} \cup
  {Called(m, "a", 5, "b") : m \in {"unknown", None}} \cup
  {[Called("generate", "a", 5, None) EXCEPT !.help = TRUE]}
==============================================================================
